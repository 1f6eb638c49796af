---------------------------- MODULE EntityPool ----------------------------
(***************************************************************************)
(* The pool of entities: the animals and the dropped items of a world,     *)
(* entityList, and the mesh each of them owns in allObj, whose buffers are *)
(* taken from and given back to the program's own heap                     *)
(* (src/src/eninge.c).                                                     *)
(*                                                                         *)
(* A sheep takes two slots: its own, drawn while it has its fleece, and    *)
(* that of a second mesh of type 255, drawn while it is shorn.             *)
(*                                                                         *)
(* locationOnAllObj is left out: whenever it is read, it is 100 + slot.    *)
(* Positions are left out too: which mobs are near each other, which one   *)
(* the player looks at, and which one dies, grazes or is picked up, are    *)
(* choices.                                                                *)
(***************************************************************************)
EXTENDS Integers, FiniteSets

CONSTANTS
    entityLength,  \* 128 in the program
    Made,          \* bound: the types of entities that are made
    MaxFeeds,      \* bound: how often a mob is fed
    LastSlotSheep  \* bound: FALSE leaves out the sheep that finds no slot for
                   \* its second mesh (made in the last free slot, or loaded)

None    == 0
Sheep   == 1
Pig     == 2
Item    == 3
Shorn   == 255  \* the second mesh of a sheep
NoTarget == -1

ASSUME PoolAssumption ==
    /\ entityLength \in Nat \ {0}
    /\ Made \subseteq {Sheep, Pig, Item}
    /\ MaxFeeds \in Nat
    /\ LastSlotSheep \in BOOLEAN

Slot   == 0..(entityLength - 1)
Buffer == {"verticesIPC", "triangles", "color", "normal", "textureSize", "solidColor"}

ItemBuffers == Buffer \ {"solidColor"}
MobBuffers  == Buffer

VARIABLES
    active, type, extraEntity, hasFur, isFed,  \* the fields of entityList
    heap,         \* the buffers of each slot's mesh: "null", "live" or "freed"
    usedEntitys,
    target,       \* entityInFrontIndex
    phase,        \* where the program is: "menu", "creating", "loading",
                  \* and in a frame of the game "reach", "mobs", "mating", "keys"
    at,           \* the slot the loop of that phase is at
    mate,         \* the slot the inner loop of "mating" is at
    saved,        \* the entityData file of the world, Unsaved if there is none
    lost,         \* history: was the last pointer to a live buffer overwritten
    doubleFree,   \* history: was a buffer freed that was not live
    feeds, births \* history: mobs fed, mobs born

list  == <<active, type, extraEntity, hasFur, isFed>>
loop  == <<phase, at, mate>>
spoil == <<lost, doubleFree>>
tally == <<feeds, births>>
vars  == <<active, type, extraEntity, hasFur, isFed, heap, usedEntitys, target,
           phase, at, mate, saved, lost, doubleFree, feeds, births>>

Free   == {s \in Slot : ~active[s]}
Active == {s \in Slot : active[s]}

\* The slot a search from the first slot on finds in S.
First(s, S) == s \in S /\ \A r \in S : s <= r

Unsaved == [s \in Slot |-> [active |-> FALSE, type |-> None, hasFur |-> FALSE]]

Init ==
    /\ active = [s \in Slot |-> FALSE]
    /\ type = [s \in Slot |-> None]
    /\ extraEntity = [s \in Slot |-> 0]
    /\ hasFur = [s \in Slot |-> FALSE]
    /\ isFed = [s \in Slot |-> FALSE]
    /\ heap = [s \in Slot |-> [b \in Buffer |-> "null"]]
    /\ usedEntitys = 0
    /\ target = NoTarget
    /\ phase = "menu" /\ at = 0 /\ mate = 0
    /\ saved = Unsaved
    /\ lost = FALSE /\ doubleFree = FALSE
    /\ feeds = 0 /\ births = 0

----------------------------------------------------------------------------
(* Slots and buffers.                                                      *)

\* The first n free slots, or all of them if there are fewer: what n searches
\* for an inactive slot find, each taking the slot it finds.
FirstFree(D, n) ==
    /\ \A d \in D, s \in Free \ D : d < s
    /\ Cardinality(D) <= n
    /\ Cardinality(D) < n => D = Free

\* tlsf_malloc for every slot of S, and tlsf_free for the slot s.  Freeing
\* NULL does nothing; allocating over a live pointer loses what it points to.
Allocated(S, bufs) ==
    [s \in Slot |-> [b \in Buffer |->
        IF s \in S /\ b \in bufs THEN "live" ELSE heap[s][b]]]
Freed(h, s, bufs) ==
    [h EXCEPT ![s] = [b \in Buffer |->
        IF b \in bufs /\ @[b] = "live" THEN "freed" ELSE @[b]]]
FreesTwice(h, s, bufs) == \E b \in bufs : h[s][b] = "freed"

Allocate(S, bufs) ==
    /\ heap' = Allocated(S, bufs)
    /\ lost' = (lost \/ \E s \in S, b \in bufs : heap[s][b] = "live")

Activate(S) == active' = [s \in Slot |-> s \in S \/ active[s]]

----------------------------------------------------------------------------
(* Making entities.  A full pool makes nothing.                            *)

\* makeItem: a mined block, a fleece, meat, what falls out of a furnace.
makeItem ==
    \E D \in SUBSET Free :
        /\ FirstFree(D, 1)
        /\ Activate(D)
        /\ Allocate(D, ItemBuffers)
        /\ type' = [s \in Slot |-> IF s \in D THEN Item ELSE type[s]]
        /\ usedEntitys' = usedEntitys + Cardinality(D)
        /\ UNCHANGED <<extraEntity, doubleFree>>

\* makePig: isFed keeps what the slot's last entity left there.
makePig ==
    \E D \in SUBSET Free :
        /\ FirstFree(D, 1)
        /\ Activate(D)
        /\ Allocate(D, MobBuffers)
        /\ type' = [s \in Slot |-> IF s \in D THEN Pig ELSE type[s]]
        /\ usedEntitys' = usedEntitys + Cardinality(D)
        /\ UNCHANGED <<extraEntity, hasFur, doubleFree>>

\* makeSheep2: the sheep in the first free slot, its second mesh in the next
\* one.  If there is no next one, extraEntity keeps what it was.
makeSheep2 ==
    \E D \in SUBSET Free :
        LET own   == {s \in D : First(s, D)}
            extra == D \ own
        IN  /\ FirstFree(D, 2)
            /\ Cardinality(D) = 1 => LastSlotSheep
            /\ Activate(D)
            /\ Allocate(D, MobBuffers)
            /\ type' = [s \in Slot |-> IF s \in own THEN Sheep
                                       ELSE IF s \in extra THEN Shorn ELSE type[s]]
            /\ hasFur' = [s \in Slot |-> s \in own \/ hasFur[s]]
            /\ extraEntity' = [s \in Slot |->
                   IF s \in own /\ extra # {} THEN CHOOSE e \in extra : TRUE
                   ELSE extraEntity[s]]
            /\ usedEntitys' = usedEntitys + Cardinality(D)
            /\ UNCHANGED doubleFree

Make(kind) ==
    /\ kind \in Made
    /\ \/ kind = Item  /\ makeItem /\ UNCHANGED hasFur
       \/ kind = Pig   /\ makePig
       \/ kind = Sheep /\ makeSheep2

----------------------------------------------------------------------------
(* A world is created, opened, saved and left.                             *)

\* Mutants: the second meshes are saved like the others; the fleece is not saved.
EntityDataOfAll ==
    [s \in Slot |-> [active |-> active[s], type |-> type[s],
                     hasFur |-> type[s] = Sheep /\ hasFur[s]]]
EntityDataNoFur ==
    [s \in Slot |-> [active |-> active[s] /\ type[s] # Shorn,
                     type |-> IF type[s] = Shorn THEN None ELSE type[s], hasFur |-> FALSE]]

\* saveEntityData: the second meshes are saved as empty slots.
EntityData ==
    [s \in Slot |->
        IF type[s] = Shorn THEN [active |-> FALSE, type |-> None, hasFur |-> FALSE]
        ELSE [active |-> active[s], type |-> type[s],
              hasFur |-> type[s] = Sheep /\ hasFur[s]]]

\* clearAllEntitys: of a mob's buffers, two are not freed.
ClearedBuffers(s) == IF type[s] = Item THEN ItemBuffers
                     ELSE MobBuffers \ {"color", "textureSize"}

clearAllEntitys ==
    /\ active' = [s \in Slot |-> FALSE]
    /\ type' = [s \in Slot |-> IF active[s] THEN None ELSE type[s]]
    /\ extraEntity' = [s \in Slot |-> IF active[s] THEN 0 ELSE extraEntity[s]]
    /\ hasFur' = [s \in Slot |-> ~active[s] /\ hasFur[s]]
    /\ isFed' = [s \in Slot |-> ~active[s] /\ isFed[s]]
    /\ heap' = [s \in Slot |-> IF active[s] THEN Freed(heap, s, ClearedBuffers(s))[s]
                               ELSE heap[s]]
    /\ doubleFree' = (doubleFree \/ \E s \in Active : FreesTwice(heap, s, ClearedBuffers(s)))
    /\ usedEntitys' = 0
    /\ UNCHANGED lost

\* The screen that creates a world makes its mobs and saves it.
CreateWorld ==
    /\ phase = "menu" /\ phase' = "creating"
    /\ UNCHANGED <<list, heap, usedEntitys, target, at, mate, saved, spoil, tally>>
Generate ==
    /\ phase = "creating"
    /\ \E kind \in {Sheep, Pig} : Make(kind)
    /\ UNCHANGED <<isFed, target, loop, saved, tally>>
EnterNewWorld ==
    /\ phase = "creating" /\ phase' = "reach"
    /\ saved' = EntityData
    /\ UNCHANGED <<list, heap, usedEntitys, target, at, mate, spoil, tally>>

\* loadEntityData reads the file, loadAllEntitys then builds what it says,
\* slot by slot.  (The file of a world that was never created is empty.)
loadEntityData ==
    /\ phase = "menu" /\ phase' = "loading"
    /\ at' = 0
    /\ active' = [s \in Slot |-> saved[s].active]
    /\ type' = [s \in Slot |-> saved[s].type]
    /\ hasFur' = [s \in Slot |-> saved[s].hasFur]
    /\ UNCHANGED <<extraEntity, isFed, heap, usedEntitys, target, mate, saved, spoil, tally>>

LoadNext == /\ phase = "loading" /\ at \in Slot
            /\ at' = at + 1
            /\ UNCHANGED <<hasFur, isFed, target, phase, mate, saved, doubleFree, tally>>

\* Mutant: the loaded sheep is not told its second mesh.
makeSheep2LoadAlone ==
    /\ LoadNext
    /\ active[at] /\ type[at] = Sheep
    /\ \E D \in SUBSET Free :
        /\ FirstFree(D, 1)
        /\ Activate(D)
        /\ Allocate({at} \cup D, MobBuffers)
        /\ type' = [s \in Slot |-> IF s \in D THEN Shorn ELSE type[s]]
        /\ usedEntitys' = usedEntitys + 2
    /\ UNCHANGED extraEntity

makeSheep2Load ==
    /\ LoadNext
    /\ active[at] /\ type[at] = Sheep
    /\ \E D \in SUBSET Free :
        /\ FirstFree(D, 1)
        /\ D = {} => LastSlotSheep
        /\ Activate(D)
        /\ Allocate({at} \cup D, MobBuffers)
        /\ type' = [s \in Slot |-> IF s \in D THEN Shorn ELSE type[s]]
        /\ extraEntity' = IF D = {} THEN extraEntity
                          ELSE [extraEntity EXCEPT ![at] = CHOOSE e \in D : TRUE]
        /\ usedEntitys' = usedEntitys + 2

makePigLoad ==
    /\ LoadNext
    /\ active[at] /\ type[at] = Pig
    /\ Allocate({at}, MobBuffers)
    /\ usedEntitys' = usedEntitys + 1
    /\ UNCHANGED <<active, type, extraEntity>>

makeItemLoad ==
    /\ LoadNext
    /\ active[at] /\ type[at] = Item
    /\ Allocate({at}, ItemBuffers)
    /\ usedEntitys' = usedEntitys + 1
    /\ UNCHANGED <<active, type, extraEntity>>

LoadNothing ==
    /\ LoadNext
    /\ ~active[at] \/ type[at] \notin {Sheep, Pig, Item}
    /\ UNCHANGED <<active, type, extraEntity, heap, usedEntitys, lost>>

EnterWorld ==
    /\ phase = "loading" /\ at = entityLength
    /\ phase' = "reach" /\ at' = 0
    /\ UNCHANGED <<list, heap, usedEntitys, target, mate, saved, spoil, tally>>

\* The game menu: save, save and quit, quit.
Save ==
    /\ phase = "keys" /\ phase' = "reach"
    /\ saved' = EntityData
    /\ UNCHANGED <<list, heap, usedEntitys, target, at, mate, spoil, tally>>
SaveAndQuit ==
    /\ phase = "keys" /\ phase' = "menu"
    /\ saved' = EntityData
    /\ clearAllEntitys
    /\ UNCHANGED <<target, at, mate, tally>>
Quit ==
    /\ phase = "keys" /\ phase' = "menu"
    /\ clearAllEntitys
    /\ UNCHANGED <<target, at, mate, saved, tally>>

----------------------------------------------------------------------------
(* A frame of the game: what the player looks at is found, every entity is *)
(* updated, and then the keys act on what was found before the update.     *)

\* updateEntityReach: the lowest slot among those the player sees.  A sheep
\* and its second mesh stand on the same spot and are seen together.
updateEntityReach ==
    /\ phase = "reach" /\ phase' = "mobs"
    /\ at' = 0
    /\ \/ target' = NoTarget
       \/ \E seen \in SUBSET Active :
              /\ \A s \in Active : type[s] = Sheep => (s \in seen <=> extraEntity[s] \in seen)
              /\ First(target', seen)
    /\ UNCHANGED <<list, heap, usedEntitys, mate, saved, spoil, tally>>

\* updateEntitys, the loop over the slots.
UpdateNext == /\ phase = "mobs" /\ at \in Slot
              /\ at' = at + 1
              /\ UNCHANGED <<target, phase, mate, saved, tally>>

\* Nothing happens to the entity, or there is none.
Pass == UpdateNext /\ UNCHANGED <<list, heap, usedEntitys, spoil>>

\* A sheep that grazes has its fleece again; the update of it goes on.
Graze ==
    /\ phase = "mobs" /\ at \in Slot
    /\ active[at] /\ type[at] = Sheep
    /\ hasFur' = [hasFur EXCEPT ![at] = TRUE]
    /\ UNCHANGED <<active, type, extraEntity, isFed, heap, usedEntitys, target, loop,
                   saved, spoil, tally>>

\* A fed mob that follows the player looks through all slots for fed mates.
LookForMates ==
    /\ phase = "mobs" /\ at \in Slot
    /\ active[at] /\ type[at] \in {Sheep, Pig} /\ isFed[at]
    /\ phase' = "mating" /\ mate' = 0
    /\ UNCHANGED <<list, heap, usedEntitys, target, at, saved, spoil, tally>>

\* The inner loop: a fed mate that is near.  That the mob itself is still fed
\* is not asked again.
CanMate == /\ active[mate] /\ type[mate] = type[at]
           /\ isFed[mate] /\ mate # at
\* Mutant: the parents are not hungry afterwards.
BreedStayFed ==
    /\ phase = "mating" /\ mate \in Slot
    /\ CanMate
    /\ \/ type[at] = Sheep /\ makeSheep2
       \/ type[at] = Pig /\ makePig
    /\ UNCHANGED isFed
    /\ births' = births + (IF Free = {} THEN 0 ELSE 1)
    /\ mate' = mate + 1
    /\ UNCHANGED <<target, phase, at, saved, feeds>>

Breed ==
    /\ phase = "mating" /\ mate \in Slot
    /\ CanMate
    /\ \/ type[at] = Sheep /\ makeSheep2
       \/ type[at] = Pig /\ makePig
    /\ isFed' = [isFed EXCEPT ![mate] = FALSE, ![at] = FALSE]
    /\ births' = births + (IF Free = {} THEN 0 ELSE 1)
    /\ mate' = mate + 1
    /\ UNCHANGED <<target, phase, at, saved, feeds>>

\* No mate in this slot, or none that is near enough.
NoMate ==
    /\ phase = "mating" /\ mate \in Slot
    /\ mate' = mate + 1
    /\ UNCHANGED <<list, heap, usedEntitys, target, phase, at, saved, spoil, tally>>
MatingDone ==
    /\ phase = "mating" /\ mate = entityLength
    /\ phase' = "mobs" /\ mate' = 0
    /\ UNCHANGED <<list, heap, usedEntitys, target, at, saved, spoil, tally>>

\* Mutant: one slot of the two is counted.
SheepDiesCountedOnce ==
    /\ UpdateNext
    /\ active[at] /\ type[at] = Sheep
    /\ active' = [s \in Slot |-> s \notin {at, extraEntity[at]} /\ active[s]]
    /\ heap' = Freed(Freed(heap, at, MobBuffers), extraEntity[at], MobBuffers)
    /\ usedEntitys' = usedEntitys - 1
    /\ UNCHANGED <<type, extraEntity, hasFur, isFed, spoil>>

\* A dying mob first makes the items it leaves, in slots of their own, then
\* its slots and buffers are given back.  Its type, hasFur and isFed stay.
SheepDies ==
    /\ UpdateNext
    /\ active[at] /\ type[at] = Sheep
    /\ LET e == extraEntity[at]
       IN  \E D \in SUBSET Free :
            LET made == Allocated(D, ItemBuffers)
                own  == Freed(made, at, MobBuffers)
            IN  /\ FirstFree(D, IF hasFur[at] THEN 1 ELSE 0)
                /\ active' = [s \in Slot |-> s \notin {at, e} /\ (s \in D \/ active[s])]
                /\ type' = [s \in Slot |-> IF s \in D THEN Item ELSE type[s]]
                /\ heap' = Freed(own, e, MobBuffers)
                /\ doubleFree' = (doubleFree \/ FreesTwice(made, at, MobBuffers)
                                             \/ FreesTwice(own, e, MobBuffers))
                /\ lost' = (lost \/ \E s \in D, b \in ItemBuffers : heap[s][b] = "live")
                /\ usedEntitys' = usedEntitys + Cardinality(D) - 2
    /\ UNCHANGED <<extraEntity, hasFur, isFed>>

PigDies ==
    /\ UpdateNext
    /\ active[at] /\ type[at] = Pig
    /\ \E D \in SUBSET Free, n \in {1, 2} :
        /\ FirstFree(D, n)
        /\ active' = [s \in Slot |-> s # at /\ (s \in D \/ active[s])]
        /\ type' = [s \in Slot |-> IF s \in D THEN Item ELSE type[s]]
        /\ heap' = Freed(Allocated(D, ItemBuffers), at, MobBuffers)
        /\ doubleFree' = (doubleFree \/ FreesTwice(heap, at, MobBuffers))
        /\ lost' = (lost \/ \E s \in D, b \in ItemBuffers : heap[s][b] = "live")
        /\ usedEntitys' = usedEntitys + Cardinality(D) - 1
    /\ UNCHANGED <<extraEntity, hasFur, isFed>>

PickUp ==
    /\ UpdateNext
    /\ active[at] /\ type[at] = Item
    /\ active' = [active EXCEPT ![at] = FALSE]
    /\ type' = [type EXCEPT ![at] = None]
    /\ heap' = Freed(heap, at, ItemBuffers)
    /\ doubleFree' = (doubleFree \/ FreesTwice(heap, at, ItemBuffers))
    /\ usedEntitys' = usedEntitys - 1
    /\ UNCHANGED <<extraEntity, hasFur, isFed, lost>>

MobsUpdated ==
    /\ phase = "mobs" /\ at = entityLength
    /\ phase' = "keys"
    /\ UNCHANGED <<list, heap, usedEntitys, target, at, mate, saved, spoil, tally>>

\* Shears take the fleece of what the player looks at.
ShearKey ==
    /\ phase = "keys" /\ phase' = "reach"
    /\ target \in Slot
    /\ type[target] = Sheep /\ hasFur[target]
    /\ hasFur' = [hasFur EXCEPT ![target] = FALSE]
    /\ makeItem
    /\ UNCHANGED <<isFed, target, at, mate, saved, tally>>

\* A feedable mob is fed.
FeedKey ==
    /\ phase = "keys" /\ phase' = "reach"
    /\ target \in Slot
    /\ type[target] \in {Sheep, Pig}
    /\ feeds < MaxFeeds
    /\ isFed' = [isFed EXCEPT ![target] = TRUE]
    /\ feeds' = feeds + 1
    /\ UNCHANGED <<active, type, extraEntity, hasFur, heap, usedEntitys, target, at,
                   mate, saved, spoil, births>>

\* A spawn egg; a block that is mined (one key may leave several items).
MakeKey ==
    /\ phase = "keys"
    /\ \E kind \in {Sheep, Pig, Item} :
           /\ Make(kind)
           /\ kind # Item => phase' = "reach"
           /\ kind = Item => phase' \in {"keys", "reach"}
    /\ UNCHANGED <<isFed, target, at, mate, saved, tally>>

NoKey ==
    /\ phase = "keys" /\ phase' = "reach"
    /\ UNCHANGED <<list, heap, usedEntitys, target, at, mate, saved, spoil, tally>>

\* The blocks of the world that are updated before the mobs leave items too.
updateMap ==
    /\ phase = "mobs" /\ at = 0
    /\ Make(Item)
    /\ UNCHANGED <<isFed, target, loop, saved, tally>>

----------------------------------------------------------------------------

Next ==
    /\ ~doubleFree
    /\ \/ CreateWorld \/ Generate \/ EnterNewWorld
       \/ loadEntityData \/ makeSheep2Load \/ makePigLoad \/ makeItemLoad
       \/ LoadNothing \/ EnterWorld
       \/ Save \/ SaveAndQuit \/ Quit
       \/ updateEntityReach \/ updateMap
       \/ Pass \/ Graze \/ LookForMates \/ Breed \/ NoMate \/ MatingDone
       \/ SheepDies \/ PigDies \/ PickUp \/ MobsUpdated
       \/ ShearKey \/ FeedKey \/ MakeKey \/ NoKey

Spec == Init /\ [][Next]_vars

----------------------------------------------------------------------------
(* Properties.                                                             *)

\* Every variable keeps its type (the declarations of eninge.c:121-142).
TypeOK ==
    /\ active \in [Slot -> BOOLEAN]
    /\ type \in [Slot -> {None, Sheep, Pig, Item, Shorn}]
    /\ extraEntity \in [Slot -> Slot]
    /\ hasFur \in [Slot -> BOOLEAN]
    /\ isFed \in [Slot -> BOOLEAN]
    /\ heap \in [Slot -> [Buffer -> {"null", "live", "freed"}]]
    /\ usedEntitys \in Int
    /\ target \in Slot \cup {NoTarget}
    /\ phase \in {"menu", "creating", "loading", "reach", "mobs", "mating", "keys"}
    /\ at \in 0..entityLength /\ mate \in 0..entityLength
    /\ saved \in [Slot -> [active : BOOLEAN, type : {None, Sheep, Pig, Item},
                           hasFur : BOOLEAN]]
    /\ lost \in BOOLEAN /\ doubleFree \in BOOLEAN
    /\ feeds \in 0..MaxFeeds /\ births \in Nat

\* While a world is loaded: the slots the file fills and loadAllEntitys has
\* not come to.
Unbuilt == {s \in Active : phase = "loading" /\ s >= at /\ type[s] # Shorn}
Built   == Active \ Unbuilt

Buffers(t) == IF t = Item THEN ItemBuffers ELSE MobBuffers

\* The mesh of an entity is never drawn, moved or coloured without its
\* buffers: an entity that is built has all of them, whatever its slot was
\* used for before and whichever entity was freed.
BuffersHeld ==
    \A s \in Built : \A b \in Buffers(type[s]) : heap[s][b] = "live"

\* No buffer is given back twice, neither when a mob dies, nor when an item
\* is picked up, nor when the world is left.
NoDoubleFree == ~doubleFree

\* Each sheep has a second mesh of its own, and there is no second mesh
\* without its sheep: the death of a sheep takes nobody else's slot.
SheepPaired ==
    LET Flock == {s \in Built : type[s] = Sheep}
        Extra == {s \in Built : type[s] = Shorn}
    IN  /\ \A s \in Flock : extraEntity[s] \in Extra
        /\ \A e \in Extra : \E s \in Flock :
               extraEntity[s] = e /\ \A r \in Flock : extraEntity[r] = e => r = s

\* The number on the screen, usedEntitys, is the number of slots in use.
CountTrue == phase # "loading" => usedEntitys = Cardinality(Active)

\* A free slot keeps no buffer but two of a mob that was there when a world
\* was left.
OnlyKnownLeftovers ==
    \A s \in Slot \ Active : \A b \in Buffer \ {"color", "textureSize"} :
        heap[s][b] # "live"

\* All that the drawing and freeing of meshes rests on, over deaths, births,
\* pick-ups, and worlds that are left and loaded again.
PoolSound == BuffersHeld /\ NoDoubleFree /\ SheepPaired /\ OnlyKnownLeftovers

\* A birth needs a feeding of its own: no course of births, deaths, reused
\* slots and reloaded worlds gives more young than there were feedings.
FoodForEveryBirth ==
    births + Cardinality({s \in Slot : isFed[s]}) <= feeds

\* A dead mob's buffers, or those of a world that was left, are all freed
\* before their slot is used again.  It does not hold.  (A note on a release
\* says that a memory leak with mobs was removed.)
NothingLost == ~lost

\* What the player looks at when the keys act is alive: the shears shear a
\* sheep, and what is fed is a mob.  It does not hold (28207).
KeysActOnTheLiving ==
    phase = "keys" /\ target \in Slot /\ type[target] \in {Sheep, Pig}
        => active[target]

\* A sheep the player looks at is found before the second mesh on its spot,
\* so that it can be fed, sheared and hit.  It does not hold (27447).
SheepFoundFirst ==
    phase # "loading" =>
        \A s \in Active : type[s] = Sheep => s < extraEntity[s]

\* A sheep with fur that dies leaves a fleece: a step that takes one away in
\* a frame of the game brings a new item.
FurDropsWool ==
    [][\A s \in Slot :
          phase = "mobs" /\ active[s] /\ type[s] = Sheep /\ hasFur[s] /\ ~active'[s]
              => \E d \in Slot : ~active[d] /\ active'[d] /\ type'[d] = Item]_vars

----------------------------------------------------------------------------
(* The pool implements a herd.                                             *)

Kind(a, t, fur) == IF ~a \/ t = Shorn THEN "none"
                   ELSE IF t = Sheep THEN (IF fur THEN "sheep" ELSE "shorn")
                   ELSE IF t = Pig THEN "pig" ELSE "item"

TheHerd == INSTANCE Herd WITH
    Place <- Slot,
    herd  <- [s \in Slot |-> Kind(active[s], type[s], hasFur[s])],
    kept  <- [s \in Slot |-> Kind(saved[s].active, saved[s].type, saved[s].hasFur)]

\* Slots, second meshes and buffers hidden, the entities are a herd: each
\* step brings or takes what it should and nothing else, and a world comes
\* back with the herd it was saved with, fleeces included.
ImplementsHerd == TheHerd!Spec

=============================================================================
