------------------------- MODULE EntityPoolProofs -------------------------
(***************************************************************************)
(* Proofs about EntityPool, for every number of slots.                     *)
(***************************************************************************)
EXTENDS EntityPool, FiniteSetTheorems, TLAPS

(***************************************************************************)
(* Slots.                                                                  *)
(***************************************************************************)

\* There are finitely many slots.
LEMMA SlotFinite == IsFiniteSet(Slot)
  BY PoolAssumption, FS_Interval DEF Slot

\* What two searches find, when they find anything and not just one slot:
\* two free slots, the second above the first.
LEMMA TwoFree ==
    ASSUME NEW D \in SUBSET Free, FirstFree(D, 2), D # {}, Cardinality(D) # 1
    PROVE  \E s, t \in Free : s # t /\ D = {s, t} /\ {d \in D : First(d, D)} = {s}
<1>1. D \subseteq Slot /\ D \subseteq Int
  BY PoolAssumption DEF Free, Slot
<1>2. IsFiniteSet(D) /\ Cardinality(D) \in Nat
  BY <1>1, SlotFinite, FS_Subset, FS_CardinalityType
<1>3. Cardinality(D) = 2
  BY <1>2, FS_EmptySet DEF FirstFree
<1>4. PICK x \in D : TRUE
  OBVIOUS
<1>5. Cardinality(D \ {x}) = 1
  BY <1>2, <1>3, <1>4, FS_RemoveElement
<1>6. PICK y : D \ {x} = {y}
  BY <1>2, <1>5, FS_RemoveElement, FS_Singleton
<1>7. D = {x, y} /\ x # y /\ x \in Int /\ y \in Int
  BY <1>1, <1>4, <1>6
<1>8. CASE x < y
  <2>1. {d \in D : First(d, D)} = {x}
    BY <1>7, <1>8 DEF First
  <2> QED BY <2>1, <1>7
<1>9. CASE y < x
  <2>1. {d \in D : First(d, D)} = {y}
    BY <1>7, <1>9 DEF First
  <2>2. D = {y, x}
    BY <1>7
  <2> QED BY <2>1, <2>2, <1>7
<1> QED BY <1>7, <1>8, <1>9

(***************************************************************************)
(* Types.                                                                  *)
(***************************************************************************)

\* A slot whose buffers are allocated or freed still has them all.
LEMMA HeapTyped ==
    ASSUME TypeOK
    PROVE  /\ \A S, bufs : Allocated(S, bufs) \in [Slot -> [Buffer -> {"null", "live", "freed"}]]
           /\ \A h \in [Slot -> [Buffer -> {"null", "live", "freed"}]] : \A s, bufs :
                  Freed(h, s, bufs) \in [Slot -> [Buffer -> {"null", "live", "freed"}]]
<1>1. ASSUME NEW S, NEW bufs
      PROVE  Allocated(S, bufs) \in [Slot -> [Buffer -> {"null", "live", "freed"}]]
  <2>1. \A s \in Slot, b \in Buffer : heap[s][b] \in {"null", "live", "freed"}
    BY DEF TypeOK
  <2> QED BY <2>1 DEF Allocated
<1>2. ASSUME NEW h \in [Slot -> [Buffer -> {"null", "live", "freed"}]], NEW s, NEW bufs
      PROVE  Freed(h, s, bufs) \in [Slot -> [Buffer -> {"null", "live", "freed"}]]
  <2>1. \A r \in Slot : h[r] \in [Buffer -> {"null", "live", "freed"}]
    OBVIOUS
  <2> DEFINE new == [b \in Buffer |-> IF b \in bufs /\ h[s][b] = "live" THEN "freed" ELSE h[s][b]]
  <2>2. s \in Slot => new \in [Buffer -> {"null", "live", "freed"}]
    BY <2>1
  <2>3. Freed(h, s, bufs) = [h EXCEPT ![s] = new]
    BY DEF Freed
  <2> HIDE DEF new
  <2> QED BY <2>2, <2>3
<1> QED BY <1>1, <1>2

\* Making an entity keeps the types of what it changes.
LEMMA MakingTyped ==
    ASSUME TypeOK, makeItem \/ makePig \/ makeSheep2
    PROVE  /\ active' \in [Slot -> BOOLEAN]
           /\ type' \in [Slot -> {None, Sheep, Pig, Item, Shorn}]
           /\ extraEntity' \in [Slot -> Slot]
           /\ heap' \in [Slot -> [Buffer -> {"null", "live", "freed"}]]
           /\ usedEntitys' \in Int
           /\ lost' \in BOOLEAN
           /\ doubleFree' \in BOOLEAN
<1>1. \A D \in SUBSET Free : Cardinality(D) \in Nat
  BY SlotFinite, FS_Subset, FS_CardinalityType DEF Free
<1>2. ASSUME NEW D \in SUBSET Free, NEW bufs, Activate(D), Allocate(D, bufs),
             usedEntitys' = usedEntitys + Cardinality(D)
      PROVE  /\ active' \in [Slot -> BOOLEAN]
             /\ heap' \in [Slot -> [Buffer -> {"null", "live", "freed"}]]
             /\ usedEntitys' \in Int
             /\ lost' \in BOOLEAN
  <2>1. active' \in [Slot -> BOOLEAN]
    BY <1>2 DEF Activate, TypeOK
  <2>2. lost' \in BOOLEAN
    BY <1>2 DEF Allocate, TypeOK
  <2>3. heap' \in [Slot -> [Buffer -> {"null", "live", "freed"}]]
    BY <1>2, HeapTyped DEF Allocate
  <2>4. usedEntitys' \in Int
    BY <1>1, <1>2 DEF TypeOK
  <2> QED BY <2>1, <2>2, <2>3, <2>4
<1>3. CASE makeItem \/ makePig
  <2>1. ASSUME NEW t \in {Item, Pig}, NEW D,
               type' = [s \in Slot |-> IF s \in D THEN t ELSE type[s]]
        PROVE  type' \in [Slot -> {None, Sheep, Pig, Item, Shorn}]
    BY <2>1 DEF TypeOK
  <2>3. extraEntity' \in [Slot -> Slot] /\ doubleFree' \in BOOLEAN
    BY <1>3 DEF makeItem, makePig, TypeOK
  <2>4. CASE makeItem
    <3> PICK D \in SUBSET Free : makeItem!(D)
      BY <2>4 DEF makeItem
    <3>1. /\ active' \in [Slot -> BOOLEAN]
          /\ heap' \in [Slot -> [Buffer -> {"null", "live", "freed"}]]
          /\ usedEntitys' \in Int
          /\ lost' \in BOOLEAN
      BY <1>2
    <3>2. type' \in [Slot -> {None, Sheep, Pig, Item, Shorn}]
      BY <2>1
    <3> QED BY <3>1, <3>2, <2>3
  <2>5. CASE makePig
    <3> PICK D \in SUBSET Free : makePig!(D)
      BY <2>5 DEF makePig
    <3> QED BY <1>2, <2>1, <2>3
  <2> QED BY <1>3, <2>4, <2>5
<1>4. CASE makeSheep2
  <2> PICK D \in SUBSET Free : makeSheep2!(D)
    BY <1>4 DEF makeSheep2
  <2> DEFINE own == {s \in D : First(s, D)}
             extra == D \ own
  <2>1. extra # {} => (CHOOSE e \in extra : TRUE) \in Slot
    BY DEF Free
  <2>2. extraEntity' = [s \in Slot |-> IF s \in own /\ extra # {}
                                       THEN CHOOSE e \in extra : TRUE ELSE extraEntity[s]]
    OBVIOUS
  <2>3. type' = [s \in Slot |-> IF s \in own THEN Sheep
                                ELSE IF s \in extra THEN Shorn ELSE type[s]]
    OBVIOUS
  <2>5. /\ Activate(D) /\ Allocate(D, MobBuffers)
        /\ usedEntitys' = usedEntitys + Cardinality(D) /\ UNCHANGED doubleFree
    OBVIOUS
  <2> HIDE DEF own, extra
  <2>6. extraEntity' \in [Slot -> Slot]
    BY <2>1, <2>2 DEF TypeOK
  <2>7. type' \in [Slot -> {None, Sheep, Pig, Item, Shorn}]
    BY <2>3 DEF TypeOK
  <2>9. doubleFree' \in BOOLEAN
    BY <2>5 DEF TypeOK
  <2> QED BY <1>2, <2>5, <2>6, <2>7, <2>9
<1> QED BY <1>3, <1>4

\* So do the fleeces: a new sheep has one.
LEMMA FurTyped ==
    ASSUME TypeOK, makePig \/ makeSheep2
    PROVE  hasFur' \in [Slot -> BOOLEAN]
<1>1. CASE makePig
  BY <1>1 DEF makePig, TypeOK
<1>2. CASE makeSheep2
  <2> PICK D \in SUBSET Free : makeSheep2!(D)
    BY <1>2 DEF makeSheep2
  <2> DEFINE own == {s \in D : First(s, D)}
  <2>1. hasFur' = [s \in Slot |-> s \in own \/ hasFur[s]]
    OBVIOUS
  <2> HIDE DEF own
  <2> QED BY <2>1 DEF TypeOK
<1> QED BY <1>1, <1>2

\* What the program saves is a well-formed file.
LEMMA SavedTyped ==
    ASSUME TypeOK
    PROVE  EntityData \in [Slot -> [active : BOOLEAN, type : {None, Sheep, Pig, Item},
                                    hasFur : BOOLEAN]]
<1> DEFINE File == [active : BOOLEAN, type : {None, Sheep, Pig, Item}, hasFur : BOOLEAN]
<1>1. ASSUME NEW s \in Slot
      PROVE  EntityData[s] \in File
  <2>1. type[s] \in {None, Sheep, Pig, Item, Shorn} /\ active[s] \in BOOLEAN /\ hasFur[s] \in BOOLEAN
    BY DEF TypeOK
  <2>2. CASE type[s] = Shorn
    <3>1. EntityData[s] = [active |-> FALSE, type |-> None, hasFur |-> FALSE]
      BY <2>2 DEF EntityData
    <3> QED BY <3>1
  <2>3. CASE type[s] # Shorn
    <3> DEFINE fur == type[s] = Sheep /\ hasFur[s]
    <3>1. EntityData[s] = [active |-> active[s], type |-> type[s], hasFur |-> fur]
      BY <2>3 DEF EntityData
    <3>2. fur \in BOOLEAN /\ type[s] \in {None, Sheep, Pig, Item}
      BY <2>1, <2>3
    <3> HIDE DEF fur
    <3> QED BY <2>1, <3>1, <3>2
  <2> QED BY <2>2, <2>3
<1> HIDE DEF File
<1>2. EntityData \in [Slot -> File]
  <2>1. EntityData = [s \in Slot |-> EntityData[s]]
    BY DEF EntityData
  <2> QED BY <1>1, <2>1
<1> QED BY <1>2 DEF File

\* Every step keeps the types.
LEMMA TypeStep ==
    ASSUME TypeOK, [Next]_vars
    PROVE  TypeOK'
<1>1. CASE CreateWorld
  BY <1>1, PoolAssumption DEF CreateWorld, TypeOK, list, loop, spoil, tally, Slot
<1>2. CASE EnterWorld
  BY <1>2, PoolAssumption DEF EnterWorld, TypeOK, list, loop, spoil, tally, Slot
<1>3. CASE Pass
  BY <1>3, PoolAssumption DEF Pass, UpdateNext, TypeOK, list, loop, spoil, tally, Slot
<1>4. CASE LookForMates
  BY <1>4, PoolAssumption DEF LookForMates, TypeOK, list, loop, spoil, tally, Slot
<1>5. CASE NoMate
  BY <1>5, PoolAssumption DEF NoMate, TypeOK, list, loop, spoil, tally, Slot
<1>6. CASE MatingDone
  BY <1>6, PoolAssumption DEF MatingDone, TypeOK, list, loop, spoil, tally, Slot
<1>7. CASE MobsUpdated
  BY <1>7, PoolAssumption DEF MobsUpdated, TypeOK, list, loop, spoil, tally, Slot
<1>8. CASE NoKey
  BY <1>8, PoolAssumption DEF NoKey, TypeOK, list, loop, spoil, tally, Slot
<1>9. CASE Graze
  BY <1>9, PoolAssumption DEF Graze, TypeOK, list, loop, spoil, tally, Slot
<1>10. CASE FeedKey
  BY <1>10, PoolAssumption DEF FeedKey, TypeOK, list, loop, spoil, tally, Slot
<1>11. CASE LoadNothing
  BY <1>11, PoolAssumption DEF LoadNothing, LoadNext, TypeOK, list, loop, spoil, tally, Slot
<1>12. CASE EnterNewWorld
  <2>1. saved' \in [Slot -> [active : BOOLEAN, type : {None, Sheep, Pig, Item},
                           hasFur : BOOLEAN]]
    BY <1>12, SavedTyped DEF EnterNewWorld
  <2> QED BY <1>12, <2>1 DEF EnterNewWorld, TypeOK, list, spoil, tally
<1>13. CASE Save
  <2>1. saved' \in [Slot -> [active : BOOLEAN, type : {None, Sheep, Pig, Item},
                           hasFur : BOOLEAN]]
    BY <1>13, SavedTyped DEF Save
  <2> QED BY <1>13, <2>1 DEF Save, TypeOK, list, spoil, tally
<1>14. CASE updateEntityReach
  <2>1. target' \in Slot \cup {NoTarget}
    BY <1>14 DEF updateEntityReach, Active, First
  <2> QED BY <1>14, <2>1, PoolAssumption DEF updateEntityReach, TypeOK, list, spoil, tally
<1>15. CASE Generate
  <2>1. makeItem \/ makePig \/ makeSheep2
    BY <1>15 DEF Generate, Make
  <2>2. hasFur' \in [Slot -> BOOLEAN]
    BY <1>15, FurTyped DEF Generate, Make, TypeOK
  <2> QED BY <1>15, <2>1, <2>2, MakingTyped DEF Generate, TypeOK, loop, tally
<1>16. CASE updateMap
  <2>1. makeItem \/ makePig \/ makeSheep2
    BY <1>16 DEF updateMap, Make
  <2>2. hasFur' \in [Slot -> BOOLEAN]
    BY <1>16, FurTyped DEF updateMap, Make, TypeOK
  <2> QED BY <1>16, <2>1, <2>2, MakingTyped DEF updateMap, TypeOK, loop, tally
<1>17. CASE MakeKey
  <2>1. makeItem \/ makePig \/ makeSheep2
    BY <1>17 DEF MakeKey, Make
  <2>2. hasFur' \in [Slot -> BOOLEAN]
    BY <1>17, FurTyped DEF MakeKey, Make, TypeOK
  <2> QED BY <1>17, <2>1, <2>2, MakingTyped DEF MakeKey, TypeOK, loop, tally
<1>18. CASE ShearKey
  BY <1>18, MakingTyped DEF ShearKey, TypeOK, tally
<1>19. CASE Breed
  <2>1. makePig \/ makeSheep2
    BY <1>19 DEF Breed
  <2>2. mate' \in 0..entityLength
    BY <1>19, PoolAssumption DEF Breed, TypeOK, Slot
  <2>3. births' \in Nat /\ isFed' \in [Slot -> BOOLEAN]
    <3>1. births' = births \/ births' = births + 1
      BY <1>19 DEF Breed, TypeOK
    <3>2. births' \in Nat
      BY <3>1 DEF TypeOK
    <3> DEFINE one == [isFed EXCEPT ![mate] = FALSE]
    <3>3. one \in [Slot -> BOOLEAN]
      BY DEF TypeOK
    <3>4. isFed' = [one EXCEPT ![at] = FALSE]
      BY <1>19 DEF Breed
    <3> HIDE DEF one
    <3>5. isFed' \in [Slot -> BOOLEAN]
      BY <3>3, <3>4
    <3> QED BY <3>2, <3>5
  <2>4. hasFur' \in [Slot -> BOOLEAN]
    BY <2>1, FurTyped
  <2> QED BY <1>19, <2>1, <2>2, <2>3, <2>4, MakingTyped DEF Breed, TypeOK
<1>20. CASE makePigLoad
  <2>1. heap' \in [Slot -> [Buffer -> {"null", "live", "freed"}]]
    BY <1>20, HeapTyped DEF makePigLoad, Allocate
  <2>2. lost' \in BOOLEAN /\ usedEntitys' \in Int
    BY <1>20 DEF makePigLoad, Allocate, TypeOK
  <2> QED BY <1>20, <2>1, <2>2, PoolAssumption DEF makePigLoad, LoadNext, TypeOK, tally, Slot
<1>21. CASE makeItemLoad
  <2>1. heap' \in [Slot -> [Buffer -> {"null", "live", "freed"}]]
    BY <1>21, HeapTyped DEF makeItemLoad, Allocate
  <2>2. lost' \in BOOLEAN /\ usedEntitys' \in Int
    BY <1>21 DEF makeItemLoad, Allocate, TypeOK
  <2> QED BY <1>21, <2>1, <2>2, PoolAssumption DEF makeItemLoad, LoadNext, TypeOK, tally, Slot
<1>22. CASE makeSheep2Load
  <2> PICK D \in SUBSET Free :
        /\ Activate(D)
        /\ Allocate({at} \cup D, MobBuffers)
        /\ type' = [s \in Slot |-> IF s \in D THEN Shorn ELSE type[s]]
        /\ extraEntity' = IF D = {} THEN extraEntity
                          ELSE [extraEntity EXCEPT ![at] = CHOOSE e \in D : TRUE]
        /\ usedEntitys' = usedEntitys + 2
    BY <1>22 DEF makeSheep2Load
  <2>1. D # {} => (CHOOSE e \in D : TRUE) \in Slot
    BY DEF Free
  <2>2. extraEntity' \in [Slot -> Slot]
    BY <2>1 DEF TypeOK
  <2>3. type' \in [Slot -> {None, Sheep, Pig, Item, Shorn}]
    BY DEF TypeOK
  <2>4. active' \in [Slot -> BOOLEAN] /\ lost' \in BOOLEAN
    BY DEF TypeOK, Activate, Allocate
  <2>5. at' \in 0..entityLength
    BY <1>22, PoolAssumption DEF makeSheep2Load, LoadNext, Slot
  <2>6. heap' \in [Slot -> [Buffer -> {"null", "live", "freed"}]]
    BY HeapTyped DEF Allocate
  <2> QED BY <1>22, <2>2, <2>3, <2>4, <2>5, <2>6 DEF makeSheep2Load, LoadNext, TypeOK, tally
<1>23. CASE loadEntityData
  <2>1. \A s \in Slot : saved[s] \in [active : BOOLEAN, type : {None, Sheep, Pig, Item},
                                     hasFur : BOOLEAN]
    BY DEF TypeOK
  <2>2. \A s \in Slot : /\ saved[s].active \in BOOLEAN
                        /\ saved[s].type \in {None, Sheep, Pig, Item}
                        /\ saved[s].hasFur \in BOOLEAN
    BY <2>1
  <2>3. /\ active' \in [Slot -> BOOLEAN]
        /\ type' \in [Slot -> {None, Sheep, Pig, Item, Shorn}]
        /\ hasFur' \in [Slot -> BOOLEAN]
    BY <1>23, <2>2 DEF loadEntityData
  <2> QED BY <1>23, <2>3, PoolAssumption DEF loadEntityData, TypeOK, spoil, tally
<1>24. CASE SaveAndQuit \/ Quit
  <2>1. clearAllEntitys
    BY <1>24 DEF SaveAndQuit, Quit
  <2>2. /\ active' \in [Slot -> BOOLEAN]
        /\ type' \in [Slot -> {None, Sheep, Pig, Item, Shorn}]
        /\ hasFur' \in [Slot -> BOOLEAN]
        /\ isFed' \in [Slot -> BOOLEAN]
        /\ usedEntitys' \in Int
        /\ doubleFree' \in BOOLEAN /\ lost' \in BOOLEAN
    BY <2>1 DEF clearAllEntitys, TypeOK
  <2>3. extraEntity' \in [Slot -> Slot]
    BY <2>1, PoolAssumption DEF clearAllEntitys, TypeOK, Slot
  <2>4. ASSUME NEW s \in Slot
        PROVE  Freed(heap, s, ClearedBuffers(s))[s] \in [Buffer -> {"null", "live", "freed"}]
    BY HeapTyped DEF TypeOK
  <2>5. heap' \in [Slot -> [Buffer -> {"null", "live", "freed"}]]
    BY <2>1, <2>4 DEF clearAllEntitys, TypeOK
  <2>6. saved' \in [Slot -> [active : BOOLEAN, type : {None, Sheep, Pig, Item},
                           hasFur : BOOLEAN]]
    BY <1>24, SavedTyped DEF SaveAndQuit, Quit, TypeOK
  <2> QED BY <1>24, <2>2, <2>3, <2>5, <2>6 DEF SaveAndQuit, Quit, TypeOK, tally
<1>25. CASE SheepDies
  <2> PICK D \in SUBSET Free :
        /\ active' = [s \in Slot |-> s \notin {at, extraEntity[at]} /\ (s \in D \/ active[s])]
        /\ type' = [s \in Slot |-> IF s \in D THEN Item ELSE type[s]]
        /\ heap' = Freed(Freed(Allocated(D, ItemBuffers), at, MobBuffers), extraEntity[at], MobBuffers)
        /\ doubleFree' \in BOOLEAN /\ lost' \in BOOLEAN
        /\ usedEntitys' = usedEntitys + Cardinality(D) - 2
    BY <1>25 DEF SheepDies, TypeOK
  <2>1. active' \in [Slot -> BOOLEAN] /\ type' \in [Slot -> {None, Sheep, Pig, Item, Shorn}]
    BY DEF TypeOK
  <2>2. heap' \in [Slot -> [Buffer -> {"null", "live", "freed"}]]
    BY HeapTyped
  <2>3. usedEntitys' \in Int
    BY SlotFinite, FS_Subset, FS_CardinalityType DEF Free, TypeOK
  <2>4. at' \in 0..entityLength
    BY <1>25, PoolAssumption DEF SheepDies, UpdateNext, Slot
  <2> QED BY <1>25, <2>1, <2>2, <2>3, <2>4 DEF SheepDies, UpdateNext, TypeOK, tally
<1>26. CASE PigDies
  <2> PICK D \in SUBSET Free :
        /\ active' = [s \in Slot |-> s # at /\ (s \in D \/ active[s])]
        /\ type' = [s \in Slot |-> IF s \in D THEN Item ELSE type[s]]
        /\ heap' = Freed(Allocated(D, ItemBuffers), at, MobBuffers)
        /\ doubleFree' \in BOOLEAN /\ lost' \in BOOLEAN
        /\ usedEntitys' = usedEntitys + Cardinality(D) - 1
    BY <1>26 DEF PigDies, TypeOK
  <2>1. active' \in [Slot -> BOOLEAN] /\ type' \in [Slot -> {None, Sheep, Pig, Item, Shorn}]
    BY DEF TypeOK
  <2>2. heap' \in [Slot -> [Buffer -> {"null", "live", "freed"}]]
    BY HeapTyped
  <2>3. usedEntitys' \in Int
    BY SlotFinite, FS_Subset, FS_CardinalityType DEF Free, TypeOK
  <2>4. at' \in 0..entityLength
    BY <1>26, PoolAssumption DEF PigDies, UpdateNext, Slot
  <2> QED BY <1>26, <2>1, <2>2, <2>3, <2>4 DEF PigDies, UpdateNext, TypeOK, tally
<1>27. CASE PickUp
  <2>1. heap' \in [Slot -> [Buffer -> {"null", "live", "freed"}]]
    BY <1>27, HeapTyped DEF PickUp, TypeOK
  <2> QED BY <1>27, <2>1, PoolAssumption DEF PickUp, UpdateNext, TypeOK, tally, Slot
<1>28. CASE UNCHANGED vars
  BY <1>28 DEF vars, TypeOK
<1> QED BY <1>1, <1>2, <1>3, <1>4, <1>5, <1>6, <1>7, <1>8, <1>9, <1>10, <1>11, <1>12, <1>13, <1>14, <1>15, <1>16, <1>17, <1>18, <1>19, <1>20, <1>21, <1>22, <1>23, <1>24, <1>25, <1>26, <1>27, <1>28 DEF Next

\* The program starts with its variables typed.
LEMMA InitTyped ==
    ASSUME Init
    PROVE  TypeOK
<1>1. Unsaved \in [Slot -> [active : BOOLEAN, type : {None, Sheep, Pig, Item}, hasFur : BOOLEAN]]
  BY DEF Unsaved
<1>2. 0 \in Slot
  BY PoolAssumption DEF Slot
<1>3. heap \in [Slot -> [Buffer -> {"null", "live", "freed"}]]
  BY DEF Init
<1>4. /\ active \in [Slot -> BOOLEAN] /\ hasFur \in [Slot -> BOOLEAN]
      /\ isFed \in [Slot -> BOOLEAN] /\ extraEntity \in [Slot -> Slot]
      /\ type \in [Slot -> {None, Sheep, Pig, Item, Shorn}]
  BY <1>2 DEF Init
<1>5. /\ usedEntitys \in Int /\ births \in Nat
      /\ target \in Slot \cup {NoTarget}
      /\ phase \in {"menu", "creating", "loading", "reach", "mobs", "mating", "keys"}
  BY DEF Init
<1>6. saved = Unsaved
  BY DEF Init
<1>7. lost \in BOOLEAN /\ doubleFree \in BOOLEAN
  BY DEF Init
<1>8. 0 \in 0..entityLength /\ 0 \in 0..MaxFeeds
  BY PoolAssumption
<1>9. at \in 0..entityLength /\ mate \in 0..entityLength /\ feeds \in 0..MaxFeeds
  BY <1>8 DEF Init
<1> QED BY <1>1, <1>3, <1>4, <1>5, <1>6, <1>7, <1>9 DEF TypeOK

\* Every variable keeps its type: no slot is ever out of the array.
THEOREM TypeCorrect == Spec => []TypeOK
<1>1. Init => TypeOK
  BY InitTyped
<1>2. TypeOK /\ [Next]_vars => TypeOK'
  BY TypeStep
<1> QED BY <1>1, <1>2, PTL DEF Spec

(***************************************************************************)
(* The slots and the buffers of the entities that are built.               *)
(***************************************************************************)

\* What holds of the entities B that are built, and of the free slots.
Sound(B) ==
    /\ B \subseteq Active
    /\ \A s \in B : \A b \in Buffers(type[s]) : heap[s][b] = "live"
    /\ \A s \in B : type[s] = Sheep => extraEntity[s] \in B /\ type[extraEntity[s]] = Shorn
    /\ \A e \in B : type[e] = Shorn => \E s \in B : type[s] = Sheep /\ extraEntity[s] = e
    /\ \A s, r \in B : type[s] = Sheep /\ type[r] = Sheep /\ extraEntity[s] = extraEntity[r]
                           => s = r
    /\ \A s \in Slot \ B : \A b \in Buffer \ {"color", "textureSize"} :
           heap[s][b] # "live"
    /\ \A s \in B : type[s] = Item => heap[s]["solidColor"] # "live"
    /\ \A s \in Active : type[s] \in {Sheep, Pig, Item, Shorn}
    /\ ~doubleFree

\* The files hold entities the program can build.
SavedKnown == \A s \in Slot : saved[s].active => saved[s].type \in {Sheep, Pig, Item}

IInv ==
    /\ TypeOK
    /\ Sound(Built)
    /\ SavedKnown
    /\ phase = "menu" => Active = {}

\* Sound is the four properties and the kinds of what is in the slots.
LEMMA SoundMeans ==
    ASSUME TypeOK, Sound(Built)
    PROVE  BuffersHeld /\ NoDoubleFree /\ SheepPaired /\ OnlyKnownLeftovers
<1>1. BuffersHeld
  BY DEF Sound, BuffersHeld
<1>2. NoDoubleFree
  BY DEF Sound, NoDoubleFree
<1>3. OnlyKnownLeftovers
  BY DEF Sound, OnlyKnownLeftovers, Built
<1>4. SheepPaired
  <2> DEFINE Flock == {s \in Built : type[s] = Sheep}
             Extra == {s \in Built : type[s] = Shorn}
  <2>1. \A s \in Flock : extraEntity[s] \in Extra
    BY DEF Sound
  <2>2. ASSUME NEW e \in Extra
        PROVE  \E s \in Flock : extraEntity[s] = e /\ \A r \in Flock : extraEntity[r] = e => r = s
    <3>1. PICK s \in Flock : extraEntity[s] = e
      BY DEF Sound
    <3>2. \A r \in Flock : extraEntity[r] = e => r = s
      BY <3>1 DEF Sound
    <3> QED BY <3>1, <3>2
  <2> QED BY <2>1, <2>2 DEF SheepPaired
<1> QED BY <1>1, <1>2, <1>3, <1>4

\* Outside the loading of a world every entity is built.
LEMMA AllBuilt ==
    ASSUME phase # "loading"
    PROVE  Built = Active
  BY DEF Built, Unbuilt

\* The buffers of a slot after tlsf_malloc and after tlsf_free.
LEMMA AllocatedAt ==
    ASSUME NEW S, NEW bufs, NEW s \in Slot, NEW b \in Buffer
    PROVE  Allocated(S, bufs)[s][b] = IF s \in S /\ b \in bufs THEN "live" ELSE heap[s][b]
  BY DEF Allocated

LEMMA FreedAt ==
    ASSUME NEW h \in [Slot -> [Buffer -> {"null", "live", "freed"}]], NEW r \in Slot,
           NEW bufs, NEW s \in Slot, NEW b \in Buffer
    PROVE  Freed(h, r, bufs)[s][b] =
               IF s = r /\ b \in bufs /\ h[s][b] = "live" THEN "freed" ELSE h[s][b]
<1> DEFINE new == [c \in Buffer |-> IF c \in bufs /\ h[r][c] = "live" THEN "freed" ELSE h[r][c]]
<1>1. Freed(h, r, bufs) = [h EXCEPT ![r] = new]
  BY DEF Freed
<1>2. new[b] = IF b \in bufs /\ h[r][b] = "live" THEN "freed" ELSE h[r][b]
  OBVIOUS
<1> HIDE DEF new
<1>3. CASE s = r
  BY <1>1, <1>2, <1>3
<1>4. CASE s # r
  BY <1>1, <1>4
<1> QED BY <1>3, <1>4

\* The types differ, and an item has the buffers of a mob but one.
LEMMA Kinds ==
    /\ None # Sheep /\ None # Pig /\ None # Item /\ None # Shorn
    /\ Sheep # Pig /\ Sheep # Item /\ Sheep # Shorn
    /\ Pig # Item /\ Pig # Shorn /\ Item # Shorn
    /\ \A t : Buffers(t) \subseteq Buffer
    /\ Buffers(Item) = ItemBuffers
    /\ \A t : t # Item => Buffers(t) = MobBuffers
    /\ ItemBuffers \subseteq Buffer /\ MobBuffers = Buffer
    /\ Buffer \ {"color", "textureSize"} \subseteq Buffer
    /\ "solidColor" \in Buffer \ {"color", "textureSize"} /\ "solidColor" \notin ItemBuffers
<1>1. /\ None # Sheep /\ None # Pig /\ None # Item /\ None # Shorn
      /\ Sheep # Pig /\ Sheep # Item /\ Sheep # Shorn
      /\ Pig # Item /\ Pig # Shorn /\ Item # Shorn
  BY DEF None, Sheep, Pig, Item, Shorn
<1>2. /\ \A t : Buffers(t) \subseteq Buffer
      /\ Buffers(Item) = ItemBuffers
      /\ \A t : t # Item => Buffers(t) = MobBuffers
      /\ ItemBuffers \subseteq Buffer /\ MobBuffers = Buffer
      /\ Buffer \ {"color", "textureSize"} \subseteq Buffer
  BY DEF Buffers, ItemBuffers, MobBuffers
<1>3. "solidColor" \in Buffer \ {"color", "textureSize"} /\ "solidColor" \notin ItemBuffers
  BY DEF Buffer, ItemBuffers
<1> QED BY <1>1, <1>2, <1>3

\* What is built stays sound when the slots and the buffers stay as they are.
LEMMA Untouched ==
    ASSUME NEW B, Sound(B), UNCHANGED <<active, type, extraEntity, heap, doubleFree>>
    PROVE  Sound(B)'
<1>1. Active' = Active
  BY DEF Active
<1>2. \A e \in B : type'[e] = Shorn => \E s \in B : type'[s] = Sheep /\ extraEntity'[s] = e
  BY DEF Sound
<1>3. /\ B \subseteq Active'
      /\ \A s \in Slot \ B : \A b \in Buffer \ {"color", "textureSize"} :
             heap'[s][b] # "live"
      /\ \A s \in B : type'[s] = Item => heap'[s]["solidColor"] # "live"
      /\ \A s \in Active' : type'[s] \in {Sheep, Pig, Item, Shorn}
      /\ ~doubleFree'
  BY <1>1 DEF Sound
<1>4. \A s \in B : \A b \in Buffers(type'[s]) : heap'[s][b] = "live"
  BY DEF Sound
<1>5. \A s \in B : type'[s] = Sheep => extraEntity'[s] \in B /\ type'[extraEntity'[s]] = Shorn
  BY DEF Sound
<1>6. \A s, r \in B :
          type'[s] = Sheep /\ type'[r] = Sheep /\ extraEntity'[s] = extraEntity'[r] => s = r
  BY DEF Sound
<1> QED BY <1>2, <1>3, <1>4, <1>5, <1>6 DEF Sound

\* Slots D that are not in B become items or pigs, with their buffers.
Taken(B, D, t, bufs) ==
    /\ D \in SUBSET (Slot \ B)
    /\ t \in {Item, Pig}
    /\ Buffers(t) \subseteq bufs
    /\ t = Item => bufs = ItemBuffers
    /\ Active' = Active \cup D
    /\ heap' = Allocated(D, bufs)
    /\ \A s \in D : type'[s] = t
    /\ \A s \in Slot \ D : type'[s] = type[s]
    /\ UNCHANGED <<extraEntity, doubleFree>>

\* They are sound then.
LEMMA OneMade ==
    ASSUME TypeOK, NEW B, Sound(B), NEW D, NEW t, NEW bufs, Taken(B, D, t, bufs)
    PROVE  Sound(B \cup D)'
<1> USE DEF Taken
<1>2. Active' = Active \cup D
  OBVIOUS
<1>3. \A s \in Slot, b \in Buffer :
          heap'[s][b] = IF s \in D /\ b \in bufs THEN "live" ELSE heap[s][b]
  BY AllocatedAt
<1>4. B \subseteq Active /\ D \cap B = {} /\ Active \subseteq Slot /\ D \subseteq Slot
  BY DEF Sound, Active
<1>5. /\ \A s \in B : type'[s] = type[s]
      /\ \A s \in D : type'[s] = t
      /\ \A s \in Active \ D : type'[s] = type[s]
  BY <1>4
<1>6. \A s \in B \cup D : \A b \in Buffers(type'[s]) : heap'[s][b] = "live"
  <2>1. \A k : Buffers(k) \subseteq Buffer
    BY Kinds
  <2>2. ASSUME NEW s \in B, NEW b \in Buffers(type'[s]) PROVE heap'[s][b] = "live"
    BY <1>3, <1>4, <1>5, <2>1, <2>2 DEF Sound
  <2>3. ASSUME NEW s \in D, NEW b \in Buffers(type'[s]) PROVE heap'[s][b] = "live"
    BY <1>3, <1>4, <1>5, <2>1, <2>3
  <2> QED BY <2>2, <2>3
<1>7. \A s \in B \cup D : type'[s] = Sheep =>
          extraEntity'[s] \in B \cup D /\ type'[extraEntity'[s]] = Shorn
  BY <1>5, Kinds DEF Sound
<1>8. \A e \in B \cup D : type'[e] = Shorn =>
          \E s \in B \cup D : type'[s] = Sheep /\ extraEntity'[s] = e
  BY <1>5, Kinds DEF Sound
<1>9. \A s, r \in B \cup D :
          type'[s] = Sheep /\ type'[r] = Sheep /\ extraEntity'[s] = extraEntity'[r] => s = r
  BY <1>5, Kinds DEF Sound
<1>10. \A s \in Slot \ (B \cup D) : \A b \in Buffer \ {"color", "textureSize"} :
           heap'[s][b] # "live"
  BY <1>3 DEF Sound
<1>13. \A s \in B \cup D : type'[s] = Item => heap'[s]["solidColor"] # "live"
  <2>1. ASSUME NEW s \in B, type'[s] = Item PROVE heap'[s]["solidColor"] # "live"
    <3>1. type[s] = Item /\ s \in Slot /\ s \notin D /\ "solidColor" \in Buffer
      BY <1>4, <1>5, <2>1, Kinds
    <3>2. heap[s]["solidColor"] # "live"
      BY <2>1, <3>1 DEF Sound
    <3> QED BY <1>3, <3>1, <3>2
  <2>2. ASSUME NEW s \in D, t = Item PROVE heap'[s]["solidColor"] # "live"
    <3>1. s \in Slot \ B /\ "solidColor" \in Buffer \ {"color", "textureSize"}
      BY <1>4, Kinds
    <3>2. heap[s]["solidColor"] # "live"
      BY <3>1 DEF Sound
    <3>3. "solidColor" \in Buffer /\ "solidColor" \notin bufs
      BY <2>2, Kinds
    <3> QED BY <1>3, <3>1, <3>2, <3>3
  <2> QED BY <1>5, <2>1, <2>2
<1>11. \A s \in Active' : type'[s] \in {Sheep, Pig, Item, Shorn}
  BY <1>2, <1>5 DEF Sound
<1>12. ~doubleFree'
  BY DEF Sound
<1>14. (B \cup D) \subseteq Active'
  BY <1>2, <1>4
<1> QED BY <1>14, <1>6, <1>7, <1>8, <1>9, <1>10, <1>11, <1>12, <1>13 DEF Sound

\* Two slots that are not in B become a sheep and its second mesh.
PairTaken(B, x, y) ==
    /\ x \in Slot \ B /\ y \in Slot \ B /\ x # y
    /\ Active' = Active \cup {x, y}
    /\ heap' = Allocated({x, y}, MobBuffers)
    /\ type'[x] = Sheep /\ type'[y] = Shorn
    /\ \A s \in Slot \ {x, y} : type'[s] = type[s]
    /\ extraEntity'[x] = y
    /\ \A s \in Slot \ {x} : extraEntity'[s] = extraEntity[s]
    /\ UNCHANGED doubleFree

\* They are sound then.
LEMMA TwoMade ==
    ASSUME TypeOK, NEW B, Sound(B), NEW x, NEW y, PairTaken(B, x, y)
    PROVE  Sound(B \cup {x, y})'
<1> DEFINE D == {x, y}
<1> USE DEF PairTaken
<1>2. Active' = Active \cup D
  OBVIOUS
<1>3. \A s \in Slot, b \in Buffer :
          heap'[s][b] = IF s \in D /\ b \in MobBuffers THEN "live" ELSE heap[s][b]
  BY AllocatedAt
<1>4. B \subseteq Active /\ D \cap B = {} /\ Active \subseteq Slot /\ D \subseteq Slot
  BY DEF Sound, Active
<1>5. /\ \A s \in B : type'[s] = type[s]
      /\ \A s \in Active \ D : type'[s] = type[s]
      /\ type'[x] = Sheep /\ type'[y] = Shorn
      /\ extraEntity'[x] = y
      /\ \A s \in B : extraEntity'[s] = extraEntity[s]
  BY <1>4
<1> HIDE DEF D
<1>6. \A s \in B \cup D : \A b \in Buffers(type'[s]) : heap'[s][b] = "live"
  <2>1. \A k : Buffers(k) \subseteq Buffer /\ MobBuffers = Buffer
    BY Kinds
  <2>2. ASSUME NEW s \in B, NEW b \in Buffers(type'[s]) PROVE heap'[s][b] = "live"
    <3>1. type'[s] = type[s] /\ s \notin D /\ s \in Slot /\ b \in Buffer
      BY <1>4, <1>5, <2>1, <2>2
    <3>2. heap[s][b] = "live"
      BY <2>2, <3>1 DEF Sound
    <3> QED BY <1>3, <3>1, <3>2
  <2>3. ASSUME NEW s \in D, NEW b \in Buffers(type'[s]) PROVE heap'[s][b] = "live"
    <3>1. s \in Slot /\ b \in MobBuffers /\ b \in Buffer
      BY <1>4, <2>1, <2>3
    <3> QED BY <1>3, <2>3, <3>1
  <2> QED BY <2>2, <2>3
<1>7. \A s \in B \cup D : type'[s] = Sheep =>
          extraEntity'[s] \in B \cup D /\ type'[extraEntity'[s]] = Shorn
  BY <1>4, <1>5, Kinds DEF Sound, D
<1>8. \A e \in B \cup D : type'[e] = Shorn =>
          \E s \in B \cup D : type'[s] = Sheep /\ extraEntity'[s] = e
  BY <1>4, <1>5, Kinds DEF Sound, D
<1>9. \A s, r \in B \cup D :
          type'[s] = Sheep /\ type'[r] = Sheep /\ extraEntity'[s] = extraEntity'[r] => s = r
  BY <1>4, <1>5, Kinds DEF Sound, D
<1>10. \A s \in Slot \ (B \cup D) : \A b \in Buffer \ {"color", "textureSize"} :
           heap'[s][b] # "live"
  <2>1. ASSUME NEW s \in Slot \ (B \cup D), NEW b \in Buffer \ {"color", "textureSize"}
        PROVE  heap'[s][b] # "live"
    <3>1. s \in Slot \ B /\ s \notin D /\ b \in Buffer
      OBVIOUS
    <3>2. heap'[s][b] = heap[s][b]
      BY <1>3, <3>1
    <3> QED BY <3>1, <3>2 DEF Sound
  <2> QED BY <2>1
<1>11. \A s \in Active' : type'[s] \in {Sheep, Pig, Item, Shorn}
  BY <1>2, <1>5 DEF Sound, D
<1>12. ~doubleFree'
  BY DEF Sound
<1>13. (B \cup D) \subseteq Active'
  BY <1>2, <1>4
<1>14. \A s \in B \cup D : type'[s] = Item => heap'[s]["solidColor"] # "live"
  <2>1. ASSUME NEW s \in B \cup D, type'[s] = Item PROVE heap'[s]["solidColor"] # "live"
    <3>1. s \in B /\ s \notin D /\ type[s] = Item /\ s \in Slot /\ "solidColor" \in Buffer
      BY <1>4, <1>5, <2>1, Kinds DEF D
    <3>2. heap[s]["solidColor"] # "live"
      BY <3>1 DEF Sound
    <3> QED BY <1>3, <3>1, <3>2
  <2> QED BY <2>1
<1> QED BY <1>6, <1>7, <1>8, <1>9, <1>10, <1>11, <1>12, <1>13, <1>14 DEF Sound, D

\* An item or a pig that is made takes a slot that was free.
LEMMA TakenFree ==
    ASSUME TypeOK, NEW B, B = Active, NEW D \in SUBSET Free, NEW t \in {Item, Pig}, NEW bufs,
           Buffers(t) \subseteq bufs, t = Item => bufs = ItemBuffers,
           Activate(D), heap' = Allocated(D, bufs),
           type' = [s \in Slot |-> IF s \in D THEN t ELSE type[s]],
           UNCHANGED <<extraEntity, doubleFree>>
    PROVE  Taken(B, D, t, bufs)
  BY DEF Taken, Activate, Active, Free

\* So every way of making an entity keeps what is built sound.
LEMMA MadeSound ==
    ASSUME TypeOK, ~LastSlotSheep, Sound(Active), makeItem \/ makePig \/ makeSheep2
    PROVE  Sound(Active)'
<1> PICK B : B = Active
  OBVIOUS
<1>1. ASSUME NEW D \in SUBSET Free, Activate(D), Sound(B \cup D)'
      PROVE  Sound(Active)'
  <2>1. Active' = B \cup D
    BY <1>1 DEF Active, Activate, Free
  <2> QED BY <1>1, <2>1 DEF Sound
<1>2. CASE makeItem
  <2> PICK D \in SUBSET Free : makeItem!(D)
    BY <1>2 DEF makeItem
  <2>1. Taken(B, D, Item, ItemBuffers)
    BY TakenFree, Kinds DEF Allocate
  <2> QED BY <1>1, <2>1, OneMade
<1>3. CASE makePig
  <2> PICK D \in SUBSET Free : makePig!(D)
    BY <1>3 DEF makePig
  <2>1. Taken(B, D, Pig, MobBuffers)
    BY TakenFree, Kinds DEF Allocate
  <2> QED BY <1>1, <2>1, OneMade
<1>4. CASE makeSheep2
  <2> PICK D \in SUBSET Free : makeSheep2!(D)
    BY <1>4 DEF makeSheep2
  <2>1. CASE D = {}
    <3>1. active' = active /\ type' = type /\ extraEntity' = extraEntity
      BY <2>1 DEF Activate, TypeOK
    <3>2. heap' = heap
      BY <2>1 DEF Allocate, Allocated, TypeOK
    <3>3. UNCHANGED doubleFree
      OBVIOUS
    <3>4. Sound(B)'
      BY <3>1, <3>2, <3>3, Untouched
    <3>5. Active' = B
      BY <3>1 DEF Active
    <3> QED BY <3>4, <3>5 DEF Sound
  <2>2. CASE D # {}
    <3>1. PICK x, y \in Free : x # y /\ D = {x, y} /\ {d \in D : First(d, D)} = {x}
      BY <2>2, TwoFree
    <3>2. D \ {d \in D : First(d, D)} = {y}
      BY <3>1
    <3>3. (CHOOSE e \in {y} : TRUE) = y
      OBVIOUS
    <3>4. type' = [s \in Slot |-> IF s \in {x} THEN Sheep
                                  ELSE IF s \in {y} THEN Shorn ELSE type[s]]
      BY <3>1, <3>2
    <3>5. extraEntity' = [s \in Slot |-> IF s = x THEN y ELSE extraEntity[s]]
      BY <3>1, <3>2, <3>3
    <3>6. heap' = Allocated({x, y}, MobBuffers) /\ UNCHANGED doubleFree
      BY <3>1 DEF Allocate
    <3>7. Active' = Active \cup {x, y} /\ x \in Slot \ B /\ y \in Slot \ B
      BY <3>1 DEF Active, Activate, Free
    <3>8. PairTaken(B, x, y)
      BY <3>1, <3>4, <3>5, <3>6, <3>7 DEF PairTaken
    <3> QED BY <1>1, <3>1, <3>8, TwoMade
  <2> QED BY <2>1, <2>2
<1> QED BY <1>2, <1>3, <1>4

\* A step in which the entities G of B go, sheep and second meshes together,
\* and the items D are left.
Departed(B, D, G) ==
    /\ D \in SUBSET Free /\ G \in SUBSET B
    /\ \A s \in G : type[s] = Sheep => extraEntity[s] \in G
    /\ \A s \in B : type[s] = Sheep /\ extraEntity[s] \in G => s \in G
    /\ active' = [s \in Slot |-> s \notin G /\ (s \in D \/ active[s])]
    /\ \A s \in B \ G : type'[s] = type[s]
    /\ \A s \in D : type'[s] = Item
    /\ \A s \in D, b \in ItemBuffers : heap'[s][b] = "live"
    /\ \A s \in D : heap'[s]["solidColor"] = heap[s]["solidColor"]
    /\ \A s \in G, b \in Buffer \ {"color", "textureSize"} : heap'[s][b] # "live"
    /\ \A s \in Slot \ (D \cup G), b \in Buffer : heap'[s][b] = heap[s][b]
    /\ UNCHANGED extraEntity
    /\ ~doubleFree'

\* After it, what is left is sound.
LEMMA DepartedSound ==
    ASSUME TypeOK, NEW B, Sound(B), B = Active, NEW D, NEW G, Departed(B, D, G)
    PROVE  Sound(Active)'
<1> USE DEF Departed
<1> DEFINE C == (B \cup D) \ G
<1>1. B \subseteq Slot /\ D \subseteq Slot /\ D \cap B = {} /\ D \cap G = {}
  BY DEF Active, Free
<1>2. Active' = C
  <2>1. \A s \in Slot : active'[s] = (s \notin G /\ (s \in D \/ s \in B))
    BY DEF Active, TypeOK
  <2> QED BY <1>1, <2>1 DEF Active
<1>3. \A s \in C : (s \in B \ G /\ type'[s] = type[s]) \/ (s \in D /\ type'[s] = Item)
  OBVIOUS
<1>4. \A s \in C : \A b \in Buffers(type'[s]) : heap'[s][b] = "live"
  <2>1. ASSUME NEW s \in B \ G, NEW b \in Buffers(type'[s]) PROVE heap'[s][b] = "live"
    <3>1. type'[s] = type[s] /\ s \in Slot \ (D \cup G) /\ b \in Buffer
      BY <1>1, Kinds
    <3>2. heap[s][b] = "live"
      BY <3>1 DEF Sound
    <3> QED BY <3>1, <3>2
  <2>2. ASSUME NEW s \in D, NEW b \in Buffers(type'[s]) PROVE heap'[s][b] = "live"
    BY Kinds
  <2> QED BY <1>3, <2>1, <2>2
<1>5. \A s \in C : type'[s] = Sheep => extraEntity'[s] \in C /\ type'[extraEntity'[s]] = Shorn
  BY <1>3, Kinds DEF Sound
<1>6. \A e \in C : type'[e] = Shorn => \E s \in C : type'[s] = Sheep /\ extraEntity'[s] = e
  <2> SUFFICES ASSUME NEW e \in C, type'[e] = Shorn
               PROVE  \E s \in C : type'[s] = Sheep /\ extraEntity'[s] = e
    OBVIOUS
  <2>1. e \in B \ G /\ type[e] = Shorn
    BY <1>3, Kinds
  <2>2. PICK s \in B : type[s] = Sheep /\ extraEntity[s] = e
    BY <2>1 DEF Sound
  <2>3. s \in B \ G
    BY <2>1, <2>2
  <2> QED BY <2>2, <2>3
<1>7. \A s, r \in C :
          type'[s] = Sheep /\ type'[r] = Sheep /\ extraEntity'[s] = extraEntity'[r] => s = r
  BY <1>3, Kinds DEF Sound
<1>8. \A s \in Slot \ C : \A b \in Buffer \ {"color", "textureSize"} : heap'[s][b] # "live"
  <2> SUFFICES ASSUME NEW s \in Slot \ C, NEW b \in Buffer \ {"color", "textureSize"}
               PROVE  heap'[s][b] # "live"
    OBVIOUS
  <2>1. CASE s \in G
    BY <2>1
  <2>2. CASE s \notin G
    <3>1. s \in Slot \ (D \cup G) /\ s \notin Active
      BY <2>2
    <3> QED BY <3>1 DEF Sound
  <2> QED BY <2>1, <2>2
<1>9. \A s \in C : type'[s] \in {Sheep, Pig, Item, Shorn}
  BY <1>3 DEF Sound
<1>10. \A s \in C : type'[s] = Item => heap'[s]["solidColor"] # "live"
  <2>1. ASSUME NEW s \in B \ G, type'[s] = Item PROVE heap'[s]["solidColor"] # "live"
    <3>1. s \in Slot \ (D \cup G) /\ type[s] = Item /\ "solidColor" \in Buffer
      BY <1>1, <2>1, Kinds
    <3> QED BY <2>1, <3>1 DEF Sound
  <2>2. ASSUME NEW s \in D PROVE heap'[s]["solidColor"] # "live"
    <3>1. s \in Slot \ B /\ "solidColor" \in Buffer \ {"color", "textureSize"}
      BY <1>1, Kinds
    <3> QED BY <3>1 DEF Sound
  <2> QED BY <1>3, <2>1, <2>2
<1> HIDE DEF C
<1> QED BY <1>2, <1>4, <1>5, <1>6, <1>7, <1>8, <1>9, <1>10 DEF Sound

\* The death of a pig, of a sheep, and picking up an item.
LEMMA PigDiesSound ==
    ASSUME TypeOK, Sound(Active), PigDies
    PROVE  Sound(Active)'
<1> PICK D \in SUBSET Free :
        /\ active' = [s \in Slot |-> s # at /\ (s \in D \/ active[s])]
        /\ type' = [s \in Slot |-> IF s \in D THEN Item ELSE type[s]]
        /\ heap' = Freed(Allocated(D, ItemBuffers), at, MobBuffers)
        /\ doubleFree' = (doubleFree \/ FreesTwice(heap, at, MobBuffers))
  BY DEF PigDies
<1> PICK B : B = Active
  OBVIOUS
<1>1. at \in Slot /\ at \in B /\ type[at] = Pig /\ at \notin D /\ UNCHANGED extraEntity
  BY DEF PigDies, UpdateNext, Active, Free
<1>2. \A b \in Buffer : heap[at][b] = "live"
  BY <1>1, Kinds DEF Sound
<1>3. \A s \in Slot, b \in Buffer :
          heap'[s][b] = IF s = at THEN "freed"
                        ELSE IF s \in D /\ b \in ItemBuffers THEN "live" ELSE heap[s][b]
  <2> SUFFICES ASSUME NEW s \in Slot, NEW b \in Buffer
               PROVE  heap'[s][b] = IF s = at THEN "freed"
                        ELSE IF s \in D /\ b \in ItemBuffers THEN "live" ELSE heap[s][b]
    OBVIOUS
  <2> DEFINE made == Allocated(D, ItemBuffers)
  <2>1. made \in [Slot -> [Buffer -> {"null", "live", "freed"}]]
    BY HeapTyped
  <2>2. made[s][b] = IF s \in D /\ b \in ItemBuffers THEN "live" ELSE heap[s][b]
    BY AllocatedAt
  <2> HIDE DEF made
  <2>3. Freed(made, at, MobBuffers)[s][b] =
            IF s = at /\ b \in MobBuffers /\ made[s][b] = "live" THEN "freed" ELSE made[s][b]
    BY <1>1, <2>1, FreedAt
  <2> QED BY <1>1, <1>2, <2>2, <2>3, Kinds DEF made
<1>4. ~doubleFree'
  BY <1>2, Kinds DEF Sound, FreesTwice
<1> DEFINE G == {at}
<1>5. /\ G \in SUBSET B
      /\ \A s \in G : type[s] = Sheep => extraEntity[s] \in G
      /\ \A s \in B : type[s] = Sheep /\ extraEntity[s] \in G => s \in G
  BY <1>1, Kinds DEF Sound
<1>6. active' = [s \in Slot |-> s \notin G /\ (s \in D \/ active[s])]
  OBVIOUS
<1>7. /\ \A s \in B \ G : type'[s] = type[s]
      /\ \A s \in D : type'[s] = Item
  BY DEF Free, Active, TypeOK
<1>8. /\ \A s \in D, b \in ItemBuffers : heap'[s][b] = "live"
      /\ \A s \in G, b \in Buffer \ {"color", "textureSize"} : heap'[s][b] # "live"
      /\ \A s \in Slot \ (D \cup G), b \in Buffer : heap'[s][b] = heap[s][b]
  BY <1>1, <1>3, Kinds DEF Free
<1>10. \A s \in D : heap'[s]["solidColor"] = heap[s]["solidColor"]
  BY <1>1, <1>3, Kinds DEF Free
<1> HIDE DEF G
<1>9. Departed(B, D, G)
  BY <1>1, <1>4, <1>5, <1>6, <1>7, <1>8, <1>10 DEF Departed
<1> QED BY <1>9, DepartedSound

LEMMA SheepDiesSound ==
    ASSUME TypeOK, Sound(Active), SheepDies
    PROVE  Sound(Active)'
<1> PICK B : B = Active
  OBVIOUS
<1> PICK e : e = extraEntity[at]
  OBVIOUS
<1>1. /\ at \in Slot /\ at \in B /\ type[at] = Sheep
      /\ e \in B /\ e \in Slot /\ type[e] = Shorn /\ e # at
  <2>1. at \in Slot /\ at \in B /\ type[at] = Sheep
    BY DEF SheepDies, UpdateNext, Active
  <2> QED BY <2>1, Kinds DEF Sound, Active
<1>2. PICK D \in SUBSET Free :
        /\ active' = [s \in Slot |-> s \notin {at, e} /\ (s \in D \/ active[s])]
        /\ type' = [s \in Slot |-> IF s \in D THEN Item ELSE type[s]]
        /\ heap' = Freed(Freed(Allocated(D, ItemBuffers), at, MobBuffers), e, MobBuffers)
        /\ doubleFree' = (doubleFree
               \/ FreesTwice(Allocated(D, ItemBuffers), at, MobBuffers)
               \/ FreesTwice(Freed(Allocated(D, ItemBuffers), at, MobBuffers), e, MobBuffers))
  BY DEF SheepDies
<1>3. UNCHANGED extraEntity /\ at \notin D /\ e \notin D
  BY <1>1 DEF SheepDies, Active, Free
<1>4. \A b \in Buffer : heap[at][b] = "live" /\ heap[e][b] = "live"
  BY <1>1, Kinds DEF Sound
<1> DEFINE made == Allocated(D, ItemBuffers)
           own  == Freed(made, at, MobBuffers)
<1>5. /\ made \in [Slot -> [Buffer -> {"null", "live", "freed"}]]
      /\ own \in [Slot -> [Buffer -> {"null", "live", "freed"}]]
  BY HeapTyped
<1>6. \A s \in Slot, b \in Buffer :
          made[s][b] = IF s \in D /\ b \in ItemBuffers THEN "live" ELSE heap[s][b]
  BY AllocatedAt
<1>7. heap' = Freed(own, e, MobBuffers)
  BY <1>2
<1>8. doubleFree' = (doubleFree \/ FreesTwice(made, at, MobBuffers)
                               \/ FreesTwice(own, e, MobBuffers))
  BY <1>2
<1> HIDE DEF made
<1>9. \A s \in Slot, b \in Buffer :
          own[s][b] = IF s = at THEN "freed" ELSE made[s][b]
  <2> SUFFICES ASSUME NEW s \in Slot, NEW b \in Buffer
               PROVE  own[s][b] = IF s = at THEN "freed" ELSE made[s][b]
    OBVIOUS
  <2>1. own[s][b] = IF s = at /\ b \in MobBuffers /\ made[s][b] = "live" THEN "freed"
                    ELSE made[s][b]
    BY <1>1, <1>5, FreedAt
  <2>2. made[at][b] = "live"
    BY <1>1, <1>3, <1>4, <1>6
  <2> QED BY <2>1, <2>2, Kinds
<1> HIDE DEF own
<1>10. \A s \in Slot, b \in Buffer :
          heap'[s][b] = IF s \in {at, e} THEN "freed"
                        ELSE IF s \in D /\ b \in ItemBuffers THEN "live" ELSE heap[s][b]
  <2> SUFFICES ASSUME NEW s \in Slot, NEW b \in Buffer
               PROVE  heap'[s][b] = IF s \in {at, e} THEN "freed"
                        ELSE IF s \in D /\ b \in ItemBuffers THEN "live" ELSE heap[s][b]
    OBVIOUS
  <2>1. heap'[s][b] = IF s = e /\ b \in MobBuffers /\ own[s][b] = "live" THEN "freed"
                      ELSE own[s][b]
    BY <1>1, <1>5, <1>7, FreedAt
  <2>2. own[e][b] = "live"
    BY <1>1, <1>3, <1>4, <1>6, <1>9
  <2> QED BY <1>6, <1>9, <2>1, <2>2, Kinds
<1>11. ~doubleFree'
  <2>1. ~FreesTwice(made, at, MobBuffers)
    BY <1>1, <1>3, <1>4, <1>6, Kinds DEF FreesTwice
  <2>2. ~FreesTwice(own, e, MobBuffers)
    BY <1>1, <1>3, <1>4, <1>6, <1>9, Kinds DEF FreesTwice
  <2> QED BY <1>8, <2>1, <2>2 DEF Sound
<1> DEFINE G == {at, e}
<1>12. /\ D \in SUBSET Free /\ G \in SUBSET B
       /\ \A s \in G : type[s] = Sheep => extraEntity[s] \in G
       /\ \A s \in B : type[s] = Sheep /\ extraEntity[s] \in G => s \in G
  BY <1>1, Kinds DEF Sound
<1>13. active' = [s \in Slot |-> s \notin G /\ (s \in D \/ active[s])]
  BY <1>2
<1>14. /\ \A s \in B \ G : type'[s] = type[s]
       /\ \A s \in D : type'[s] = Item
  BY <1>2 DEF Free, Active, TypeOK
<1>15. /\ \A s \in D, b \in ItemBuffers : heap'[s][b] = "live"
       /\ \A s \in D : heap'[s]["solidColor"] = heap[s]["solidColor"]
  BY <1>3, <1>10, Kinds DEF Free
<1>16. /\ \A s \in G, b \in Buffer \ {"color", "textureSize"} : heap'[s][b] # "live"
       /\ \A s \in Slot \ (D \cup G), b \in Buffer : heap'[s][b] = heap[s][b]
  BY <1>1, <1>10, Kinds
<1> HIDE DEF G
<1>17. Departed(B, D, G)
  BY <1>3, <1>11, <1>12, <1>13, <1>14, <1>15, <1>16 DEF Departed
<1> QED BY <1>17, DepartedSound

LEMMA PickUpSound ==
    ASSUME TypeOK, Sound(Active), PickUp
    PROVE  Sound(Active)'
<1> PICK B : B = Active
  OBVIOUS
<1>1. at \in Slot /\ at \in B /\ type[at] = Item /\ UNCHANGED extraEntity
  BY DEF PickUp, UpdateNext, Active
<1>2. /\ \A b \in ItemBuffers : heap[at][b] = "live"
      /\ heap[at]["solidColor"] # "live"
  BY <1>1, Kinds DEF Sound
<1>3. \A s \in Slot, b \in Buffer :
          heap'[s][b] = IF s = at /\ b \in ItemBuffers /\ heap[s][b] = "live" THEN "freed"
                        ELSE heap[s][b]
  BY <1>1, FreedAt DEF PickUp, TypeOK
<1>4. ~doubleFree'
  BY <1>2 DEF Sound, PickUp, FreesTwice
<1> DEFINE G == {at}
<1>5. /\ {} \in SUBSET Free /\ G \in SUBSET B
      /\ \A s \in G : type[s] = Sheep => extraEntity[s] \in G
      /\ \A s \in B : type[s] = Sheep /\ extraEntity[s] \in G => s \in G
  BY <1>1, Kinds DEF Sound
<1>6. active' = [s \in Slot |-> s \notin G /\ (s \in {} \/ active[s])]
  BY <1>1 DEF PickUp, TypeOK
<1>7. \A s \in B \ G : type'[s] = type[s]
  BY <1>1 DEF PickUp, TypeOK, Active
<1>8. \A b \in Buffer : b \in ItemBuffers \/ b = "solidColor"
  BY DEF ItemBuffers
<1>9. /\ \A s \in G, b \in Buffer \ {"color", "textureSize"} : heap'[s][b] # "live"
      /\ \A s \in Slot \ ({} \cup G), b \in Buffer : heap'[s][b] = heap[s][b]
  BY <1>1, <1>2, <1>3, <1>8
<1> HIDE DEF G
<1>10. Departed(B, {}, G)
  BY <1>1, <1>4, <1>5, <1>6, <1>7, <1>9 DEF Departed
<1> QED BY <1>10, DepartedSound

\* Leaving the world frees every slot, and each buffer but two of a mob.
LEMMA ClearedSound ==
    ASSUME TypeOK, Sound(Active), clearAllEntitys
    PROVE  Active' = {} /\ Sound({})'
<1>1. Active' = {}
  BY DEF clearAllEntitys, Active
<1>2. \A s \in Slot, b \in Buffer :
          heap'[s][b] = IF active[s] /\ b \in ClearedBuffers(s) /\ heap[s][b] = "live"
                        THEN "freed" ELSE heap[s][b]
  <2> SUFFICES ASSUME NEW s \in Slot, NEW b \in Buffer
               PROVE  heap'[s][b] = IF active[s] /\ b \in ClearedBuffers(s) /\ heap[s][b] = "live"
                                    THEN "freed" ELSE heap[s][b]
    OBVIOUS
  <2>1. Freed(heap, s, ClearedBuffers(s))[s][b] =
            IF b \in ClearedBuffers(s) /\ heap[s][b] = "live" THEN "freed" ELSE heap[s][b]
    BY FreedAt DEF TypeOK
  <2>2. heap'[s] = IF active[s] THEN Freed(heap, s, ClearedBuffers(s))[s] ELSE heap[s]
    BY DEF clearAllEntitys
  <2> QED BY <2>1, <2>2 DEF TypeOK
<1>3. ASSUME NEW s \in Active
      PROVE  /\ ClearedBuffers(s) \subseteq Buffers(type[s])
             /\ \A b \in (Buffer \ {"color", "textureSize"}) \ ClearedBuffers(s) :
                    heap[s][b] # "live"
  <2>1. CASE type[s] = Item
    <3>1. ClearedBuffers(s) = ItemBuffers
      BY <2>1 DEF ClearedBuffers
    <3>2. \A b \in Buffer \ ItemBuffers : b = "solidColor"
      BY DEF ItemBuffers
    <3>3. heap[s]["solidColor"] # "live"
      BY <1>3, <2>1 DEF Sound
    <3> QED BY <2>1, <3>1, <3>2, <3>3, Kinds
  <2>2. CASE type[s] # Item
    BY <2>2, Kinds DEF ClearedBuffers
  <2> QED BY <2>1, <2>2
<1>4. \A s \in Slot : \A b \in Buffer \ {"color", "textureSize"} : heap'[s][b] # "live"
  <2> SUFFICES ASSUME NEW s \in Slot, NEW b \in Buffer \ {"color", "textureSize"}
               PROVE  heap'[s][b] # "live"
    OBVIOUS
  <2>1. CASE s \in Active
    BY <1>2, <1>3, <2>1 DEF Active
  <2>2. CASE s \notin Active
    BY <1>2, <2>2 DEF Active, Sound
  <2> QED BY <2>1, <2>2
<1>5. ~doubleFree'
  <2>1. \A s \in Active : ~FreesTwice(heap, s, ClearedBuffers(s))
    BY <1>3 DEF FreesTwice, Sound
  <2>2. doubleFree' = (doubleFree \/ \E s \in Active : FreesTwice(heap, s, ClearedBuffers(s)))
    BY DEF clearAllEntitys
  <2>3. ~doubleFree
    BY DEF Sound
  <2> QED BY <2>1, <2>2, <2>3
<1> QED BY <1>1, <1>4, <1>5 DEF Sound

(***************************************************************************)
(* The loading of a world.                                                 *)
(***************************************************************************)

\* At first nothing is built.
LEMMA LoadStarts ==
    ASSUME TypeOK, Sound({}), SavedKnown, loadEntityData
    PROVE  Built' = {} /\ Sound({})'
<1>1. \A s \in Active' : type'[s] \in {Sheep, Pig, Item}
  BY DEF loadEntityData, SavedKnown, Active
<1>2. \A s \in Slot : s >= 0
  BY PoolAssumption DEF Slot
<1>3. at' = 0 /\ phase' = "loading" /\ heap' = heap /\ doubleFree' = doubleFree
  BY DEF loadEntityData, spoil
<1>4. Unbuilt' = Active'
  BY <1>1, <1>2, <1>3, Kinds DEF Unbuilt, Active
<1>5. Built' = {}
  BY <1>4 DEF Built
<1>6. /\ \A s \in Slot : \A b \in Buffer \ {"color", "textureSize"} : heap'[s][b] # "live"
      /\ ~doubleFree'
  BY <1>3 DEF Sound
<1> QED BY <1>1, <1>5, <1>6 DEF Sound

\* A step that builds the slots of X, the one the loop is at among them if
\* there is something to build.
LEMMA LoadGoesOn ==
    ASSUME TypeOK, NEW B, B = Built, NEW X, LoadNext,
           X \subseteq {s \in Slot : s = at \/ s \notin Active},
           \A s \in Active \ X : s = at => s \in B,
           Active' = Active \cup X,
           \A s \in Slot \ X : type'[s] = type[s],
           \A s \in X : s = at \/ type'[s] = Shorn
    PROVE  Built' = B \cup X
<1>1. /\ phase = "loading" /\ phase' = "loading" /\ at \in Slot /\ at' = at + 1
  BY DEF LoadNext
<1>2. \A s \in Slot : (s >= at + 1) <=> (s >= at /\ s # at)
  BY <1>1, PoolAssumption DEF Slot
<1>3. Active \subseteq Slot /\ X \subseteq Slot
  BY DEF Active
<1>4. \A s \in Slot : s \in B <=> s \in Active /\ ~(s >= at /\ type[s] # Shorn)
  BY <1>1 DEF Built, Unbuilt
<1>5. \A s \in Slot : s \in Built' <=> s \in Active' /\ ~(s >= at /\ s # at /\ type'[s] # Shorn)
  BY <1>1, <1>2, <1>3 DEF Built, Unbuilt
<1>6. Built' \subseteq Slot /\ B \subseteq Slot
  BY <1>3 DEF Built
<1>7. ASSUME NEW s \in Slot PROVE s \in Built' <=> s \in B \cup X
  <2>1. CASE s \in X
    BY <1>5, <2>1
  <2>2. CASE s \notin X
    BY <1>4, <1>5, <2>2
  <2> QED BY <2>1, <2>2
<1> QED BY <1>3, <1>6, <1>7

\* Each entity is built with its buffers, a sheep together with a second mesh.
LEMMA LoadedSound ==
    ASSUME TypeOK, ~LastSlotSheep, Sound(Built),
           makeSheep2Load \/ makePigLoad \/ makeItemLoad \/ LoadNothing
    PROVE  Sound(Built)'
<1> PICK B : B = Built
  OBVIOUS
<1> PICK a : a = at
  OBVIOUS
<1>1. at \in Slot /\ phase = "loading" /\ LoadNext /\ UNCHANGED doubleFree
  BY DEF makeSheep2Load, makePigLoad, makeItemLoad, LoadNothing, LoadNext
<1>2. at >= at
  BY <1>1, PoolAssumption DEF Slot
<1>3. active[at] /\ type[at] # Shorn => at \in Active /\ at \notin B
  BY <1>1, <1>2 DEF Built, Unbuilt, Active
<1>4. ASSUME NEW X, Built' = B \cup X, Sound(B \cup X)'
      PROVE  Sound(Built)'
  BY <1>4 DEF Sound
<1>5. ASSUME NEW t \in {Item, Pig}, NEW bufs, Buffers(t) \subseteq bufs, t = Item => bufs = ItemBuffers,
             active[at], type[at] = t, Allocate({at}, bufs), UNCHANGED <<active, type, extraEntity>>
      PROVE  Sound(Built)'
  <2>1. at \in Active /\ at \notin B
    BY <1>3, <1>5, Kinds
  <2>2. Active' = Active \cup {a}
    BY <1>5, <2>1 DEF Active
  <2>3. Taken(B, {a}, t, bufs)
    BY <1>1, <1>5, <2>1, <2>2 DEF Taken, Allocate
  <2>4. Sound(B \cup {a})'
    BY <2>3, OneMade
  <2>5. Built' = B \cup {a}
    BY <1>1, <1>5, <2>1, <2>2, LoadGoesOn
  <2> QED BY <1>4, <2>4, <2>5
<1>6. CASE makeItemLoad
  BY <1>5, <1>6, Kinds DEF makeItemLoad
<1>7. CASE makePigLoad
  BY <1>5, <1>7, Kinds DEF makePigLoad
<1>8. CASE makeSheep2Load
  <2>1. PICK D \in SUBSET Free :
            /\ FirstFree(D, 1) /\ D # {}
            /\ Activate(D)
            /\ Allocate({at} \cup D, MobBuffers)
            /\ type' = [s \in Slot |-> IF s \in D THEN Shorn ELSE type[s]]
            /\ extraEntity' = [extraEntity EXCEPT ![at] = CHOOSE e \in D : TRUE]
    BY <1>8 DEF makeSheep2Load
  <2>2. active[at] /\ type[at] = Sheep
    BY <1>8 DEF makeSheep2Load
  <2>3. IsFiniteSet(D) /\ Cardinality(D) \in Nat
    BY SlotFinite, FS_Subset, FS_CardinalityType DEF Free
  <2>4. Cardinality(D) = 1
    BY <2>1, <2>3, FS_EmptySet DEF FirstFree
  <2>5. PICK y : D = {y}
    BY <2>3, <2>4, FS_Singleton
  <2>6. y \in Slot /\ y \notin Active /\ y # at
    BY <2>1, <2>2, <2>5 DEF Free, Active
  <2>7. y \notin B /\ at \in Active /\ at \notin B
    BY <1>3, <2>2, <2>6, Kinds DEF Built
  <2>8. Active' = Active \cup {a, y}
    <3>1. \A s \in Slot : active'[s] = (s = y \/ active[s])
      BY <2>1, <2>5 DEF Activate
    <3> QED BY <2>6, <2>7, <3>1 DEF Active
  <2>9. (CHOOSE e \in {y} : TRUE) = y
    OBVIOUS
  <2>10. /\ extraEntity' = [extraEntity EXCEPT ![at] = y]
         /\ heap' = Allocated({a, y}, MobBuffers)
    BY <2>1, <2>5, <2>9 DEF Allocate
  <2>11. /\ type'[at] = Sheep /\ type'[y] = Shorn
         /\ \A s \in Slot \ {a, y} : type'[s] = type[s]
    BY <1>1, <2>1, <2>2, <2>5, <2>6
  <2>12. /\ extraEntity'[at] = y
         /\ \A s \in Slot \ {at} : extraEntity'[s] = extraEntity[s]
    BY <1>1, <2>10 DEF TypeOK
  <2>13. PairTaken(B, a, y)
    BY <1>1, <2>6, <2>7, <2>8, <2>10, <2>11, <2>12 DEF PairTaken
  <2>14. Sound(B \cup {a, y})'
    BY <2>13, TwoMade
  <2>15. Built' = B \cup {a, y}
    BY <1>1, <2>6, <2>7, <2>8, <2>11, LoadGoesOn
  <2> QED BY <1>4, <2>14, <2>15
<1>9. CASE LoadNothing
  <2>1. UNCHANGED <<active, type, extraEntity, heap, doubleFree>>
    BY <1>1, <1>9 DEF LoadNothing
  <2>2. at \in Active => at \in B
    <3>1. CASE active[at]
      <4>1. type[at] \in {Sheep, Pig, Item, Shorn}
        BY <1>1, <3>1 DEF Sound, Active
      <4>2. type[at] = Shorn
        BY <1>9, <3>1, <4>1 DEF LoadNothing
      <4> QED BY <1>1, <3>1, <4>2 DEF Built, Unbuilt, Active
    <3>2. CASE ~active[at]
      BY <3>2 DEF Active
    <3> QED BY <3>1, <3>2
  <2>3. Sound(B)'
    BY <2>1, Untouched
  <2>4. Active' = Active
    BY <2>1 DEF Active
  <2>5. Built' = B \cup {}
    BY <1>1, <2>1, <2>2, <2>4, LoadGoesOn
  <2>6. Built' = B
    BY <2>5
  <2> QED BY <2>3, <2>6 DEF Sound
<1> QED BY <1>6, <1>7, <1>8, <1>9

\* When the loop is through, everything is built.
LEMMA AllLoaded ==
    ASSUME EnterWorld
    PROVE  Built = Active
<1>1. \A s \in Slot : ~(s >= entityLength)
  BY PoolAssumption DEF Slot
<1> QED BY <1>1 DEF EnterWorld, Built, Unbuilt, Active

(***************************************************************************)
(* The invariant.                                                          *)
(***************************************************************************)

\* A step that leaves the slots and the buffers alone.
QuietStep ==
    \/ CreateWorld \/ EnterNewWorld \/ EnterWorld \/ Save
    \/ updateEntityReach \/ Pass \/ Graze \/ LookForMates \/ NoMate \/ MatingDone
    \/ MobsUpdated \/ FeedKey \/ NoKey

LEMMA QuietSound ==
    ASSUME TypeOK, Sound(Built), QuietStep
    PROVE  Built' = Active' /\ Sound(Active)' /\ phase' # "menu"
<1> PICK B : B = Active
  OBVIOUS
<1>1. UNCHANGED <<active, type, extraEntity, heap, doubleFree>>
  BY DEF QuietStep, CreateWorld, EnterNewWorld, EnterWorld, Save, updateEntityReach, Pass,
         Graze, LookForMates, NoMate, MatingDone, MobsUpdated, FeedKey, NoKey,
         UpdateNext, list, spoil
<1>2. phase' \notin {"menu", "loading"}
  BY DEF QuietStep, CreateWorld, EnterNewWorld, EnterWorld, Save, updateEntityReach, Pass,
         Graze, LookForMates, NoMate, MatingDone, MobsUpdated, FeedKey, NoKey,
         UpdateNext, loop
<1>3. Built = Active
  <2>1. CASE EnterWorld
    BY <2>1, AllLoaded
  <2>2. CASE ~EnterWorld
    <3>1. phase # "loading"
      BY <2>2 DEF QuietStep, CreateWorld, EnterNewWorld, Save, updateEntityReach, Pass,
         Graze, LookForMates, NoMate, MatingDone, MobsUpdated, FeedKey, NoKey, UpdateNext
    <3> QED BY <3>1, AllBuilt
  <2> QED BY <2>1, <2>2
<1>4. Active' = B
  BY <1>1 DEF Active
<1>5. Sound(B)'
  BY <1>1, <1>3, Untouched
<1>6. Built' = Active'
  BY <1>2 DEF Built, Unbuilt
<1> QED BY <1>2, <1>4, <1>5, <1>6 DEF Sound

\* A step of the game, or of the screen that creates a world, that makes an
\* entity or takes one away.
HerdStep == Generate \/ MakeKey \/ updateMap \/ Breed \/ ShearKey
            \/ SheepDies \/ PigDies \/ PickUp

LEMMA HerdSound ==
    ASSUME TypeOK, ~LastSlotSheep, Sound(Built), HerdStep
    PROVE  Built' = Active' /\ Sound(Active)' /\ phase' # "menu"
<1>1. phase \notin {"menu", "loading"}
  BY DEF HerdStep, Generate, MakeKey, updateMap, Breed, ShearKey, SheepDies, PigDies, PickUp,
         UpdateNext
<1>2. phase' \notin {"menu", "loading"}
  BY DEF HerdStep, Generate, MakeKey, updateMap, Breed, ShearKey, SheepDies, PigDies, PickUp,
         UpdateNext, loop
<1>3. Built = Active
  BY <1>1, AllBuilt
<1>4. Built' = Active'
  BY <1>2 DEF Built, Unbuilt
<1>5. Sound(Active)
  BY <1>3
<1>6. CASE Generate \/ MakeKey \/ updateMap \/ Breed \/ ShearKey
  <2>1. makeItem \/ makePig \/ makeSheep2
    BY <1>6 DEF Generate, MakeKey, updateMap, Breed, ShearKey, Make
  <2> QED BY <1>2, <1>4, <1>5, <2>1, MadeSound
<1>7. CASE SheepDies
  BY <1>2, <1>4, <1>5, <1>7, SheepDiesSound
<1>8. CASE PigDies
  BY <1>2, <1>4, <1>5, <1>8, PigDiesSound
<1>9. CASE PickUp
  BY <1>2, <1>4, <1>5, <1>9, PickUpSound
<1> QED BY <1>6, <1>7, <1>8, <1>9 DEF HerdStep

\* What is written to a file is known.
LEMMA SavedStaysKnown ==
    ASSUME IInv, Next
    PROVE  SavedKnown'
<1>1. CASE saved' = saved
  BY <1>1 DEF IInv, SavedKnown
<1>2. CASE saved' = EntityData /\ phase # "loading"
  <2>1. \A s \in Active : type[s] \in {Sheep, Pig, Item, Shorn}
    BY DEF IInv, Sound
  <2>2. \A s \in Slot : EntityData[s].active =>
            active[s] /\ type[s] # Shorn /\ EntityData[s].type = type[s]
    BY DEF EntityData
  <2> QED BY <1>2, <2>1, <2>2 DEF SavedKnown, Active
<1>3. saved' = saved \/ (saved' = EntityData /\ phase # "loading")
  <2>1. CASE EnterNewWorld \/ Save \/ SaveAndQuit
    BY <2>1 DEF EnterNewWorld, Save, SaveAndQuit
  <2>2. CASE loadEntityData \/ makeSheep2Load \/ makePigLoad \/ makeItemLoad \/ LoadNothing
             \/ EnterWorld \/ CreateWorld \/ Quit
    BY <2>2 DEF loadEntityData, makeSheep2Load, makePigLoad, makeItemLoad, LoadNothing, LoadNext,
                EnterWorld, CreateWorld, Quit
  <2>3. CASE Generate \/ MakeKey \/ updateMap \/ Breed \/ ShearKey \/ FeedKey \/ NoKey
    BY <2>3 DEF Generate, MakeKey, updateMap, Breed, ShearKey, FeedKey, NoKey
  <2>4. CASE updateEntityReach \/ Pass \/ Graze \/ LookForMates \/ NoMate \/ MatingDone
             \/ MobsUpdated \/ SheepDies \/ PigDies \/ PickUp
    BY <2>4 DEF updateEntityReach, Pass, Graze, LookForMates, NoMate, MatingDone, MobsUpdated,
                SheepDies, PigDies, PickUp, UpdateNext
  <2> QED BY <2>1, <2>2, <2>3, <2>4 DEF Next
<1> QED BY <1>1, <1>2, <1>3

\* Every step keeps the invariant.
LEMMA InvariantStep ==
    ASSUME ~LastSlotSheep, IInv, [Next]_vars
    PROVE  IInv'
<1>1. TypeOK /\ TypeOK'
  BY TypeStep DEF IInv
<1>2. CASE UNCHANGED vars
  <2> PICK B : B = Built
    OBVIOUS
  <2>1. Built' = B /\ Active' = Active /\ phase' = phase /\ SavedKnown'
    BY <1>2 DEF vars, Built, Unbuilt, Active, SavedKnown, IInv
  <2>2. Sound(B)'
    BY <1>2, Untouched DEF vars, IInv
  <2> QED BY <1>1, <2>1, <2>2 DEF IInv, Sound
<1>3. CASE Next
  <2>1. SavedKnown'
    BY <1>3, SavedStaysKnown
  <2>2. ASSUME Built' = Active', Sound(Active)', phase' = "menu" => Active' = {}
        PROVE  IInv'
    BY <1>1, <2>1, <2>2 DEF IInv, Sound
  <2>3. CASE QuietStep
    BY <1>1, <2>2, <2>3, QuietSound DEF IInv
  <2>4. CASE HerdStep
    BY <1>1, <2>2, <2>4, HerdSound DEF IInv
  <2>5. CASE SaveAndQuit \/ Quit
    <3>1. clearAllEntitys /\ phase # "loading" /\ phase' = "menu"
      BY <2>5 DEF SaveAndQuit, Quit
    <3>2. Sound(Active)
      BY <3>1, AllBuilt DEF IInv
    <3>3. Active' = {} /\ Sound({})'
      BY <1>1, <3>1, <3>2, ClearedSound
    <3>4. Built' = Active'
      BY <3>1 DEF Built, Unbuilt
    <3> QED BY <2>2, <3>3, <3>4 DEF Sound
  <2>6. CASE loadEntityData
    <3>1. phase = "menu" /\ phase' = "loading"
      BY <2>6 DEF loadEntityData
    <3>2. Built = {}
      BY <3>1, AllBuilt DEF IInv
    <3>3. Built' = {} /\ Sound({})'
      BY <1>1, <2>6, <3>2, LoadStarts DEF IInv
    <3> QED BY <1>1, <2>1, <3>1, <3>3 DEF IInv, Sound
  <2>7. CASE makeSheep2Load \/ makePigLoad \/ makeItemLoad \/ LoadNothing
    <3>1. Sound(Built)'
      BY <1>1, <2>7, LoadedSound DEF IInv
    <3>2. phase' = "loading"
      BY <2>7 DEF makeSheep2Load, makePigLoad, makeItemLoad, LoadNothing, LoadNext
    <3> QED BY <1>1, <2>1, <3>1, <3>2 DEF IInv
  <2> QED BY <1>3, <2>3, <2>4, <2>5, <2>6, <2>7 DEF Next, QuietStep, HerdStep
<1> QED BY <1>2, <1>3

\* It holds of the first state.
LEMMA InvariantInit == Init => IInv
<1> SUFFICES ASSUME Init PROVE IInv
  OBVIOUS
<1>1. TypeOK
  BY InitTyped
<1>2. Active = {} /\ Built = {}
  BY DEF Init, Active, Built
<1>3. Sound({})
  BY <1>2 DEF Init, Sound
<1>4. SavedKnown
  BY DEF Init, SavedKnown, Unsaved
<1> QED BY <1>1, <1>2, <1>3, <1>4 DEF IInv

\* A mob or an item never goes without its buffers, none of them is given
\* back twice, no sheep shares its second mesh or loses it, and a free slot
\* keeps no more than the two buffers of clearAllEntitys: for every number
\* of slots, as long as no sheep is made in the last free one.
THEOREM PoolSafe ==
    ASSUME ~LastSlotSheep
    PROVE  Spec => []PoolSound
<1>1. Init => IInv
  BY InvariantInit
<1>2. IInv /\ [Next]_vars => IInv'
  BY InvariantStep
<1>3. IInv => PoolSound
  BY SoundMeans DEF IInv, PoolSound
<1> QED BY <1>1, <1>2, <1>3, PTL DEF Spec

----------------------------------------------------------------------------
(***************************************************************************)
(* What the slots show from outside: that the pool implements a herd, that *)
(* usedEntitys counts its slots, and that every birth was fed.             *)
(***************************************************************************)

(***************************************************************************)
(* Food.                                                                   *)
(***************************************************************************)

Fed == {s \in Slot : isFed[s]}

FoodInv == TypeOK /\ births + Cardinality(Fed) <= feeds

LEMMA FedFinite ==
    /\ IsFiniteSet(Fed) /\ Cardinality(Fed) \in Nat
    /\ IsFiniteSet(Fed') /\ Cardinality(Fed') \in Nat
<1>1. Fed \in SUBSET Slot /\ Fed' \in SUBSET Slot
  BY DEF Fed
<1> QED BY <1>1, SlotFinite, FS_Subset, FS_CardinalityType

\* Two mobs that mate are two feedings or, if the first has mated before in
\* the same search, at least one: the mate's.
LEMMA BreedFed ==
    ASSUME FoodInv, Breed
    PROVE  births' + Cardinality(Fed') <= feeds'
<1>1. mate \in Fed /\ UNCHANGED feeds
  BY DEF Breed, CanMate, Fed
<1>2. births' \in {births, births + 1}
  BY DEF Breed, FoodInv, TypeOK
<1>3. Fed' \in SUBSET (Fed \ {mate})
  <2> DEFINE one == [isFed EXCEPT ![mate] = FALSE]
  <2>1. one \in [Slot -> BOOLEAN] /\ isFed' = [one EXCEPT ![at] = FALSE]
    BY DEF Breed, FoodInv, TypeOK
  <2>2. \A s \in Slot : one[s] => isFed[s] /\ s # mate
    BY DEF FoodInv, TypeOK
  <2> HIDE DEF one
  <2>3. \A s \in Slot : isFed'[s] => one[s]
    BY <2>1
  <2> QED BY <2>2, <2>3 DEF Fed
<1>4. Cardinality(Fed \ {mate}) = Cardinality(Fed) - 1 /\ IsFiniteSet(Fed \ {mate})
  BY <1>1, FedFinite, FS_RemoveElement
<1>5. Cardinality(Fed') <= Cardinality(Fed) - 1
  BY <1>3, <1>4, FS_Subset
<1> QED BY <1>1, <1>2, <1>5, FedFinite DEF FoodInv, TypeOK

LEMMA FeedFed ==
    ASSUME FoodInv, FeedKey
    PROVE  births' + Cardinality(Fed') <= feeds'
<1>1. Fed' = Fed \cup {target}
  BY DEF FeedKey, Fed, FoodInv, TypeOK
<1>2. Cardinality(Fed') <= Cardinality(Fed) + 1
  BY <1>1, FedFinite, FS_AddElement
<1> QED BY <1>2, FedFinite DEF FeedKey, FoodInv, TypeOK

LEMMA FoodStep ==
    ASSUME FoodInv, [Next]_vars
    PROVE  FoodInv'
<1>1. TypeOK'
  BY TypeStep DEF FoodInv
<1>2. CASE Breed
  BY <1>1, <1>2, BreedFed DEF FoodInv
<1>3. CASE FeedKey
  BY <1>1, <1>3, FeedFed DEF FoodInv
<1>4. CASE SaveAndQuit \/ Quit
  <2>1. Fed' \in SUBSET Fed
    BY <1>4 DEF SaveAndQuit, Quit, clearAllEntitys, Fed
  <2>2. Cardinality(Fed') <= Cardinality(Fed)
    BY <2>1, FedFinite, FS_Subset
  <2> QED BY <1>1, <1>4, <2>2, FedFinite DEF SaveAndQuit, Quit, FoodInv, TypeOK, tally
<1>5. ASSUME UNCHANGED <<isFed, feeds, births>>
      PROVE  FoodInv'
  BY <1>1, <1>5 DEF FoodInv, Fed
<1>6. CASE Generate \/ MakeKey \/ updateMap \/ ShearKey \/ NoKey
           \/ CreateWorld \/ EnterNewWorld \/ EnterWorld \/ Save
  BY <1>5, <1>6 DEF Generate, MakeKey, updateMap, ShearKey, NoKey,
                    CreateWorld, EnterNewWorld, EnterWorld, Save, list, tally
<1>7. CASE loadEntityData \/ makeSheep2Load \/ makePigLoad \/ makeItemLoad \/ LoadNothing
  BY <1>5, <1>7 DEF loadEntityData, makeSheep2Load, makePigLoad, makeItemLoad, LoadNothing,
                    LoadNext, tally
<1>8. CASE updateEntityReach \/ Pass \/ Graze \/ LookForMates \/ NoMate \/ MatingDone
           \/ MobsUpdated \/ SheepDies \/ PigDies \/ PickUp
  BY <1>5, <1>8 DEF updateEntityReach, Pass, Graze, LookForMates, NoMate, MatingDone,
                    MobsUpdated, SheepDies, PigDies, PickUp, UpdateNext, list, tally
<1>9. CASE UNCHANGED vars
  BY <1>5, <1>9 DEF vars
<1> QED BY <1>2, <1>3, <1>4, <1>6, <1>7, <1>8, <1>9 DEF Next

\* No course of births, deaths, reused slots and reloaded worlds gives more
\* young than there were feedings, whatever the size of the pool.
THEOREM FoodCorrect == Spec => []FoodForEveryBirth
<1>1. Init => FoodInv
  <2> SUFFICES ASSUME Init PROVE FoodInv
    OBVIOUS
  <2>1. Fed = {}
    BY DEF Init, Fed
  <2>2. Cardinality(Fed) = 0
    BY <2>1, FS_EmptySet
  <2>3. feeds = 0 /\ births = 0
    BY DEF Init
  <2>4. births + Cardinality(Fed) <= feeds
    BY <2>2, <2>3
  <2> QED BY <2>4, InitTyped DEF FoodInv
<1>2. FoodInv /\ [Next]_vars => FoodInv'
  BY FoodStep
<1>3. FoodInv => FoodForEveryBirth
  BY DEF FoodInv, Fed, FoodForEveryBirth
<1> QED BY <1>1, <1>2, <1>3, PTL DEF Spec

(***************************************************************************)
(* The herd.                                                               *)
(***************************************************************************)

\* Who is in a slot, and who was when the world was saved.
Here(s)  == Kind(active[s], type[s], hasFur[s])
There(s) == Kind(saved[s].active, saved[s].type, saved[s].hasFur)

Abstract == TheHerd!Next \/ UNCHANGED TheHerd!vars

LEMMA SameSize == \A S : TheHerd!Cardinality(S) = Cardinality(S)
  BY DEF Cardinality, TheHerd!Cardinality

\* The steps of a herd, slot by slot.
LEMMA Stutters ==
    ASSUME \A s \in Slot : Here(s)' = Here(s), saved' = saved
    PROVE  Abstract
  BY DEF Here, Abstract, TheHerd!vars

LEMMA Appears ==
    ASSUME NEW p \in Slot, Here(p) = "none", NEW c \in {"item", "pig", "sheep"},
           \A s \in Slot : Here(s)' = IF s = p THEN c ELSE Here(s),
           saved' = saved
    PROVE  Abstract
<1>1. TheHerd!Appear
  BY DEF Here, TheHerd!Appear, TheHerd!Empty
<1> QED BY <1>1 DEF Abstract, TheHerd!Next

LEMMA Departs ==
    ASSUME NEW p \in Slot, Here(p) # "none", NEW D \in SUBSET Slot,
           \A s \in D : Here(s) = "none",
           Cardinality(D) <= 2,
           \A s \in Slot : Here(s)' = IF s \in D THEN "item"
                                     ELSE IF s = p THEN "none" ELSE Here(s),
           saved' = saved
    PROVE  Abstract
<1>1. /\ p \in Slot \ TheHerd!Empty
      /\ D \in SUBSET TheHerd!Empty
  BY DEF Here, TheHerd!Empty
<1>2. [s \in Slot |-> Here(s)'] = [s \in Slot |-> IF s \in D THEN "item"
                                               ELSE IF s = p THEN "none" ELSE Here(s)]
  OBVIOUS
<1>3. TheHerd!Depart
  BY <1>1, <1>2, SameSize DEF Here, TheHerd!Depart
<1> QED BY <1>3 DEF Abstract, TheHerd!Next

LEMMA Shears ==
    ASSUME NEW p \in Slot, Here(p) = "sheep", NEW D \in SUBSET Slot,
           \A s \in D : Here(s) = "none",
           Cardinality(D) <= 1,
           \A s \in Slot : Here(s)' = IF s \in D THEN "item"
                                     ELSE IF s = p THEN "shorn" ELSE Here(s),
           saved' = saved
    PROVE  Abstract
<1>1. D \in SUBSET TheHerd!Empty
  BY DEF Here, TheHerd!Empty
<1>2. [s \in Slot |-> Here(s)'] = [s \in Slot |-> IF s \in D THEN "item"
                                               ELSE IF s = p THEN "shorn" ELSE Here(s)]
  OBVIOUS
<1>3. TheHerd!Shear
  BY <1>1, <1>2, SameSize DEF Here, TheHerd!Shear
<1> QED BY <1>3 DEF Abstract, TheHerd!Next

\* The searches for one slot find none or one.
LEMMA OneFree ==
    ASSUME NEW D \in SUBSET Free, NEW n \in Nat, FirstFree(D, n)
    PROVE  /\ IsFiniteSet(D) /\ Cardinality(D) \in Nat /\ Cardinality(D) <= n
           /\ n = 1 => D = {} \/ \E d \in Free : D = {d}
<1>1. IsFiniteSet(D) /\ Cardinality(D) \in Nat /\ Cardinality(D) <= n
  BY SlotFinite, FS_Subset, FS_CardinalityType DEF Free, FirstFree
<1>2. ASSUME n = 1
      PROVE  D = {} \/ \E d \in Free : D = {d}
  <2>1. Cardinality(D) = 0 \/ Cardinality(D) = 1
    BY <1>1, <1>2
  <2>2. CASE Cardinality(D) = 0
    BY <1>1, <2>2, FS_EmptySet
  <2>3. CASE Cardinality(D) = 1
    BY <1>1, <2>3, FS_Singleton
  <2> QED BY <2>1, <2>2, <2>3
<1> QED BY <1>1, <1>2

\* An item, a pig or a sheep is made in a free slot, or nothing is.  A second
\* mesh is nobody.
LEMMA MadeAppears ==
    ASSUME TypeOK, ~LastSlotSheep, saved' = saved,
           \/ makeItem /\ UNCHANGED hasFur
           \/ makePig
           \/ makeSheep2
    PROVE  Abstract
<1>1. ASSUME NEW D \in SUBSET Free, NEW t \in {Item, Pig}, FirstFree(D, 1), Activate(D),
             type' = [s \in Slot |-> IF s \in D THEN t ELSE type[s]], UNCHANGED hasFur
      PROVE  Abstract
  <2>1. CASE D = {}
    <3>1. active' = active /\ type' = type
      BY <1>1, <2>1 DEF Activate, TypeOK
    <3> QED BY <1>1, <3>1, Stutters DEF Here
  <2>2. ASSUME NEW d \in Free, D = {d}
        PROVE  Abstract
    <3>1. Here(d) = "none" /\ d \in Slot
      BY DEF Free, Here, Kind
    <3>2. \A s \in Slot : Here(s)' = IF s = d THEN (IF t = Pig THEN "pig" ELSE "item")
                                    ELSE Here(s)
      <4>1. \A s \in Slot : /\ active'[s] = (s = d \/ active[s])
                            /\ type'[s] = IF s = d THEN t ELSE type[s]
        BY <1>1, <2>2 DEF Activate
      <4> QED BY <1>1, <3>1, <4>1, Kinds DEF Here, Kind
    <3> QED BY <3>1, <3>2, Appears
  <2> QED BY <1>1, <2>1, <2>2, OneFree
<1>2. CASE makeItem /\ UNCHANGED hasFur
  BY <1>1, <1>2 DEF makeItem
<1>3. CASE makePig
  BY <1>1, <1>3 DEF makePig
<1>4. CASE makeSheep2
  <2> PICK D \in SUBSET Free : makeSheep2!(D)
    BY <1>4 DEF makeSheep2
  <2>1. CASE D = {}
    <3>1. active' = active /\ type' = type /\ hasFur' = hasFur
      BY <2>1 DEF Activate, TypeOK
    <3> QED BY <3>1, Stutters DEF Here
  <2>2. CASE D # {}
    <3>1. PICK x, y \in Free : x # y /\ D = {x, y} /\ {d \in D : First(d, D)} = {x}
      BY <2>2, TwoFree
    <3>2. D \ {d \in D : First(d, D)} = {y}
      BY <3>1
    <3>3. \A s \in Slot : /\ active'[s] = (s = x \/ s = y \/ active[s])
                          /\ type'[s] = IF s = x THEN Sheep ELSE IF s = y THEN Shorn ELSE type[s]
                          /\ hasFur'[s] = (s = x \/ hasFur[s])
      BY <3>1, <3>2 DEF Activate
    <3>4. x \in Slot /\ y \in Slot /\ ~active[x] /\ ~active[y]
      BY <3>1 DEF Free
    <3>5. Here(x) = "none" /\ Here(y) = "none"
      BY <3>4 DEF Here, Kind
    <3>6. \A s \in Slot : Here(s)' = IF s = x THEN "sheep" ELSE Here(s)
      <4> SUFFICES ASSUME NEW s \in Slot
                   PROVE  Here(s)' = IF s = x THEN "sheep" ELSE Here(s)
        OBVIOUS
      <4>1. CASE s = x
        BY <3>3, <4>1, Kinds DEF Here, Kind
      <4>2. CASE s = y
        BY <3>1, <3>3, <3>5, <4>2, Kinds DEF Here, Kind
      <4>3. CASE s # x /\ s # y
        BY <3>3, <4>3 DEF Here, TypeOK
      <4> QED BY <4>1, <4>2, <4>3
    <3> QED BY <3>4, <3>5, <3>6, Appears
  <2> QED BY <2>1, <2>2
<1> QED BY <1>2, <1>3, <1>4

\* The items a dying or sheared animal leaves: in slots that were free.
LEMMA LeftBehind ==
    ASSUME NEW D \in SUBSET Free, NEW n \in Nat, FirstFree(D, n)
    PROVE  /\ D \in SUBSET Slot /\ Cardinality(D) \in Nat /\ Cardinality(D) <= n
           /\ \A s \in D : Here(s) = "none"
<1>1. D \in SUBSET Slot /\ \A s \in D : Here(s) = "none"
  BY DEF Free, Here, Kind
<1> QED BY <1>1, OneFree

LEMMA SheepDeparts ==
    ASSUME TypeOK, Sound(Active), SheepDies
    PROVE  Abstract
<1> DEFINE e == extraEntity[at]
           n == IF hasFur[at] THEN 1 ELSE 0
<1>1. PICK D \in SUBSET Free :
        /\ FirstFree(D, n)
        /\ active' = [s \in Slot |-> s \notin {at, e} /\ (s \in D \/ active[s])]
        /\ type' = [s \in Slot |-> IF s \in D THEN Item ELSE type[s]]
  BY DEF SheepDies
<1>2. /\ at \in Slot /\ active[at] /\ type[at] = Sheep
      /\ hasFur' = hasFur /\ saved' = saved
  BY DEF SheepDies, UpdateNext
<1>3. e \in Slot /\ active[e] /\ type[e] = Shorn
  BY <1>2 DEF Sound, Active
<1>4. at \notin D /\ e \notin D
  BY <1>2, <1>3 DEF Free
<1>5. /\ D \in SUBSET Slot /\ Cardinality(D) <= 2
      /\ \A s \in D : Here(s) = "none"
  <2>1. n \in Nat /\ n <= 1
    OBVIOUS
  <2> HIDE DEF n
  <2> QED BY <1>1, <2>1, LeftBehind
<1>6. Here(at) # "none"
  BY <1>2, Kinds DEF Here, Kind
<1>7. ASSUME NEW s \in Slot
      PROVE  Here(s)' = IF s \in D THEN "item" ELSE IF s = at THEN "none" ELSE Here(s)
  <2>1. CASE s \in D
    BY <1>1, <1>2, <1>4, <2>1, Kinds DEF Here, Kind
  <2>2. CASE s = at
    BY <1>1, <1>2, <1>4, <2>2 DEF Here, Kind
  <2>3. CASE s = e /\ s # at
    BY <1>1, <1>3, <1>4, <2>3 DEF Here, Kind
  <2>4. CASE s \notin D /\ s # at /\ s # e
    <3>1. active'[s] = active[s] /\ type'[s] = type[s]
      BY <1>1, <2>4 DEF TypeOK
    <3> QED BY <1>2, <2>4, <3>1 DEF Here
  <2> QED BY <2>1, <2>2, <2>3, <2>4
<1> QED BY <1>2, <1>5, <1>6, <1>7, Departs

LEMMA PigDeparts ==
    ASSUME TypeOK, PigDies
    PROVE  Abstract
<1>1. PICK D \in SUBSET Free, n \in {1, 2} :
        /\ FirstFree(D, n)
        /\ active' = [s \in Slot |-> s # at /\ (s \in D \/ active[s])]
        /\ type' = [s \in Slot |-> IF s \in D THEN Item ELSE type[s]]
  BY DEF PigDies
<1>2. /\ at \in Slot /\ active[at] /\ type[at] = Pig
      /\ hasFur' = hasFur /\ saved' = saved
  BY DEF PigDies, UpdateNext
<1>3. at \notin D
  BY <1>2 DEF Free
<1>4. /\ D \in SUBSET Slot /\ Cardinality(D) <= 2
      /\ \A s \in D : Here(s) = "none"
  BY <1>1, LeftBehind
<1>5. Here(at) # "none"
  BY <1>2, Kinds DEF Here, Kind
<1>6. ASSUME NEW s \in Slot
      PROVE  Here(s)' = IF s \in D THEN "item" ELSE IF s = at THEN "none" ELSE Here(s)
  <2>1. CASE s \in D
    BY <1>1, <1>2, <1>3, <2>1, Kinds DEF Here, Kind
  <2>2. CASE s = at
    BY <1>1, <1>2, <1>3, <2>2 DEF Here, Kind
  <2>3. CASE s \notin D /\ s # at
    <3>1. active'[s] = active[s] /\ type'[s] = type[s]
      BY <1>1, <2>3 DEF TypeOK
    <3> QED BY <1>2, <2>3, <3>1 DEF Here
  <2> QED BY <2>1, <2>2, <2>3
<1> QED BY <1>2, <1>4, <1>5, <1>6, Departs

LEMMA ItemDeparts ==
    ASSUME TypeOK, PickUp
    PROVE  Abstract
<1>1. /\ at \in Slot /\ active[at] /\ type[at] = Item
      /\ hasFur' = hasFur /\ saved' = saved
      /\ active' = [active EXCEPT ![at] = FALSE]
      /\ type' = [type EXCEPT ![at] = None]
  BY DEF PickUp, UpdateNext
<1>2. Here(at) # "none"
  BY <1>1, Kinds DEF Here, Kind
<1>3. \A s \in Slot : Here(s)' = IF s \in {} THEN "item" ELSE IF s = at THEN "none" ELSE Here(s)
  BY <1>1 DEF Here, Kind, TypeOK
<1>4. Cardinality({}) <= 2
  BY FS_EmptySet
<1>5. \A s \in {} : Here(s) = "none"
  OBVIOUS
<1> QED BY <1>1, <1>2, <1>3, <1>4, <1>5, Departs

\* The shears act on what was seen before the mobs were updated: a sheep, or
\* the slot of one that died since, where the fleece may come to lie.
LEMMA FleeceTaken ==
    ASSUME TypeOK, ShearKey
    PROVE  Abstract
<1>1. /\ target \in Slot /\ type[target] = Sheep /\ hasFur[target]
      /\ hasFur' = [hasFur EXCEPT ![target] = FALSE]
      /\ saved' = saved /\ target' = target /\ makeItem
  BY DEF ShearKey
<1>2. PICK D \in SUBSET Free :
        /\ FirstFree(D, 1) /\ Activate(D)
        /\ type' = [s \in Slot |-> IF s \in D THEN Item ELSE type[s]]
  BY <1>1 DEF makeItem
<1>3. /\ D \in SUBSET Slot /\ Cardinality(D) <= 1
      /\ \A s \in D : Here(s) = "none"
  BY <1>2, LeftBehind
<1>4. \A s \in D : Here(s)' = "item"
  BY <1>2, <1>3, Kinds DEF Activate, Here, Kind
<1>5. \A s \in Slot \ (D \cup {target}) : Here(s)' = Here(s)
  BY <1>1, <1>2 DEF Activate, Here, TypeOK
<1>6. target \notin D => active'[target] = active[target] /\ type'[target] = Sheep
  BY <1>1, <1>2 DEF Activate, TypeOK
<1>7. ~hasFur'[target]
  BY <1>1 DEF TypeOK
<1>8. CASE active[target]
  <2>1. Here(target) = "sheep" /\ target \notin D
    BY <1>1, <1>8, Kinds DEF Here, Kind, Free
  <2>2. Here(target)' = "shorn"
    BY <1>1, <1>6, <1>7, <1>8, <2>1, Kinds DEF Here, Kind
  <2>3. \A s \in Slot : Here(s)' = IF s \in D THEN "item" ELSE IF s = target THEN "shorn" ELSE Here(s)
    BY <1>1, <1>4, <1>5, <2>2
  <2> QED BY <1>1, <1>3, <2>1, <2>3, Shears
<1>9. CASE ~active[target]
  <2>1. target \notin D => Here(target)' = Here(target)
    BY <1>1, <1>6, <1>9 DEF Here, Kind
  <2>2. \A s \in Slot : Here(s)' = IF s \in D THEN "item" ELSE Here(s)
    BY <1>1, <1>4, <1>5, <2>1
  <2>3. CASE D = {}
    BY <1>1, <2>2, <2>3, Stutters
  <2>4. ASSUME NEW d \in Free, D = {d}
        PROVE  Abstract
    <3>1. d \in Slot /\ Here(d) = "none"
      BY <1>3, <2>4
    <3>2. \A s \in Slot : Here(s)' = IF s = d THEN "item" ELSE Here(s)
      BY <2>2, <2>4
    <3> QED BY <1>1, <3>1, <3>2, Appears
  <2> QED BY <1>2, <2>3, <2>4, OneFree
<1> QED BY <1>8, <1>9

\* What the file says is there from the first step of loading on; what is
\* built then are buffers and second meshes.
LEMMA BuiltUnseen ==
    ASSUME TypeOK, makeSheep2Load \/ makePigLoad \/ makeItemLoad \/ LoadNothing
    PROVE  Abstract
<1>1. hasFur' = hasFur /\ saved' = saved
  BY DEF makeSheep2Load, makePigLoad, makeItemLoad, LoadNothing, LoadNext
<1>2. CASE makeSheep2Load
  <2>1. PICK D \in SUBSET Free :
          /\ Activate(D)
          /\ type' = [s \in Slot |-> IF s \in D THEN Shorn ELSE type[s]]
    BY <1>2 DEF makeSheep2Load
  <2>2. ASSUME NEW s \in Slot
        PROVE  Here(s)' = Here(s)
    <3>1. CASE s \in D
      BY <2>1, <3>1 DEF Here, Kind, Free
    <3>2. CASE s \notin D
      BY <1>1, <2>1, <3>2 DEF Activate, Here, TypeOK
    <3> QED BY <3>1, <3>2
  <2> QED BY <1>1, <2>2, Stutters
<1>3. CASE makePigLoad \/ makeItemLoad \/ LoadNothing
  <2>1. active' = active /\ type' = type
    BY <1>3 DEF makePigLoad, makeItemLoad, LoadNothing
  <2> QED BY <1>1, <2>1, Stutters DEF Here
<1> QED BY <1>2, <1>3

\* The file: an empty slot for a second mesh, and nothing of what is in a
\* free slot.
LEMMA FileKeeps == \A s \in Slot : Kind(EntityData[s].active, EntityData[s].type,
                                        EntityData[s].hasFur) = Here(s)
<1> SUFFICES ASSUME NEW s \in Slot
             PROVE  Kind(EntityData[s].active, EntityData[s].type, EntityData[s].hasFur) = Here(s)
  OBVIOUS
<1>1. CASE type[s] = Shorn
  <2>1. EntityData[s].active = FALSE
    BY <1>1 DEF EntityData
  <2> QED BY <1>1, <2>1 DEF Here, Kind
<1>2. CASE type[s] # Shorn
  <2>1. /\ EntityData[s].active = active[s] /\ EntityData[s].type = type[s]
        /\ EntityData[s].hasFur = (type[s] = Sheep /\ hasFur[s])
    BY <1>2 DEF EntityData
  <2> QED BY <1>2, <2>1 DEF Here, Kind
<1> QED BY <1>1, <1>2

LEMMA HerdStored ==
    ASSUME TypeOK, phase = "menu" => Active = {},
           EnterNewWorld \/ Save \/ SaveAndQuit \/ Quit \/ loadEntityData
    PROVE  Abstract
<1>1. ASSUME saved' = EntityData
      PROVE  [s \in Slot |-> There(s)'] = [s \in Slot |-> Here(s)]
  BY <1>1, FileKeeps DEF There
<1>2. ASSUME clearAllEntitys
      PROVE  [s \in Slot |-> Here(s)'] = [s \in Slot |-> "none"]
  BY <1>2 DEF clearAllEntitys, Here, Kind
<1>3. CASE EnterNewWorld \/ Save
  <2>1. saved' = EntityData /\ UNCHANGED list
    BY <1>3 DEF EnterNewWorld, Save
  <2>2. TheHerd!Keep
    BY <1>1, <2>1 DEF TheHerd!Keep, Here, There, list
  <2> QED BY <2>2 DEF Abstract, TheHerd!Next
<1>4. CASE SaveAndQuit
  <2>1. saved' = EntityData /\ clearAllEntitys
    BY <1>4 DEF SaveAndQuit
  <2>2. TheHerd!KeepAndLeave
    BY <1>1, <1>2, <2>1 DEF TheHerd!KeepAndLeave, TheHerd!Nobody, Here, There
  <2> QED BY <2>2 DEF Abstract, TheHerd!Next
<1>5. CASE Quit
  <2>1. saved' = saved /\ clearAllEntitys
    BY <1>5 DEF Quit
  <2>2. TheHerd!Leave
    BY <1>2, <2>1 DEF TheHerd!Leave, TheHerd!Nobody, Here
  <2> QED BY <2>2 DEF Abstract, TheHerd!Next
<1>6. CASE loadEntityData
  <2>1. /\ saved' = saved /\ Active = {}
        /\ active' = [s \in Slot |-> saved[s].active]
        /\ type' = [s \in Slot |-> saved[s].type]
        /\ hasFur' = [s \in Slot |-> saved[s].hasFur]
    BY <1>6 DEF loadEntityData
  <2>2. [s \in Slot |-> Here(s)] = [s \in Slot |-> "none"]
    BY <2>1 DEF Active, Here, Kind
  <2>3. [s \in Slot |-> Here(s)'] = [s \in Slot |-> There(s)]
    BY <2>1 DEF Here, There
  <2>4. TheHerd!Return
    BY <2>1, <2>2, <2>3 DEF TheHerd!Return, TheHerd!Nobody, Here, There
  <2> QED BY <2>4 DEF Abstract, TheHerd!Next
<1> QED BY <1>3, <1>4, <1>5, <1>6

LEMMA FleeceGrows ==
    ASSUME TypeOK, Graze
    PROVE  Abstract
<1>1. /\ at \in Slot /\ active[at] /\ type[at] = Sheep
      /\ hasFur' = [hasFur EXCEPT ![at] = TRUE]
      /\ active' = active /\ type' = type /\ saved' = saved /\ at' = at
  BY DEF Graze, loop
<1>2. CASE hasFur[at]
  BY <1>1, <1>2, Stutters DEF Here, TypeOK
<1>3. CASE ~hasFur[at]
  <2>1. Here(at) = "shorn"
    BY <1>1, <1>3, Kinds DEF Here, Kind
  <2>2. Here(at)' = "sheep"
    BY <1>1, Kinds DEF Here, Kind, TypeOK
  <2>3. [s \in Slot |-> Here(s)'] = [s \in Slot |-> IF s = at THEN "sheep" ELSE Here(s)]
    BY <1>1, <2>2 DEF Here, TypeOK
  <2>4. TheHerd!Regrow
    BY <1>1, <2>1, <2>3 DEF TheHerd!Regrow, Here
  <2> QED BY <2>4 DEF Abstract, TheHerd!Next
<1> QED BY <1>2, <1>3

LEMMA HerdKept ==
    ASSUME ~LastSlotSheep, IInv, [Next]_vars
    PROVE  Abstract
<1>1. TypeOK /\ (phase = "menu" => Active = {})
  BY DEF IInv
<1>2. CASE Generate \/ MakeKey \/ updateMap
  <2>1. saved' = saved /\ \E kind \in {Sheep, Pig, Item} : Make(kind)
    BY <1>2 DEF Generate, MakeKey, updateMap
  <2> QED BY <1>1, <2>1, MadeAppears DEF Make
<1>3. CASE Breed
  BY <1>1, <1>3, MadeAppears DEF Breed
<1>4. CASE SheepDies
  <2>1. Sound(Active)
    BY <1>4, AllBuilt DEF IInv, SheepDies, UpdateNext
  <2> QED BY <1>1, <1>4, <2>1, SheepDeparts
<1>5. CASE PigDies \/ PickUp
  BY <1>1, <1>5, PigDeparts, ItemDeparts
<1>6. CASE ShearKey
  BY <1>1, <1>6, FleeceTaken
<1>7. CASE makeSheep2Load \/ makePigLoad \/ makeItemLoad \/ LoadNothing
  BY <1>1, <1>7, BuiltUnseen
<1>8. CASE EnterNewWorld \/ Save \/ SaveAndQuit \/ Quit \/ loadEntityData
  BY <1>1, <1>8, HerdStored
<1>9. CASE Graze
  BY <1>1, <1>9, FleeceGrows
<1>10. ASSUME UNCHANGED <<active, type, hasFur, saved>>
       PROVE  Abstract
  BY <1>10, Stutters DEF Here
<1>11. CASE CreateWorld \/ EnterWorld \/ updateEntityReach \/ Pass \/ LookForMates \/ NoMate
            \/ MatingDone \/ MobsUpdated \/ FeedKey \/ NoKey
  BY <1>10, <1>11 DEF CreateWorld, EnterWorld, updateEntityReach, Pass, LookForMates, NoMate,
                      MatingDone, MobsUpdated, FeedKey, NoKey, UpdateNext, list
<1>12. CASE UNCHANGED vars
  BY <1>10, <1>12 DEF vars
<1> QED BY <1>2, <1>3, <1>4, <1>5, <1>6, <1>7, <1>8, <1>9, <1>11, <1>12 DEF Next

\* The pool implements a herd, whatever its size: each step brings or takes
\* what it should and nothing else, over second meshes, reused slots and
\* targets that died, and a world comes back with the herd it was saved with.
\* (As long as each sheep finds a slot for its second mesh.)
THEOREM HerdImplemented ==
    ASSUME ~LastSlotSheep
    PROVE  Spec => ImplementsHerd
<1>1. Init => TheHerd!Init
  <2> SUFFICES ASSUME Init PROVE TheHerd!Init
    OBVIOUS
  <2>1. \A s \in Slot : active[s] = FALSE /\ saved[s].active = FALSE
    BY DEF Init, Unsaved
  <2> QED BY <2>1 DEF TheHerd!Init, TheHerd!Nobody, Kind
<1>2. IInv /\ [Next]_vars => [TheHerd!Next]_(TheHerd!vars)
  BY HerdKept DEF Abstract
<1>3. IInv /\ [Next]_vars => IInv'
  BY InvariantStep
<1> QED BY <1>1, <1>2, <1>3, InvariantInit, PTL DEF Spec, ImplementsHerd, TheHerd!Spec

(***************************************************************************)
(* The number of slots in use.                                             *)
(***************************************************************************)

CountInv == usedEntitys = Cardinality(Built)

\* Adding what was not there, and taking what was.
LEMMA CountAdded ==
    ASSUME NEW B \in SUBSET Slot, NEW X \in SUBSET Slot, B \cap X = {}
    PROVE  Cardinality(B \cup X) = Cardinality(B) + Cardinality(X)
<1>1. IsFiniteSet(B) /\ IsFiniteSet(X)
  BY SlotFinite, FS_Subset
<1>2. Cardinality(B) \in Nat /\ Cardinality(X) \in Nat /\ Cardinality({}) = 0
  BY <1>1, FS_CardinalityType, FS_EmptySet
<1>3. Cardinality(B \cup X) = Cardinality(B) + Cardinality(X) - Cardinality(B \cap X)
  BY <1>1, FS_Union
<1>4. Cardinality(B \cap X) = 0
  BY <1>2
<1> QED BY <1>2, <1>3, <1>4

LEMMA CountTaken ==
    ASSUME NEW B \in SUBSET Slot, NEW X \in SUBSET B
    PROVE  Cardinality(B \ X) = Cardinality(B) - Cardinality(X)
<1>1. IsFiniteSet(B)
  BY SlotFinite, FS_Subset
<1>2. B \cap X = X
  OBVIOUS
<1> QED BY <1>1, <1>2, FS_Difference

LEMMA CountPair == \A x, y : x # y => Cardinality({x, y}) = 2
<1> SUFFICES ASSUME NEW x, NEW y, x # y PROVE Cardinality({x, y}) = 2
  OBVIOUS
<1>1. IsFiniteSet({x}) /\ Cardinality({x}) = 1 /\ y \notin {x}
  BY FS_Singleton
<1>2. Cardinality({x} \cup {y}) = Cardinality({x}) + 1
  BY <1>1, FS_AddElement
<1>3. {x} \cup {y} = {x, y}
  OBVIOUS
<1> QED BY <1>1, <1>2, <1>3

LEMMA CountMade ==
    ASSUME usedEntitys = Cardinality(Active), makeItem \/ makePig \/ makeSheep2
    PROVE  usedEntitys' = Cardinality(Active')
<1>1. PICK D \in SUBSET Free : Activate(D) /\ usedEntitys' = usedEntitys + Cardinality(D)
  BY DEF makeItem, makePig, makeSheep2
<1>2. Active' = Active \cup D
  BY <1>1 DEF Activate, Active, Free
<1>3. Active \in SUBSET Slot /\ D \in SUBSET Slot /\ Active \cap D = {}
  BY DEF Active, Free
<1> QED BY <1>1, <1>2, <1>3, CountAdded

LEMMA CountLeft ==
    ASSUME TypeOK, Sound(Active), usedEntitys = Cardinality(Active),
           SheepDies \/ PigDies \/ PickUp
    PROVE  usedEntitys' = Cardinality(Active')
<1>1. ASSUME NEW D \in SUBSET Free, NEW G \in SUBSET Active,
             Active' = (Active \cup D) \ G,
             usedEntitys' = usedEntitys + Cardinality(D) - Cardinality(G)
      PROVE  usedEntitys' = Cardinality(Active')
  <2>1. /\ Active \in SUBSET Slot /\ D \in SUBSET Slot /\ Active \cap D = {}
        /\ Active \cup D \in SUBSET Slot /\ G \in SUBSET (Active \cup D)
    BY DEF Active, Free
  <2>2. Cardinality(Active \cup D) = Cardinality(Active) + Cardinality(D)
    BY <2>1, CountAdded
  <2>3. Cardinality((Active \cup D) \ G) = Cardinality(Active \cup D) - Cardinality(G)
    BY <2>1, CountTaken
  <2>4. Cardinality(Active') = Cardinality((Active \cup D) \ G)
    BY <1>1
  <2>5. Cardinality(Active') = Cardinality(Active) + Cardinality(D) - Cardinality(G)
    <3>1. Cardinality(Active) \in Nat /\ Cardinality(D) \in Nat /\ Cardinality(G) \in Nat
      BY <2>1, SlotFinite, FS_Subset, FS_CardinalityType
    <3> QED BY <2>2, <2>3, <2>4, <3>1
  <2> QED BY <1>1, <2>5
<1> PICK a : a = at
  OBVIOUS
<1>2. Cardinality({a}) = 1 /\ Cardinality({}) = 0
  BY FS_Singleton, FS_EmptySet
<1>3. CASE SheepDies
  <2> PICK e : e = extraEntity[at]
    OBVIOUS
  <2>1. PICK D \in SUBSET Free :
          /\ active' = [s \in Slot |-> s \notin {at, e} /\ (s \in D \/ active[s])]
          /\ usedEntitys' = usedEntitys + Cardinality(D) - 2
    BY <1>3 DEF SheepDies
  <2>2. at \in Slot /\ active[at] /\ type[at] = Sheep
    BY <1>3 DEF SheepDies, UpdateNext
  <2>3. e \in Active /\ type[e] = Shorn /\ a # e /\ a \in Active
    BY <2>2, Kinds DEF Sound, Active
  <2>4. Active' = (Active \cup D) \ {a, e}
    BY <2>1 DEF Active, Free
  <2>5. Cardinality({a, e}) = 2
    BY <2>3, CountPair
  <2> QED BY <1>1, <2>1, <2>3, <2>4, <2>5
<1>4. CASE PigDies
  <2>1. PICK D \in SUBSET Free :
          /\ active' = [s \in Slot |-> s # at /\ (s \in D \/ active[s])]
          /\ usedEntitys' = usedEntitys + Cardinality(D) - 1
    BY <1>4 DEF PigDies
  <2>2. a \in Active /\ Active' = (Active \cup D) \ {a}
    BY <1>4, <2>1 DEF PigDies, UpdateNext, Active, Free
  <2> QED BY <1>1, <1>2, <2>1, <2>2
<1>5. CASE PickUp
  <2>1. /\ at \in Slot /\ active[at]
        /\ active' = [active EXCEPT ![at] = FALSE]
        /\ usedEntitys' = usedEntitys - 1
    BY <1>5 DEF PickUp, UpdateNext
  <2>2. a \in Active /\ Active' = (Active \cup {}) \ {a}
    BY <2>1 DEF Active, TypeOK
  <2>3. usedEntitys' = usedEntitys + Cardinality({}) - Cardinality({a})
    BY <1>2, <2>1 DEF TypeOK
  <2> QED BY <1>1, <2>2, <2>3
<1> QED BY <1>3, <1>4, <1>5

\* While a world is loaded, what is counted is what is built.
LEMMA CountLoaded ==
    ASSUME TypeOK, ~LastSlotSheep, Sound(Built), CountInv,
           makeSheep2Load \/ makePigLoad \/ makeItemLoad \/ LoadNothing
    PROVE  CountInv'
<1> PICK B : B = Built
  OBVIOUS
<1> PICK a : a = at
  OBVIOUS
<1>1. at \in Slot /\ phase = "loading" /\ LoadNext
  BY DEF makeSheep2Load, makePigLoad, makeItemLoad, LoadNothing, LoadNext
<1>2. at >= at
  BY <1>1, PoolAssumption DEF Slot
<1>3. active[at] /\ type[at] # Shorn => at \in Active /\ at \notin B
  BY <1>1, <1>2 DEF Built, Unbuilt, Active
<1>4. B \in SUBSET Slot
  BY DEF Built, Active
<1>5. CASE makePigLoad \/ makeItemLoad
  <2>1. /\ a \in Active /\ a \notin B /\ UNCHANGED <<active, type>>
        /\ usedEntitys' = usedEntitys + 1
    BY <1>3, <1>5, Kinds DEF makePigLoad, makeItemLoad
  <2>2. Active' = Active \cup {a}
    BY <2>1 DEF Active
  <2>3. Built' = B \cup {a}
    BY <1>1, <2>1, <2>2, LoadGoesOn
  <2>4. Cardinality(B \cup {a}) = Cardinality(B) + 1
    <3>1. {a} \in SUBSET Slot /\ B \cap {a} = {} /\ Cardinality({a}) = 1
      BY <1>1, <2>1, FS_Singleton
    <3> QED BY <1>4, <3>1, CountAdded
  <2> QED BY <2>1, <2>3, <2>4 DEF CountInv
<1>6. CASE makeSheep2Load
  <2>1. PICK D \in SUBSET Free :
          /\ FirstFree(D, 1) /\ D # {}
          /\ Activate(D)
          /\ type' = [s \in Slot |-> IF s \in D THEN Shorn ELSE type[s]]
    BY <1>6 DEF makeSheep2Load
  <2>2. active[at] /\ type[at] = Sheep /\ usedEntitys' = usedEntitys + 2
    BY <1>6 DEF makeSheep2Load
  <2>3. PICK y \in Free : D = {y}
    BY <2>1, OneFree
  <2>4. y \in Slot /\ y \notin Active /\ y # a
    BY <2>2 DEF Free, Active
  <2>5. y \notin B /\ a \in Active /\ a \notin B
    BY <1>3, <2>2, <2>4, Kinds DEF Built
  <2>6. Active' = Active \cup {a, y}
    <3>1. \A s \in Slot : active'[s] = (s = y \/ active[s])
      BY <2>1, <2>3 DEF Activate
    <3> QED BY <2>4, <2>5, <3>1 DEF Active
  <2>7. type'[y] = Shorn /\ \A s \in Slot \ {a, y} : type'[s] = type[s]
    BY <2>1, <2>3, <2>4
  <2>8. Built' = B \cup {a, y}
    BY <1>1, <2>4, <2>5, <2>6, <2>7, LoadGoesOn
  <2>9. Cardinality(B \cup {a, y}) = Cardinality(B) + 2
    <3>1. {a, y} \in SUBSET Slot /\ B \cap {a, y} = {} /\ Cardinality({a, y}) = 2
      BY <1>1, <2>4, <2>5, CountPair
    <3> QED BY <1>4, <3>1, CountAdded
  <2> QED BY <2>2, <2>8, <2>9 DEF CountInv
<1>7. CASE LoadNothing
  <2>1. UNCHANGED <<active, type, usedEntitys>>
    BY <1>7 DEF LoadNothing
  <2>2. at \in Active => at \in B
    <3>1. CASE active[at]
      <4>1. type[at] \in {Sheep, Pig, Item, Shorn}
        BY <1>1, <3>1 DEF Sound, Active
      <4>2. type[at] = Shorn
        BY <1>7, <3>1, <4>1 DEF LoadNothing
      <4> QED BY <1>1, <3>1, <4>2 DEF Built, Unbuilt, Active
    <3>2. CASE ~active[at]
      BY <3>2 DEF Active
    <3> QED BY <3>1, <3>2
  <2>3. Active' = Active
    BY <2>1 DEF Active
  <2>4. Built' = B \cup {}
    BY <1>1, <2>1, <2>2, <2>3, LoadGoesOn
  <2> QED BY <2>1, <2>4 DEF CountInv
<1> QED BY <1>5, <1>6, <1>7

LEMMA CountStep ==
    ASSUME ~LastSlotSheep, IInv, CountInv, [Next]_vars
    PROVE  CountInv'
<1>1. TypeOK /\ Sound(Built)
  BY DEF IInv
<1>2. CASE UNCHANGED vars
  BY <1>2 DEF vars, CountInv, Built, Unbuilt, Active
<1>3. CASE QuietStep
  <2>1. active' = active /\ usedEntitys' = usedEntitys
    BY <1>3 DEF QuietStep, CreateWorld, EnterNewWorld, EnterWorld, Save, updateEntityReach,
                Pass, Graze, LookForMates, NoMate, MatingDone, MobsUpdated, FeedKey, NoKey,
                UpdateNext, list
  <2>2. Built' = Active
    BY <1>1, <1>3, <2>1, QuietSound DEF Active
  <2>3. Built = Active
    <3>1. CASE EnterWorld
      BY <3>1, AllLoaded
    <3>2. CASE ~EnterWorld
      <4>1. phase # "loading"
        BY <1>3, <3>2 DEF QuietStep, CreateWorld, EnterNewWorld, Save, updateEntityReach, Pass,
             Graze, LookForMates, NoMate, MatingDone, MobsUpdated, FeedKey, NoKey, UpdateNext
      <4> QED BY <4>1, AllBuilt
    <3> QED BY <3>1, <3>2
  <2> QED BY <2>1, <2>2, <2>3 DEF CountInv
<1>4. CASE HerdStep
  <2>1. Built = Active
    BY <1>4, AllBuilt DEF HerdStep, Generate, MakeKey, updateMap, Breed, ShearKey, SheepDies,
                          PigDies, PickUp, UpdateNext
  <2>2. Built' = Active'
    BY <1>1, <1>4, HerdSound
  <2>3. CASE SheepDies \/ PigDies \/ PickUp
    BY <1>1, <2>1, <2>2, <2>3, CountLeft DEF CountInv
  <2>4. CASE Generate \/ MakeKey \/ updateMap \/ Breed \/ ShearKey
    <3>1. makeItem \/ makePig \/ makeSheep2
      BY <2>4 DEF Generate, MakeKey, updateMap, Breed, ShearKey, Make
    <3> QED BY <2>1, <2>2, <3>1, CountMade DEF CountInv
  <2> QED BY <1>4, <2>3, <2>4 DEF HerdStep
<1>5. CASE SaveAndQuit \/ Quit
  <2>1. usedEntitys' = 0 /\ Built' = {}
    BY <1>5 DEF SaveAndQuit, Quit, clearAllEntitys, Built, Active
  <2> QED BY <2>1, FS_EmptySet DEF CountInv
<1>6. CASE loadEntityData
  <2>1. Built = {} /\ usedEntitys' = usedEntitys
    BY <1>6, AllBuilt DEF IInv, loadEntityData
  <2>2. Built' = {}
    BY <1>1, <1>6, <2>1, LoadStarts DEF IInv
  <2> QED BY <2>1, <2>2 DEF CountInv
<1>7. CASE makeSheep2Load \/ makePigLoad \/ makeItemLoad \/ LoadNothing
  BY <1>1, <1>7, CountLoaded
<1> QED BY <1>2, <1>3, <1>4, <1>5, <1>6, <1>7 DEF Next, QuietStep, HerdStep

\* The number on the screen is the number of slots in use, whatever the size
\* of the pool: each maker, death, pick-up and load counts what it takes.
\* (As long as each sheep finds a slot for its second mesh.)
THEOREM CountCorrect ==
    ASSUME ~LastSlotSheep
    PROVE  Spec => []CountTrue
<1>1. Init => CountInv
  <2> SUFFICES ASSUME Init PROVE CountInv
    OBVIOUS
  <2>1. usedEntitys = 0 /\ Built = {}
    BY DEF Init, Built, Active
  <2> QED BY <2>1, FS_EmptySet DEF CountInv
<1>2. IInv /\ CountInv /\ [Next]_vars => CountInv'
  BY CountStep
<1>3. IInv /\ [Next]_vars => IInv'
  BY InvariantStep
<1>4. CountInv => CountTrue
  BY AllBuilt DEF CountInv, CountTrue
<1> QED BY <1>1, <1>2, <1>3, <1>4, InvariantInit, PTL DEF Spec
===========================================================================
