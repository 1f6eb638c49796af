------------------------------ MODULE Survival ------------------------------
(***************************************************************************)
(* What a player of a survival world can come to have: the world loadPerlin *)
(* makes, and the tables of Items.tla as the handlers read them             *)
(* (destroyBlock, placeBlock, the crafting and furnace cases of playerInput *)
(* and renderInventory, shearing, the deaths of mobs, updateMap).           *)
(*                                                                         *)
(* One action is one call of a handler, for one block or item.  Amounts    *)
(* and places are left out: a kind of block that has stood once can stand  *)
(* again, an item that was had once can be had again, so "standing" and    *)
(* "had" only grow.  Inventory.tla and UpdateMap.tla model the amounts and *)
(* the places.                                                             *)
(***************************************************************************)
EXTENDS Items, FiniteSets

CONSTANTS Games  \* how a world is made (terrain, heights of the surface, mobs,
                 \* caves, and what the seed leaves out of the things that are
                 \* drawn at random), and the items the player may want

VARIABLES natural,  \* blocks and animals the world was made with
          wanted,   \* the items this player makes something of
          standing, \* blocks that have stood in the world
          had       \* items the player has had
vars == <<natural, wanted, standing, had>>

(***************************************************************************)
(* The new world.                                                          *)
(***************************************************************************)
animal == {"sheep", "pig"}
\* Below which height an ore is drawn; and which a stone of a column can be.
OreLimit == [o \in {"coal ore", "iron ore"} |-> 50]
            @@ [o \in {"gold ore", "lapiz ore", "redstone ore"} |-> 20]
            @@ "emerald ore" :> 25 @@ "diamond ore" :> 12
OresBelow(maxY) == {o \in DOMAIN OreLimit : \E y \in 1..(maxY - 3) : y < OreLimit[o]}

\* loadPerlin: what a column of an advanced world is made of, and what it may
\* get (sets of things that come together).
Surface(maxY) == IF maxY >= 20 THEN {"grass", "dirt"} ELSE {"sand"}
Column(maxY) == Surface(maxY) \cup {"stone", "bedrock"}
                \cup (IF maxY < 18 THEN {"water"} ELSE {})
Drawn(maxY, mobs, caves) ==
    {{o} : o \in OresBelow(maxY)}
    \cup (IF maxY < 18 THEN {{"clay"}} ELSE {})
    \cup (IF maxY > 20 THEN {{"log", "leave"}, {"short grass"}, {"dandelion"}} ELSE {})
    \cup (IF maxY > 18 /\ mobs THEN {{a} : a \in animal} ELSE {})
    \cup (IF caves THEN {{"lava"}} ELSE {})

\* The three terrains: the flat one, the one of old worlds, the advanced one.
World(w) ==
    CASE w.terrain = 0 -> {"grass", "dirt"}
      [] w.terrain = 1 -> {"grass", "dirt", "stone"}
      [] w.terrain = 2 -> UNION {Column(maxY) : maxY \in w.heights}
Chances(w) ==
    CASE w.terrain = 0 -> {}
      [] w.terrain = 1 -> {{"log", "leave"}}
      [] w.terrain = 2 -> UNION {Drawn(maxY, w.mobs, w.caves) : maxY \in w.heights}
loadPerlin(w) == World(w) \cup UNION {things \in Chances(w) : things \cap w.lacks = {}}
Init ==
    /\ \E g \in Games : natural = loadPerlin(g.world) /\ wanted = g.wanted
    /\ standing = natural \ animal
    /\ had = {}

(***************************************************************************)
(* The handlers.                                                           *)
(***************************************************************************)
\* What is in the hand: an item the player has, or nothing (allItem[0]).
Hands == (had \cap wanted) \cup {"nothing"}
Hand(h) == IF h = "nothing" THEN Thing("air") ELSE allItem[h]
\* The player does only what brings him something new.
Gets(items) ==
    /\ ~(items \cap wanted \subseteq had)
    /\ had' = had \cup (items \cap wanted) /\ UNCHANGED <<natural, wanted, standing>>
Stands(blocks) ==
    /\ ~(blocks \subseteq standing)
    /\ standing' = standing \cup blocks /\ UNCHANGED <<natural, wanted, had>>
Near(b) == b \in standing

\* Mutant: a tool must be better than the block asks for.
BreaksOnlyBelow(h, b) ==
    LET row == allBlock[b]
    IN \/ row.level = 0
       \/ Hand(h).toolType = row.tool /\ Hand(h).toolLevel > row.level
\* destroyBlock: does breaking the block with that give what it drops?
Breaks(h, b) ==
    LET row == allBlock[b]
    IN \/ row.level = 0
       \/ Hand(h).toolType = row.tool /\ Hand(h).toolLevel >= row.level
Drops(b) == {allBlock[b].drops} \cup (IF allBlock[b].drops = "wheat" THEN {"seed"} ELSE {})
Fluid == {"water", "lava"}
DestroyBlock(b) ==
    /\ Near(b) /\ b \notin Fluid /\ b # "bedrock"
    /\ allBlock[b].drops # "none" /\ Gets(Drops(b))
    /\ \E h \in Hands : Breaks(h, b)

Craft(r) ==
    /\ r.outputItem \in wanted
    /\ r.needsCraftingTable => Near("crafting table")
    /\ DOMAIN r.input \subseteq had
    /\ Gets({r.outputItem})

UseFurnace(r) ==
    /\ Near("furnace") /\ r[1] \in had
    /\ Gets({r[2]})

\* Doors and beds are two blocks, of the number of the item and the next one.
OtherHalf(b) == CASE b = "door bottom" -> {"door top"}
                  [] b = "bed front" -> {"bed back"}
                  [] b = "iron door bottom" -> {"iron door top"}
                  [] OTHER -> {}
PlaceBlock(i) ==
    LET b == allItem[i].block
    IN /\ i \in had \cap wanted /\ allItem[i].toolType = "hand" /\ b # "air"
       /\ i = "seed" => Near("farmland dry") \/ Near("farmland wet")
       /\ Stands({b} \cup OtherHalf(b))

UseHoe(h) ==
    /\ h \in Hands /\ Hand(h).toolType = "hoe"
    /\ Near("grass") \/ Near("dirt")
    /\ Stands({"farmland dry"})

Shear ==
    /\ "sheep" \in natural /\ "shears" \in had
    /\ Gets({"wool"})
MobDies(a) ==
    /\ a \in natural
    /\ Gets(IF a = "sheep" THEN {"wool"} ELSE {"raw pork"})

\* updateMap: what blocks become by themselves, and the sapling leaves drop.  A
\* sapling's tree, dirt's grass and a dry field's dirt have stood before.
Becomes(from, to) == from \subseteq standing /\ Stands(to)
UpdateMap ==
    \/ Near("leave") /\ Gets({"sapling"})
    \/ Becomes({"wheat stage0"}, {"wheat stage7"})
    \/ Becomes({"farmland dry", "water"}, {"farmland wet"})
    \/ Becomes({"water", "lava"}, {"obsidian", "cobblestone", "stone"})

Next ==
    \/ \E b \in standing : DestroyBlock(b)
    \/ \E r \in craftingRecipes : Craft(r)
    \/ \E r \in furnaceRecipes : UseFurnace(r)
    \/ \E i \in had : PlaceBlock(i)
    \/ \E h \in Hands : UseHoe(h)
    \/ Shear
    \/ \E a \in animal : MobDies(a)
    \/ UpdateMap

\* The player goes on as long as something new can be had or placed, and the
\* updates of the map go on with the frames: only then does time do its work.
Spec == Init /\ [][Next]_vars /\ WF_vars(Next)

(***************************************************************************)
(* Properties.                                                             *)
(***************************************************************************)
\* Only known blocks stand, only known items are had.
TypeOK ==
    /\ natural \subseteq block \cup animal
    /\ wanted \subseteq item
    /\ standing \subseteq block
    /\ had \subseteq item

\* The ladder of a survival world, written down by hand: the steps, the natural
\* things each needs, and the items it is for.
Wood    == {"log"}
Masonry == Wood \cup {"stone"}
Smithy  == Masonry \cup {"iron ore"}
Wired   == Smithy \cup {"redstone ore"}
OfEach(things) == {<<t, {t}>> : t \in things}
For(items, things) == {<<i, things>> : i \in items}
Range(s) == {s[n] : n \in DOMAIN s}
Nth(n) == {s[n] : s \in {Pickaxes, Axes, Shovels, Swords, Hoes}}
Ladder ==
    OfEach({"dirt", "sand", "log", "dandelion"})
    \cup For({"plank", "stick", "crafting table", "chest", "wooden stairs", "wooden slab",
              "wooden door", "wooden button", "sapling"} \cup Nth(1), Wood)
    \cup For({"cobblestone", "stone", "furnace", "lever", "stone button", "cobblestone stairs",
              "cobblestone slab", "stone stairs", "stone slab"} \cup Nth(2), Masonry)
    \cup For({"iron ore", "iron ingot", "iron door", "iron block", "shears"} \cup Nth(3), Smithy)
    \cup For({"coal", "coal block", "torch"}, Masonry \cup {"coal ore"})
    \cup For({"gold ore", "gold ingot", "gold block"} \cup Nth(4), Smithy \cup {"gold ore"})
    \cup For({"diamond", "diamond block"} \cup Nth(5), Smithy \cup {"diamond ore"})
    \cup For({"emerald", "emerald block"}, Smithy \cup {"emerald ore"})
    \cup For({"lapiz ore"}, Smithy \cup {"lapiz ore"})
    \cup For({"redstone dust", "redstone torch", "redstone block", "repeater"}, Wired)
    \cup For({"glass"}, Masonry \cup {"sand"}) \cup For({"redstone lamp"}, Wired \cup {"sand"})
    \cup For({"clay ball"}, {"clay"})
    \cup For({"brick", "bricks", "brick stairs", "brick slab"}, Masonry \cup {"clay"})
    \cup For({"seed"}, {"short grass"}) \cup For({"wheat", "bread"}, Wood \cup {"short grass"})
    \cup For({"wool"}, {"sheep"}) \cup For({"bed"}, Wood \cup {"sheep"})
    \cup For({"raw pork"}, {"pig"}) \cup For({"cooked pork"}, Masonry \cup {"pig"})
    \cup For({"obsidian"}, {"lava", "water"})
Reachable == {rung[1] : rung \in {rung \in Ladder : rung[2] \subseteq natural}}

\* The tables let a player have nothing a step earlier than the ladder says:
\* no block drops its ore to a tool too weak for it, no recipe needs less.
OnlyTheLadder == had \subseteq Reachable

\* Whoever holds something that lies behind a tool has held that tool: the
\* ladder cannot be climbed past a rung.
Pickaxe(ns) == had \cap {Pickaxes[n] : n \in ns} # {}
LadderInOrder ==
    /\ had \cap {"cobblestone", "coal"} # {} => Pickaxe(1..5)
    /\ "iron ore" \in had => "stone pickaxe" \in had
    /\ had \cap {"gold ore", "diamond", "emerald", "lapiz ore", "redstone dust"} # {}
           => "iron pickaxe" \in had

\* No way of breaking, crafting and smelting leads past a rung.
LadderSound == TypeOK /\ OnlyTheLadder /\ LadderInOrder

\* Nothing the world holds the means for is out of reach for ever: a player
\* who goes on comes to have all of it (no dead end in tables and handlers).
EverythingAtLast == <>(wanted \cap Reachable \subseteq had)
=============================================================================
