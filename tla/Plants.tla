------------------------------- MODULE Plants -------------------------------
(***************************************************************************)
(* Leaves, saplings, flowers, wheat, grass and farmland: what updateMap    *)
(* does with a plant or the soil it is at (src/src/eninge.c 21522-21557    *)
(* and 21920-22128).                                                       *)
(*                                                                         *)
(* Where the code draws a random number, or asks for the light, either may *)
(* happen.  The eight stages of wheat are two: growing and ripe.           *)
(***************************************************************************)
EXTENDS BlockMap

CONSTANTS TreeHight  \* the height of a tree that grows (code: 4 to 7)
ASSUME TreeAssumption == TreeHight \in Nat

Becomes(k) == blocks' = Set(blocks, at, k)
Gone(item, where) == Becomes("air") /\ drops' = drops \cup {<<item, where>>}
PlantsKeep == UNCHANGED <<blockData, pending, foreign>>
Stays == UNCHANGED <<blocks, redraw, drops>>
HasLog == \E c \in Pos : Near(c, at, 2) /\ K(c) = "log"

\* Leaves without a log near by decay at times, and may leave a sapling.
UpdateLeaves ==
    /\ K(at) = "leaves"
    /\ \/ Stays
       \/ /\ ~HasLog /\ Draw({"full"})
          /\ Gone("sapling", at) \/ (Becomes("air") /\ drops' = drops)
    /\ PlantsKeep

\* A sapling becomes a tree: the trunk stands in whatever is above it, leaves
\* fill only air.
Trunk(h) == {c \in Pos : /\ c[1] = at[1] /\ c[3] = at[3]
                         /\ c[2] - at[2] \in 0..h}
Crown(h) == {c \in Pos : \/ Near(c, <<at[1], c[2], at[3]>>, 2) /\ c[2] - at[2] \in (h - 2)..(h - 1)
                         \/ Near(c, <<at[1], c[2], at[3]>>, 1) /\ c[2] - at[2] \in h..(h + 1)}
generateTree(h) ==
    [c \in Pos |-> IF c \in Trunk(h) THEN "log"
                   ELSE IF c \in Crown(h) /\ blocks[c] = "air" THEN "leaves"
                   ELSE blocks[c]]
UpdateSapling ==
    /\ K(at) = "sapling"
    /\ \/ Stays
       \/ /\ blocks' = generateTree(TreeHight) /\ Draw({"full"})
          /\ drops' = drops
    /\ Abroad({c \in Pos : blocks'[c] # blocks[c]})
    /\ UNCHANGED <<blockData, pending>>

\* A flower needs grass below it.
UpdateFlower ==
    /\ K(at) = "flower"
    /\ IF at[2] > 0 /\ K(Plus(at, Down)) # "grass"
       THEN Gone("flower", at) /\ Draw({"full"}) ELSE Stays
    /\ PlantsKeep

\* Items are placed in tenths of a block; 21974 forgets to multiply.
Tenth(c) == <<c[1] \div 10, c[2] \div 10, c[3] \div 10>>
\* Wheat grows in the light; without farmland below it is gone, and leaves a
\* seed.  Ripe wheat is no longer looked at (21953).
UpdateWheat ==
    /\ K(at) = "wheat"
    /\ \/ /\ at[2] > 0 /\ K(Plus(at, Down)) \notin Farmland
          /\ Gone("seeds", Tenth(at)) /\ Draw({"full"})
       \/ /\ at[2] = 0 \/ K(Plus(at, Down)) \in Farmland
          /\ Stays \/ (Becomes("ripeWheat") /\ Draw({"textures"}) /\ drops' = drops)
    /\ PlantsKeep

\* Dirt in the light turns to grass beside grass, on its own level, one up or
\* one down, if nothing stands on either.
Grassy(c) == Seen(c) /\ K(c) = "grass" /\ canHaveGrassBelow(K(Plus(c, Up)))
UpdateDirt ==
    /\ K(at) = "dirt"
    /\ \/ Stays
       \/ /\ at[2] # height - 1 /\ canHaveGrassBelow(K(Plus(at, Up)))
          /\ \E s \in Straight, h \in {Down, <<0, 0, 0>>, Up} : Grassy(Plus(Plus(at, s), h))
          /\ Becomes("grass") /\ Draw({"textures"}) /\ drops' = drops
    /\ PlantsKeep
\* Grass below a block is to turn to dirt (22017), but is set to grass (22028).
UpdateGrass ==
    /\ K(at) = "grass"
    /\ \/ Stays
       \/ /\ at[2] # height - 1 /\ ~canHaveGrassBelow(K(Plus(at, Up)))
          /\ Becomes("grass") /\ Draw({"textures"}) /\ drops' = drops
    /\ PlantsKeep

WaterClose == \E c \in Pos : /\ Seen(c) /\ c[2] = at[2]
                             /\ Near(c, at, Reach) /\ K(c) = "water"
\* Mutant: dry farmland turns to dirt below a crop too.
UpdateFarmlandCareless ==
    /\ K(at) = "farmland"
    /\ \/ Stays
       \/ /\ at[2] # height - 1 /\ ~WaterClose
          /\ Becomes("dirt") /\ Draw({"full"}) /\ drops' = drops
       \/ /\ at[2] # height - 1 /\ WaterClose
          /\ Becomes("wetFarmland") /\ Draw({"textures"}) /\ drops' = drops
    /\ PlantsKeep
UpdateFarmland ==
    /\ K(at) = "farmland"
    /\ \/ Stays
       \/ /\ at[2] # height - 1 /\ ~WaterClose /\ K(Plus(at, Up)) \notin Crop
          /\ Becomes("dirt") /\ Draw({"full"}) /\ drops' = drops
       \/ /\ at[2] # height - 1 /\ WaterClose
          /\ Becomes("wetFarmland") /\ Draw({"textures"}) /\ drops' = drops
    /\ PlantsKeep
UpdateWetFarmland ==
    /\ K(at) = "wetFarmland"
    /\ \/ Stays
       \/ /\ ~WaterClose
          /\ Becomes("farmland") /\ Draw({"textures"}) /\ drops' = drops
    /\ PlantsKeep
=============================================================================
