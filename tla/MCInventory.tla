---------------------------- MODULE MCInventory ----------------------------
(* Small instances of Inventory for TLC: two hotbar slots, one slot behind *)
(* them, one chest slot.                                                   *)
EXTENDS Inventory

CONSTANTS log, plank, pick, shears, wool, wheat, pork, cooked, hoe,
          egg, seeds

\* Attributes of the model items: those of the items they are named after,
\* with the hp of the tools cut down.
TheBreaksIn == [i \in Items |-> CASE i = hoe -> 2
                                  [] i \in {pick, shears} -> 1
                                  [] OTHER -> 0]
TheStackSize == [i \in Items |-> IF i \in {pick, hoe, shears, pork, cooked}
                                 THEN 1 ELSE StackLimit]
TheToolType == [i \in Items \cup {NoItem} |->
                   CASE i = pick -> 1 [] i = hoe -> 5 [] i = wheat -> 6
                     [] i \in {pork, cooked} -> 7 [] i = shears -> 8
                     [] i = egg -> 9
                     [] OTHER -> 0]

Costs(item, n) == [i \in Items |-> IF i = item THEN n ELSE 0]

CraftingRecipes ==
    (IF {log, plank} \subseteq Items
     THEN {[needsCraftingTable |-> FALSE, inputItemAmount |-> Costs(log, 1),
            outputItem |-> plank, outputItemAmount |-> 2]}
     ELSE {})
    \cup
    (IF {plank, pick} \subseteq Items
     THEN {[needsCraftingTable |-> TRUE, inputItemAmount |-> Costs(plank, 2),
            outputItem |-> pick, outputItemAmount |-> 1]}
     ELSE {})

FurnaceRecipes == [i \in Items \cap {pork} |-> cooked]
TheDrops == Items \cap {log, plank, wheat, pork}
=============================================================================
