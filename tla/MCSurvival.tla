----------------------------- MODULE MCSurvival -----------------------------
(***************************************************************************)
(* Survival for TLC.  A player wants one item and everything that may help *)
(* to get it: with the wishes of all items every way to every item that is *)
(* in the tables is walked, and the sets of things had stay small.         *)
(***************************************************************************)
EXTENDS Survival

\* What may help to get one of these: inputs, tables, furnaces, the items that
\* place a block which drops it, and the tools that take such a block.
Sources(items) == {b \in block : allBlock[b].drops \in items}
Helps(items) ==
    items
    \cup UNION {DOMAIN r.input \cup (IF r.needsCraftingTable THEN {"crafting table"} ELSE {}) :
                   r \in {r \in craftingRecipes : r.outputItem \in items}}
    \cup UNION {{r[1], "furnace"} : r \in {r \in furnaceRecipes : r[2] \in items}}
    \cup {i \in item : allItem[i].block \in Sources(items)}
    \cup UNION {{i \in item : allItem[i].toolType = allBlock[b].tool /\ allItem[i].toolType # "hand"} :
                   b \in {b \in Sources(items) : allBlock[b].level > 0}}
    \cup (IF "wheat" \in items THEN {"seed", "wooden hoe"} ELSE {})
    \cup (IF "wool" \in items THEN {"shears"} ELSE {})
Depth == 12
HelpsIn[n \in 0..Depth] ==
    IF n = 0 THEN [i \in item |-> {i}]
    ELSE LET prev == HelpsIn[n - 1] IN [i \in item |-> Helps(prev[i])]
MCWishes ==
    LET all == {HelpsIn[Depth][i] : i \in item}
    IN {w \in all : ~\E other \in all : w # other /\ w \subseteq other}

\* Such a player in a flat world, an old one, one under water, one of hills
\* without mobs and caves, and one of water, beaches and hills with all there
\* is or all but one of the things he may look for.
WorldOf(terrain, heights, all, lacks) ==
    [terrain |-> terrain, heights |-> heights, mobs |-> all, caves |-> all, lacks |-> lacks]
Full(lacks) == WorldOf(2, {16, 19, 24}, TRUE, lacks)
Sought(wish) == Sources(wish) \cup {"lava"} \cup animal
MCGames ==
    UNION {{[world |-> world, wanted |-> wish] :
               world \in {WorldOf(0, {}, FALSE, {}), WorldOf(1, {}, FALSE, {}), WorldOf(2, {16}, TRUE, {}),
                          WorldOf(2, {24}, FALSE, {}), Full({})}
                         \cup {Full({b}) : b \in Sought(wish)}} : wish \in MCWishes}
=============================================================================
