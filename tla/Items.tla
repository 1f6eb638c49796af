------------------------------- MODULE Items --------------------------------
(***************************************************************************)
(* The tables of items, blocks and recipes (allItem, allBlock,             *)
(* furnaceRecipes, craftingRecipes, src/src/eninge.c 9498-12220).  Items   *)
(* and blocks go by their names; of their rows only what decides what can  *)
(* be had is kept: the block an item places and its tool type and level,   *)
(* what a block drops and to which tool.  How long tools last and blocks   *)
(* resist, light, textures and icons are left out.                         *)
(***************************************************************************)
EXTENDS Integers, Sequences, TLC

\* An item that is no tool: the block it places ("air": blockId 0).
Thing(block) == [block |-> block, toolType |-> "hand", toolLevel |-> 0]
\* One that is: a kind of tool in its levels, wood, stone, iron, gold, diamond.
Tool(kind, level) == [block |-> "air", toolType |-> kind, toolLevel |-> level]
\* Items that place the block of their own name, and some that place none.
Same(names) == [i \in names |-> Thing(i)]
Loose(names) == [i \in names |-> Thing("air")]
Tools(kind, names) == [i \in {names[n] : n \in DOMAIN names} |->
                          Tool(kind, CHOOSE n \in DOMAIN names : names[n] = i)]

Ground == Same({"grass", "dirt", "stone", "leave", "log", "water", "sand", "plank", "bedrock", "cobblestone"})
Ores   == Same({"coal ore", "iron ore", "gold ore", "diamond ore", "emerald ore", "lapiz ore"})
Made   == Same({"glowstone", "tnt", "crafting table", "furnace"}) @@ Loose({"stick"})
Pickaxes == <<"wooden pickaxe", "stone pickaxe", "iron pickaxe", "gold pickaxe", "diamond pickaxe">>
Axes     == <<"wooden axe", "stone axe", "iron axe", "gold axe", "diamond axe">>
Shovels  == <<"wooden shovel", "stone shovel", "iron shovel", "gold shovel", "diamond shovel">>
Swords   == <<"wooden sword", "stone sword", "iron sword", "gold sword", "diamond sword">>
Hoes     == <<"wooden hoe", "stone hoe", "iron hoe", "gold hoe", "diamond hoe">>
Minerals == Loose({"coal", "iron ingot", "gold ingot", "emerald", "diamond"})
Found    == Same({"glass", "dandelion", "sapling", "lava", "obsidian", "chest", "clay"})
Fired    == Loose({"clay ball", "brick"}) @@ Same({"bricks", "torch"})
Farming  == Same({"farmland dry", "farmland wet", "short grass"}) @@ "seed" :> Thing("wheat stage0")
            @@ "wheat" :> Tool("wheat", 0) @@ "bread" :> Tool("food", 5)
Stairs   == Same({"wooden stairs", "cobblestone stairs", "stone stairs", "brick stairs"})
Slabs    == Same({"wooden slab", "cobblestone slab", "stone slab", "brick slab"})
Furniture == "wooden door" :> Thing("door bottom") @@ "bed" :> Thing("bed front")
Redstone == "redstone ore" :> Thing("redstone ore") @@ "redstone dust" :> Thing("redstone wire")
            @@ "redstone torch" :> Thing("redstone torch on") @@ "repeater" :> Thing("repeater off")
            @@ "iron door" :> Thing("iron door bottom") @@ "redstone lamp" :> Thing("redstone lamp off")
Switches == Same({"lever", "wooden button", "stone button"})
Stores   == Same({"coal block", "iron block", "gold block", "diamond block", "redstone block", "emerald block"})
Animals  == "shears" :> Tool("shears", 1) @@ Same({"wool"})
            @@ "sheep spawn egg" :> Tool("egg", 1) @@ "pig spawn egg" :> Tool("egg", 2)
            @@ "raw pork" :> Tool("food", 3) @@ "cooked pork" :> Tool("food", 8)
allItem == Ground @@ Ores @@ Made @@ Tools("pickaxe", Pickaxes) @@ Tools("axe", Axes)
           @@ Tools("shovel", Shovels) @@ Tools("sword", Swords) @@ Tools("hoe", Hoes)
           @@ Minerals @@ Found @@ Fired @@ Farming @@ Stairs @@ Slabs @@ Furniture
           @@ Redstone @@ Switches @@ Stores @@ Animals
item == DOMAIN allItem

\* A row of allBlock: what it drops ("none": -1), to which tool of which level.
Row(drops, tool, level) == [drops |-> drops, tool |-> tool, level |-> level]
Itself(names, tool, level) == [b \in names |-> Row(b, tool, level)]
Never == 10

GroundRows == "grass" :> Row("dirt", "shovel", 0) @@ "dirt" :> Row("dirt", "shovel", 0)
              @@ "stone" :> Row("cobblestone", "pickaxe", 1) @@ "leave" :> Row("none", "hoe", 0)
              @@ "log" :> Row("log", "axe", 0) @@ "water" :> Row("water", "hand", Never)
              @@ "sand" :> Row("sand", "shovel", 0) @@ "plank" :> Row("plank", "axe", 0)
              @@ "bedrock" :> Row("bedrock", "hand", Never)
\* Mutant: a wooden pickaxe will do for iron.
OreRowsSoft == [b \in {"cobblestone", "coal ore", "iron ore"} |->
                   Row(IF b = "coal ore" THEN "coal" ELSE b, "pickaxe", 1)]
               @@ "gold ore" :> Row("gold ore", "pickaxe", 3) @@ "lapiz ore" :> Row("lapiz ore", "pickaxe", 3)
               @@ "diamond ore" :> Row("diamond", "pickaxe", 3) @@ "emerald ore" :> Row("emerald", "pickaxe", 3)
OreRows == "cobblestone" :> Row("cobblestone", "pickaxe", 1) @@ "coal ore" :> Row("coal", "pickaxe", 1)
           @@ "iron ore" :> Row("iron ore", "pickaxe", 2) @@ "gold ore" :> Row("gold ore", "pickaxe", 3)
           @@ "diamond ore" :> Row("diamond", "pickaxe", 3) @@ "emerald ore" :> Row("emerald", "pickaxe", 3)
           @@ "lapiz ore" :> Row("lapiz ore", "pickaxe", 3)
MadeRows == Itself({"glowstone", "tnt", "crafting table"}, "hand", 0)
            @@ "furnace" :> Row("furnace", "pickaxe", 1) @@ "glass" :> Row("glass", "hand", 1)
FoundRows == Itself({"dandelion", "sapling", "lava", "chest", "bricks", "torch"}, "hand", 0)
             @@ "obsidian" :> Row("obsidian", "pickaxe", 0) @@ "clay" :> Row("clay ball", "shovel", 0)
FarmRows == [b \in {"farmland dry", "farmland wet"} |-> Row("dirt", "shovel", 0)]
            @@ [b \in {"wheat stage0", "short grass"} |-> Row("seed", "hand", 0)]
            @@ "wheat stage7" :> Row("wheat", "hand", 0)
StairRows == Itself({"wooden stairs"}, "axe", 0)
             @@ Itself({"cobblestone stairs", "stone stairs", "brick stairs"}, "pickaxe", 1)
SlabRows == Itself({"wooden slab"}, "axe", 0)
            @@ Itself({"cobblestone slab", "stone slab", "brick slab"}, "pickaxe", 1)
HalfRows == [b \in {"door bottom", "door top"} |-> Row("wooden door", "axe", 0)]
            @@ [b \in {"bed front", "bed back"} |-> Row("bed", "axe", 0)]
RedstoneRows == "redstone ore" :> Row("redstone dust", "pickaxe", 3)
                @@ "redstone wire" :> Row("redstone dust", "hand", 0)
                @@ [b \in {"redstone torch on", "redstone torch off"} |-> Row("redstone torch", "hand", 0)]
                @@ [b \in {"repeater off", "repeater on"} |-> Row("repeater", "hand", 0)]
IronRows == [b \in {"iron door bottom", "iron door top"} |-> Row("iron door", "pickaxe", 0)]
            @@ [b \in {"redstone lamp off", "redstone lamp on"} |-> Row("redstone lamp", "hand", 0)]
            @@ Itself({"lever", "wooden button", "stone button"}, "hand", 0)
StoreRows == Itself(DOMAIN Stores, "pickaxe", 1) @@ Itself({"wool"}, "shears", 0)
allBlock == GroundRows @@ OreRows @@ MadeRows @@ FoundRows @@ FarmRows @@ StairRows @@ SlabRows
            @@ HalfRows @@ RedstoneRows @@ IronRows @@ StoreRows
block == DOMAIN allBlock

furnaceRecipes == {<<"cobblestone", "stone">>, <<"iron ore", "iron ingot">>, <<"gold ore", "gold ingot">>,
                   <<"sand", "glass">>, <<"clay ball", "brick">>, <<"raw pork", "cooked pork">>}

\* A recipe: with the crafting table or without, its input, what it gives.
Recipe(table, input, output, amount) ==
    [needsCraftingTable |-> table, input |-> input, outputItem |-> output, outputItemAmount |-> amount]
Matter == <<"plank", "cobblestone", "iron ingot", "gold ingot", "diamond">>
Forge(names, sticks, matter) ==
    {Recipe(TRUE, "stick" :> sticks @@ Matter[n] :> matter, names[n], 1) : n \in DOMAIN names}

WoodRecipes == {Recipe(FALSE, "log" :> 1, "plank", 4), Recipe(FALSE, "plank" :> 2, "stick", 4)}
PickaxeRecipes == Forge(Pickaxes, 2, 3)
AxeRecipes     == Forge(Axes, 2, 3)
ShovelRecipes  == Forge(Shovels, 2, 1)
SwordRecipes   == Forge(Swords, 1, 2)
HoeRecipes     == Forge(Hoes, 2, 2)
HouseRecipes == {Recipe(FALSE, "plank" :> 4, "crafting table", 1), Recipe(TRUE, "cobblestone" :> 8, "furnace", 1),
                 Recipe(TRUE, "plank" :> 8, "chest", 1), Recipe(FALSE, "brick" :> 4, "bricks", 1),
                 Recipe(FALSE, "coal" :> 1 @@ "stick" :> 1, "torch", 4), Recipe(TRUE, "wheat" :> 3, "bread", 1)}
StairRecipes == {Recipe(TRUE, p[1] :> 6, p[2], 4) : p \in
                    {<<"plank", "wooden stairs">>, <<"cobblestone", "cobblestone stairs">>,
                     <<"stone", "stone stairs">>, <<"bricks", "brick stairs">>}}
SlabRecipes == {Recipe(TRUE, p[1] :> 3, p[2], 6) : p \in
                   {<<"plank", "wooden slab">>, <<"cobblestone", "cobblestone slab">>,
                    <<"stone", "stone slab">>, <<"bricks", "brick slab">>}}
DoorRecipes == {Recipe(TRUE, "plank" :> 3 @@ "wool" :> 3, "bed", 1),
                Recipe(TRUE, "plank" :> 6, "wooden door", 3), Recipe(TRUE, "iron ingot" :> 6, "iron door", 3)}
RedstoneRecipes == {Recipe(FALSE, "stick" :> 1 @@ "redstone dust" :> 1, "redstone torch", 1),
                    Recipe(TRUE, "redstone torch" :> 2 @@ "redstone dust" :> 1 @@ "stone" :> 3, "repeater", 1),
                    Recipe(TRUE, "glass" :> 8 @@ "redstone dust" :> 1, "redstone lamp", 1),
                    Recipe(FALSE, "stick" :> 1 @@ "cobblestone" :> 1, "lever", 1),
                    Recipe(FALSE, "plank" :> 1, "wooden button", 1), Recipe(FALSE, "stone" :> 1, "stone button", 1)}
StoreRecipes == {Recipe(TRUE, p[1] :> 9, p[2], 1) : p \in
                    {<<"coal", "coal block">>, <<"iron ingot", "iron block">>,
                     <<"gold ingot", "gold block">>, <<"diamond", "diamond block">>,
                     <<"redstone dust", "redstone block">>, <<"emerald", "emerald block">>}}
                \cup {Recipe(FALSE, "iron ingot" :> 2, "shears", 1)}
craftingRecipes == WoodRecipes \cup PickaxeRecipes \cup AxeRecipes \cup ShovelRecipes \cup SwordRecipes
                   \cup HoeRecipes \cup HouseRecipes \cup StairRecipes \cup SlabRecipes \cup DoorRecipes
                   \cup RedstoneRecipes \cup StoreRecipes

\* What Inventory assumes of the table: no recipe takes what it makes.
ASSUME NoRecipeTakesItsOutput ==
    \A r \in craftingRecipes : r.outputItem \notin DOMAIN r.input
=============================================================================
