----------------------------- MODULE Inventory -----------------------------
(***************************************************************************)
(* What the player carries: the nine hotbar slots, the inventory behind    *)
(* them and the chest being looked at (src/src/eninge.c).                  *)
(*                                                                         *)
(* The three parallel arrays of every container (types, amounts, hp) are   *)
(* one function from places to slots.  The places are numbered in the      *)
(* order in which the code scans them: hotbar, inventory, chest.           *)
(***************************************************************************)
EXTENDS Integers, FiniteSets, FiniteSetsExt, Functions

CONSTANTS
    HotbarSize,        \* 9 in the code
    InventorySize,     \* 27
    ChestSize,         \* 27
    StackLimit,        \* 64
    Pool,              \* the entity slots items can take: 0..127 in the code
    HpDebt,            \* bound: no use takes hp below - HpDebt
    AmountDebt,        \* bound: no use takes an amount below - AmountDebt
    Items,             \* the item indices of allItem
    NoItem,            \* the index -1
    breaksIn,          \* allItem[].breaksIn
    stackSize,         \* allItem[].stackSize
    toolType,          \* allItem[].toolType; toolType[NoItem] is allItem[-1]
    craftingRecipes,   \* the table of the same name
    furnaceRecipes,    \* the table of the same name: input |-> output
    Drops,             \* items a destroyed block or a dead mob can leave
    Shears, Wheat, Wool, Seeds,   \* items 94, 66, 95 and 65
    InitiallySelected  \* blockSelected before any world is open

Recipe == [needsCraftingTable : BOOLEAN,
           inputItemAmount    : [Items -> 0..StackLimit],
           outputItem         : Items,
           outputItemAmount   : 1..StackLimit]

ASSUME SizesAssumption ==
    /\ HotbarSize \in Nat \ {0}
    /\ InventorySize \in Nat
    /\ ChestSize \in Nat
    /\ StackLimit \in Nat \ {0}
    /\ Pool \subseteq Nat
    /\ HpDebt \in Nat
    /\ AmountDebt \in Nat

ASSUME ItemsAssumption ==
    /\ IsFiniteSet(Items)
    /\ NoItem \notin Items
    /\ NoItem \notin Int
    /\ Items \cap Int = {}
    /\ breaksIn \in [Items -> Nat]
    /\ stackSize \in [Items -> 1..StackLimit]
    /\ toolType \in [Items \cup {NoItem} -> Int]
    /\ craftingRecipes \subseteq Recipe
    /\ DOMAIN furnaceRecipes \subseteq Items
    /\ \A i \in DOMAIN furnaceRecipes : furnaceRecipes[i] \in Items
    /\ Drops \subseteq Items
    /\ InitiallySelected \in Items
    /\ NoItem \notin {Shears, Wheat, Wool, Seeds}

\* What the furnace and the mobs take is no tool.
ASSUME SpentItemsAssumption ==
    \A i \in Items : i = Wheat \/ i \in DOMAIN furnaceRecipes => breaksIn[i] = 0

\* No recipe takes what it makes (the table is in Items).
ASSUME RecipesAssumption ==
    \A r \in craftingRecipes : r.inputItemAmount[r.outputItem] = 0

VARIABLES
    slots,             \* [Place -> Slot]
    currentSlot,       \* the hotbar place in hand
    blockSelected,     \* the item the program believes to be in hand
    UIState,           \* the screen: "title", "game", "inventory", ...
    isInCraftingTable, \* the inventory screen was opened at a table
    picked,            \* what the first EXE chose; NoItem when cursorStage = 0
    survival,          \* survival or creative mode
    ground             \* [Pool -> item]: the item entities in the world

vars == <<slots, currentSlot, blockSelected, UIState, isInCraftingTable,
          picked, survival, ground>>

----------------------------------------------------------------------------
(* Places and slots.                                                       *)

Hotbar  == 0 .. HotbarSize - 1
Pack    == HotbarSize .. HotbarSize + InventorySize - 1
Carried == 0 .. HotbarSize + InventorySize - 1
Chest   == HotbarSize + InventorySize ..
               HotbarSize + InventorySize + ChestSize - 1
Place   == 0 .. HotbarSize + InventorySize + ChestSize - 1

EmptySlot == [type |-> NoItem, amount |-> 0, hp |-> 0]

\* The places the cursor reaches on each screen that moves items.
Reach == [inventory |-> Carried, chest |-> Place]

\* returnTotalItemAmount
Total(s, item) ==
    SumFunction([p \in Carried |-> IF s[p].type = item THEN s[p].amount ELSE 0])

----------------------------------------------------------------------------
(* addItemToHotbarInventory: the first hotbar slot of the same type with   *)
(* room, else the first empty hotbar slot, else the same in the inventory. *)
(* When no slot takes the whole amount, the items are gone.                *)

\* Mutant: the test for 64 is forgotten.
FitsAnything(s, places, type, n) == {p \in places : s[p].type = type}

Fits(s, places, type, n) ==
    {p \in places : s[p].type = type /\ s[p].amount + n <= StackLimit}

NoPlace == -1

\* Mutant: only the hotbar is searched.
PlaceForHotbarOnly(s, item, n) ==
    LET same == Fits(s, Hotbar, item, n)
        free == Fits(s, Hotbar, NoItem, n)
    IN  IF same # {} THEN Min(same) ELSE IF free # {} THEN Min(free)
        ELSE NoPlace

PlaceFor(s, item, n) ==
    LET tries == <<Fits(s, Hotbar, item, n), Fits(s, Hotbar, NoItem, n),
                   Fits(s, Pack, item, n), Fits(s, Pack, NoItem, n)>>
        good  == {k \in 1..4 : tries[k] # {}}
    IN  IF good = {} THEN NoPlace ELSE Min(tries[Min(good)])

\* Mutant: hp is set even when the slot already holds the item.
AddedAsNew(s, item, n) ==
    LET p == PlaceFor(s, item, n)
    IN  IF p \notin Carried THEN s
        ELSE [s EXCEPT ![p] = [type |-> item, amount |-> @.amount + n,
                               hp |-> breaksIn[item]]]

Added(s, item, n) ==
    LET p == PlaceFor(s, item, n)
    IN  IF p \notin Carried THEN s
        ELSE [s EXCEPT ![p] =
                 [type   |-> item,
                  amount |-> s[p].amount + n,
                  hp     |-> IF s[p].amount = 0 THEN breaksIn[item]
                             ELSE s[p].hp]]

(* removeItemFromInventoryHotbar, for every ingredient at once (no recipe  *)
(* names an ingredient twice): Left(s, item, n)[p] of the n items are      *)
(* still to be taken when the scan reaches place p.                        *)

Left(s, item, n) ==
    LET left[p \in Carried] ==
            IF p = 0 THEN n
            ELSE LET before == left[p - 1]
                     a      == s[p - 1].amount
                 IN  IF before = 0 \/ s[p - 1].type # item THEN before
                     ELSE IF a >= before THEN 0 ELSE before - a
    IN  left

Consumed(s, cost) ==
    [p \in Place |->
        IF p \notin Carried \/ s[p].type = NoItem THEN s[p]
        ELSE LET left == Left(s, s[p].type, cost[s[p].type])[p]
             IN  IF left = 0 THEN s[p]
                 ELSE IF left \in 1 .. s[p].amount - 1
                      THEN [s[p] EXCEPT !.amount = @ - left]
                      ELSE EmptySlot]

(* swapItems and swapItemsChest.                                           *)
\* Mutant: tempType is read after the first assignment.
SwappedCopies(s, p, q) == [s EXCEPT ![q] = s[p]]

Swapped(s, p, q) == [s EXCEPT ![p] = s[q], ![q] = s[p]]

(* updateItemSlected, and the same four lines wherever they are repeated.  *)
InHand(s) == s[currentSlot].type

(* makeItem takes the first free entity slot; without one nothing happens. *)
Dropped(g, item) ==
    LET free == {e \in Pool : g[e] = NoItem}
    IN  IF item \in Items /\ free # {} THEN [g EXCEPT ![Min(free)] = item]
        ELSE g

\* Wheat leaves two seeds beside it.
Harvested(g, drop) ==
    IF drop = Wheat THEN Dropped(Dropped(Dropped(g, Wheat), Seeds), Seeds)
    ELSE Dropped(g, drop)

----------------------------------------------------------------------------
Slot == [type : Items \cup {NoItem}, amount : Int, hp : Int]

Init ==
    /\ slots = [p \in Place |-> EmptySlot]
    /\ currentSlot = 0
    /\ blockSelected = InitiallySelected
    /\ UIState = "title"
    /\ isInCraftingTable = FALSE
    /\ picked = NoItem
    /\ survival \in BOOLEAN
    /\ ground = [e \in Pool |-> NoItem]

InWorld == UIState # "title"
InGame  == UIState = "game"

\* The bounds on the two counters that the code lets go below zero.
WithinBounds(s) ==
    /\ s[currentSlot].hp >= - HpDebt
    /\ s[currentSlot].amount >= - AmountDebt

(* The player presses 9 on a furnace: the item named by blockSelected goes *)
(* in, whatever the slot in hand holds, and the output drops beside it.    *)
UseFurnace ==
    /\ InGame
    /\ blockSelected \in DOMAIN furnaceRecipes
    /\ LET a == slots[currentSlot].amount - 1
       IN  IF a = 0
           THEN /\ slots' = [slots EXCEPT ![currentSlot].amount = 0,
                                          ![currentSlot].type = NoItem]
                /\ blockSelected' = NoItem
           ELSE /\ slots' = [slots EXCEPT ![currentSlot].amount = a]
                /\ UNCHANGED blockSelected
    /\ WithinBounds(slots')
    /\ ground' = Dropped(ground, furnaceRecipes[blockSelected])
    /\ UNCHANGED <<currentSlot, UIState, isInCraftingTable, picked, survival>>

(* 9 on grass or dirt with a hoe in hand: the hoe wears in survival.       *)
UseHoe ==
    /\ InGame
    /\ toolType[blockSelected] = 5
    /\ IF survival
       THEN /\ LET h == slots[currentSlot].hp - 1
               IN  IF h = 0
                   THEN /\ slots' = [slots EXCEPT ![currentSlot] = EmptySlot]
                        /\ blockSelected' = NoItem
                   ELSE /\ slots' = [slots EXCEPT ![currentSlot].hp = h]
                        /\ UNCHANGED blockSelected
            /\ WithinBounds(slots')
       ELSE UNCHANGED <<slots, blockSelected>>
    /\ UNCHANGED <<currentSlot, UIState, isInCraftingTable, picked, survival,
                   ground>>

----------------------------------------------------------------------------
(* 9 on any other block runs the five stages below in turn, each on what   *)
(* the one before left: a state is [slots, sel, ground].                   *)

\* One item of the slot in hand is used up; its hp is left as it is.
\* Mutant: the type is not cleared with the last item.
OneLessKeepsType(s) == [s EXCEPT ![currentSlot].amount = @ - 1]

OneLess(s) ==
    LET a == s[currentSlot].amount - 1
    IN  [s EXCEPT ![currentSlot].amount = a,
                  ![currentSlot].type = IF a = 0 THEN NoItem ELSE @]

\* Mutant: the slot is cleared in place of the last hp.
ShearForgetsWear(st, furred) ==
    IF st.sel # Shears \/ ~furred THEN st
    ELSE LET s == IF st.slots[currentSlot].hp = 1
                  THEN [st.slots EXCEPT ![currentSlot].type = NoItem]
                  ELSE [st.slots EXCEPT ![currentSlot].hp = @ - 1]
         IN  [slots  |-> IF survival THEN s ELSE st.slots,
              sel    |-> IF survival THEN InHand(s) ELSE st.sel,
              ground |-> Dropped(st.ground, Wool)]

\* Shears on a sheep with fur.
Shear(st, furred) ==
    IF st.sel # Shears \/ ~furred THEN st
    ELSE LET h == st.slots[currentSlot].hp - 1
             s == [st.slots EXCEPT
                      ![currentSlot].hp = h,
                      ![currentSlot].type = IF h = 0 THEN NoItem ELSE @]
         IN  [slots  |-> IF survival THEN s ELSE st.slots,
              sel    |-> IF survival THEN InHand(s) ELSE st.sel,
              ground |-> Dropped(st.ground, Wool)]

\* Wheat fed to a sheep or a pig; the amount is not looked at.
Feed(st, mob) ==
    IF st.sel # Wheat \/ ~mob \/ ~survival THEN st
    ELSE LET s == OneLess(st.slots)
         IN  [st EXCEPT !.slots = s, !.sel = InHand(s)]

\* Food: blockSelected is not refreshed, in creative mode it is eaten too.
Eat(st) ==
    IF toolType[st.sel] # 7 \/ st.slots[currentSlot].amount <= 0 THEN st
    ELSE [st EXCEPT !.slots = OneLess(st.slots)]

\* A spawn egg.
Hatch(st) ==
    IF toolType[st.sel] # 9 \/ st.slots[currentSlot].amount <= 0 \/ ~survival
    THEN st
    ELSE LET s == OneLess(st.slots)
         IN  [st EXCEPT !.slots = s, !.sel = InHand(s)]

\* A block; allowed says that placeBlock finds room for it.
PlaceBlock(st, allowed) ==
    IF \/ toolType[st.sel] # 0 \/ st.sel = NoItem \/ ~allowed
       \/ st.slots[currentSlot].amount <= 0
    THEN st
    ELSE LET s == IF survival THEN OneLess(st.slots) ELSE st.slots
         IN  [st EXCEPT !.slots = s, !.sel = InHand(s)]

UseItem(mob, furred, allowed) ==
    LET now  == [slots |-> slots, sel |-> blockSelected, ground |-> ground]
        then == PlaceBlock(Hatch(Eat(Feed(Shear(now, furred), mob))), allowed)
    IN  /\ InGame
        /\ furred => mob
        /\ slots' = then.slots
        /\ WithinBounds(slots')
        /\ blockSelected' = then.sel
        /\ ground' = then.ground
        /\ UNCHANGED <<currentSlot, UIState, isInCraftingTable, picked,
                       survival>>

(* 7 on a block: in survival a tool wears or, with hp 0, breaks instead;   *)
(* the block may leave an item.                                            *)
DestroyBlock(drop) ==
    /\ InGame
    /\ survival
    /\ IF blockSelected \in Items /\ breaksIn[blockSelected] > 0
       THEN IF slots[currentSlot].hp = 0
            THEN /\ slots' = [slots EXCEPT ![currentSlot].amount = 0,
                                           ![currentSlot].type = NoItem]
                 /\ blockSelected' = NoItem
                 /\ UNCHANGED ground
            ELSE /\ slots' = [slots EXCEPT ![currentSlot].hp = @ - 1]
                 /\ WithinBounds(slots')
                 /\ UNCHANGED blockSelected
                 /\ ground' = Harvested(ground, drop)
       ELSE /\ UNCHANGED <<slots, blockSelected>>
            /\ ground' = Harvested(ground, drop)
    /\ UNCHANGED <<currentSlot, UIState, isInCraftingTable, picked, survival>>

(* updateEntitys: an item entity next to the player is taken, on whatever  *)
(* screen the player is, and leaves the pool whether or not it found room. *)
PickUp(e) ==
    /\ InWorld
    /\ ground[e] # NoItem
    /\ slots' = Added(slots, ground[e], 1)
    /\ blockSelected' = IF PlaceFor(slots, ground[e], 1) \in Hotbar
                        THEN InHand(slots') ELSE blockSelected
    /\ ground' = [ground EXCEPT ![e] = NoItem]
    /\ UNCHANGED <<currentSlot, UIState, isInCraftingTable, picked, survival>>

(* A mob dies and leaves an item.                                          *)
MobDies(drop) ==
    /\ InWorld
    /\ ground' = Dropped(ground, drop)
    /\ UNCHANGED <<slots, currentSlot, blockSelected, UIState,
                   isInCraftingTable, picked, survival>>

\* Mutant: the slot in hand wraps one too late.
SelectSlotPastEnd(step) ==
    /\ InGame
    /\ currentSlot' = (currentSlot + step) % (HotbarSize + 1)
    /\ blockSelected' = slots[currentSlot % HotbarSize].type
    /\ UNCHANGED <<slots, UIState, isInCraftingTable, picked, survival,
                   ground>>

\* Mutant: blockSelected is not refreshed.
SelectSlotOnly(step) ==
    /\ InGame
    /\ currentSlot' = (currentSlot + step) % HotbarSize
    /\ UNCHANGED <<slots, blockSelected, UIState, isInCraftingTable, picked,
                   survival, ground>>

(* F1 and F2.                                                              *)
SelectSlot(step) ==
    /\ InGame
    /\ currentSlot' = (currentSlot + step) % HotbarSize
    /\ blockSelected' = slots[currentSlot'].type
    /\ UNCHANGED <<slots, UIState, isInCraftingTable, picked, survival,
                   ground>>

(* ALPHA.                                                                  *)
SwitchMode ==
    /\ InGame
    /\ survival' = ~survival
    /\ UNCHANGED <<slots, currentSlot, blockSelected, UIState,
                   isInCraftingTable, picked, ground>>

----------------------------------------------------------------------------
(* The screens.                                                            *)

OpenScreen ==
    /\ InGame
    /\ \/ /\ UIState' = IF survival THEN "inventory" ELSE "creative"  \* VARS
          /\ UNCHANGED isInCraftingTable
       \/ /\ UIState' = "inventory"                       \* 9 on a table
          /\ isInCraftingTable' = TRUE
       \/ /\ UIState' = "chest"                           \* 9 on a chest
          /\ UNCHANGED isInCraftingTable
    /\ UNCHANGED <<slots, currentSlot, blockSelected, picked, survival,
                   ground>>

CloseScreen ==
    /\ UIState \in {"inventory", "creative", "chest"}
    /\ UIState' = "game"
    /\ isInCraftingTable' = FALSE
    /\ picked' = NoItem
    /\ UNCHANGED <<slots, currentSlot, blockSelected, survival, ground>>

(* The first EXE on a slot remembers it, the second swaps the two.         *)
ChooseSlot(p) ==
    /\ UIState \in DOMAIN Reach /\ p \in Reach[UIState]
    /\ picked = NoItem
    /\ picked' = p
    /\ blockSelected' = InHand(slots)
    /\ UNCHANGED <<slots, currentSlot, UIState, isInCraftingTable, survival,
                   ground>>

SwapSlots(p) ==
    /\ UIState \in DOMAIN Reach /\ p \in Reach[UIState]
    /\ picked \in Place
    /\ slots' = Swapped(slots, picked, p)
    /\ picked' = NoItem
    /\ blockSelected' = InHand(slots')
    /\ UNCHANGED <<currentSlot, UIState, isInCraftingTable, survival, ground>>

(* EXE on a recipe.  blockSelected is refreshed even when it cannot be made. *)
CanCraft(r) ==
    /\ r.needsCraftingTable => isInCraftingTable
    /\ \A i \in Items : r.inputItemAmount[i] > 0 =>
                          Total(slots, i) >= r.inputItemAmount[i]

Craft(r) ==
    /\ UIState = "inventory"
    /\ IF CanCraft(r)
       THEN slots' = Added(Consumed(slots, r.inputItemAmount),
                           r.outputItem, r.outputItemAmount)
       ELSE UNCHANGED slots
    /\ blockSelected' = InHand(slots')
    /\ UNCHANGED <<currentSlot, UIState, isInCraftingTable, picked, survival,
                   ground>>

(* The creative menu: EXE on an item, then EXE on a hotbar slot.           *)
ChooseItem(item) ==
    /\ UIState = "creative"
    /\ picked = NoItem
    /\ picked' = item
    /\ UNCHANGED <<slots, currentSlot, blockSelected, UIState,
                   isInCraftingTable, survival, ground>>

PutItem(p) ==
    /\ UIState = "creative"
    /\ picked \in Items
    /\ slots' = [slots EXCEPT ![p] = [type   |-> picked,
                                      amount |-> stackSize[picked],
                                      hp     |-> breaksIn[picked]]]
    /\ picked' = NoItem
    /\ blockSelected' = InHand(slots')
    /\ UNCHANGED <<currentSlot, UIState, isInCraftingTable, survival, ground>>

----------------------------------------------------------------------------
(* The player dies: everything carried is gone, on whatever screen, and in *)
(* either mode: ALPHA may come between the damage and the next frame.      *)
Die ==
    /\ InWorld
    /\ slots' = [p \in Place |-> IF p \in Carried THEN EmptySlot
                                 ELSE slots[p]]
    /\ blockSelected' = NoItem
    /\ UNCHANGED <<currentSlot, UIState, isInCraftingTable, picked, survival,
                   ground>>

(* Back to the title: hp of the hotbar, the slot in hand, blockSelected    *)
(* and the chests stay as they are; the entities are cleared.              *)
Quit ==
    /\ InGame
    /\ UIState' = "title"
    /\ slots' = [p \in Place |->
                    IF p \in Hotbar
                    THEN [slots[p] EXCEPT !.type = NoItem, !.amount = 0]
                    ELSE IF p \in Pack THEN EmptySlot ELSE slots[p]]
    /\ ground' = [e \in Pool |-> NoItem]
    /\ UNCHANGED <<currentSlot, blockSelected, isInCraftingTable, picked,
                   survival>>

(* A new world is created, in either mode.                                 *)
CreateWorld ==
    /\ UIState = "title"
    /\ UIState' = "game"
    /\ survival' \in BOOLEAN
    /\ UNCHANGED <<slots, currentSlot, blockSelected, isInCraftingTable,
                   picked, ground>>

----------------------------------------------------------------------------
Next ==
    \/ UseFurnace
    \/ UseHoe
    \/ \E mob, furred, allowed \in BOOLEAN : UseItem(mob, furred, allowed)
    \/ \E drop \in Drops \cup {NoItem} : DestroyBlock(drop)
    \/ \E e \in Pool : PickUp(e)
    \/ \E drop \in Drops : MobDies(drop)
    \/ \E step \in {-1, 1} : SelectSlot(step)
    \/ SwitchMode
    \/ OpenScreen
    \/ CloseScreen
    \/ \E p \in Place : ChooseSlot(p)
    \/ \E p \in Place : SwapSlots(p)
    \/ \E r \in craftingRecipes : Craft(r)
    \/ \E item \in Items : ChooseItem(item)
    \/ \E p \in Hotbar : PutItem(p)
    \/ Die
    \/ Quit
    \/ CreateWorld

Spec == Init /\ [][Next]_vars
----------------------------------------------------------------------------
(* Type correctness of the three arrays, the cursor and the entity pool.   *)
TypeOK ==
    /\ slots \in [Place -> Slot]
    /\ currentSlot \in Hotbar
    /\ blockSelected \in Items \cup {NoItem}
    /\ UIState \in {"title", "game", "inventory", "creative", "chest"}
    /\ isInCraftingTable \in BOOLEAN
    /\ picked \in Place \cup Items \cup {NoItem}
    /\ survival \in BOOLEAN
    /\ ground \in [Pool -> Items \cup {NoItem}]

(* No slot of hotbar, inventory or chest ever holds more than a stack:     *)
(* whatever is picked up, crafted, swapped or put, each of the four passes *)
(* of addItemToHotbarInventory keeps to 64.                                *)
StackLimitHolds == \A p \in Place : slots[p].amount <= StackLimit

(* The program never takes the item in hand for ANOTHER item: blockSelected *)
(* is what the current slot holds, or the current slot is empty.  Every    *)
(* function that changes slots or the current slot refreshes blockSelected *)
(* on its own, and useBlock and destroyBlock act on the copy.              *)
SelectionNeverForeign ==
    slots[currentSlot].type \in {blockSelected, NoItem}

(* A tool never has more hp than a new one of its kind, through pick-ups,  *)
(* crafts, swaps and broken tools leaving their slot to others.            *)
HpBound ==
    \A p \in Place : slots[p].type # NoItem =>
                         slots[p].hp <= breaksIn[slots[p].type]

(* What HpBound rests on: a slot without a type that still counts items    *)
(* holds no hp, so the next item put there does not inherit any; and one   *)
(* emptied behind blockSelected holds no more than a tool of that kind.    *)
NoLeftoverHp ==
    /\ \A p \in Place : slots[p].type = NoItem /\ slots[p].amount # 0
                           => slots[p].hp <= 0
    /\ slots[currentSlot].type = NoItem /\ blockSelected # NoItem
         => slots[currentSlot].hp <= breaksIn[blockSelected]

\* How many places hold exactly this slot value.
CountOf(s, v) == Cardinality({p \in Place : s[p] = v})

CarriedEmpty(s) == \A p \in Carried : s[p] = EmptySlot

(* Moving items about a chest only rearranges: while the chest screen is   *)
(* open and nothing is picked up, every stack stays somewhere, with its    *)
(* type, amount and hp, unless the player dies.                            *)
SwapOnlyRearranges ==
    [][ (UIState = "chest" /\ UIState' = "chest" /\ ground' = ground)
          => \/ \A p \in Place :
                    CountOf(slots', slots[p]) = CountOf(slots, slots[p])
             \/ CarriedEmpty(slots') ]_vars

\* Every slot without a type is truly empty, every other one holds items.
NoJunk(s) == \A p \in Place : (s[p].type = NoItem) <=> (s[p].amount < 1)
Tidy(s) == NoJunk(s) /\ \A p \in Place : s[p].amount >= 0

\* Some slot the player carries takes all of what is made.
TakesWhole(s, item, n) ==
    \E p \in Carried : s[p].type \in {item, NoItem} /\ s[p].amount + n <= StackLimit

\* The step moves the totals by one recipe that was allowed and had all its
\* ingredients. Without its output only when no slot takes it whole, with
\* the ingredients already gone.
ChangesBy(r) ==
    /\ r.needsCraftingTable => isInCraftingTable
    /\ \A i \in Items : Total(slots, i) >= r.inputItemAmount[i]
    /\ \E made \in {0, r.outputItemAmount} :
        /\ \/ made = r.outputItemAmount
           \/ ~TakesWhole(slots', r.outputItem, r.outputItemAmount)
        /\ \A i \in Items :
             Total(slots', i) = Total(slots, i) - r.inputItemAmount[i]
                + (IF i = r.outputItem THEN made ELSE 0)

(* Crafting is exact: when the items carried change on the inventory       *)
(* screen with no pick-up, the totals moved by the ingredients and the     *)
(* output of one recipe, and the output is missing only when no slot had   *)
(* room for all of it (see CraftGivesOutput), unless the player dies.      *)
CraftIsExact ==
    [][ (/\ UIState = "inventory" /\ UIState' = "inventory"
         /\ ground' = ground /\ Tidy(slots)
         /\ \E i \in Items : Total(slots', i) # Total(slots, i))
        => CarriedEmpty(slots') \/ \E r \in craftingRecipes : ChangesBy(r) ]_vars

\* Some slot the player carries can take one more of the item.
RoomFor(item) ==
    \E p \in Carried : slots[p].type \in {item, NoItem}
                          /\ slots[p].amount < StackLimit

(* An item picked up is carried: the entity disappears from the world and  *)
(* the total grows by one, unless no slot at all has room for it.          *)
PickUpKeepsTheItem ==
    [][ \A e \in Pool :
          (/\ InWorld /\ UIState' # "title" /\ ground'[e] # ground[e]
           /\ ground[e] # NoItem /\ Tidy(slots) /\ RoomFor(ground[e]))
          => Total(slots', ground[e]) = Total(slots, ground[e]) + 1 ]_vars

(* Nothing repairs a tool: a slot that held a tool and still holds that    *)
(* kind has no more hp than before, pick-ups and crafts onto it included.  *)
(* (Outside the screens that move or replace slots.)                       *)
NothingRepairsATool ==
    [][ \A p \in Carried :
          (/\ UIState \in {"game", "inventory"} /\ UIState' = UIState
           /\ picked' = picked
           /\ slots[p].type # NoItem /\ slots[p].amount > 0
           /\ slots'[p].type = slots[p].type)
          => slots'[p].hp <= slots[p].hp ]_vars

\* The two ways in which the code can leave a slot half cleared.
ShearsBreak == blockSelected = Shears /\ survival /\ slots[currentSlot].hp = 1
EmptyHandUsed == blockSelected # NoItem /\ slots[currentSlot].type = NoItem

(* From tidy slots, a slot whose type and amount disagree only comes from  *)
(* shears breaking or from using an item whose last piece is already gone. *)
JunkOnlyFromKnownSites ==
    [][ Tidy(slots) => Tidy(slots') \/ ShearsBreak \/ EmptyHandUsed ]_vars

----------------------------------------------------------------------------
(* Expected by the documentation, and refuted.                             *)

(* doc/recipes.txt: one raw pork for one cooked pork.  Whenever the furnace *)
(* gives its output, one input item is gone from what the player carries.  *)
SmeltingCostsOneInput ==
    [][ \A i \in DOMAIN furnaceRecipes :
          (UseFurnace /\ blockSelected = i /\ ground' # ground)
          => Total(slots', i) = Total(slots, i) - 1 ]_vars

(* doc/recipes.txt: 4x planks for 1x log.  Whenever a craft takes its      *)
(* ingredients, the player has the output.                                 *)
CraftGivesOutput ==
    [][ \A r \in craftingRecipes :
          (Craft(r) /\ CanCraft(r))
          => Total(slots', r.outputItem) = Total(slots, r.outputItem)
                  - r.inputItemAmount[r.outputItem] + r.outputItemAmount ]_vars

(* The comment on breaksIn: how long the tool will last.  A tool is never  *)
(* used with no hp left.                                                   *)
ToolLastsBreaksIn ==
    \A p \in Place : slots[p].type # NoItem => slots[p].hp >= 0
=============================================================================
