-------------------------- MODULE InventoryProofs --------------------------
(***************************************************************************)
(* Theorems about Inventory, for every size, every item table and every    *)
(* recipe: what the slots always are, and then what one step may do to     *)
(* them: moving items rearranges them, and a tidy inventory stays tidy but *)
(* for two known places in the code.                                       *)
(***************************************************************************)
EXTENDS Inventory, Sums, FiniteSetTheorems, FunctionTheorems, WellFoundedInduction,
        TLAPS

(* A set of naturals that is not empty has a minimum.                      *)
LEMMA MinIsMember ==
    ASSUME NEW S \in SUBSET Nat, S # {}
    PROVE  Min(S) \in S
<1>. DEFINE Less == {ss \in Nat \X Nat : ss[1] < ss[2]}
<1>1. IsWellFoundedOn(Less, Nat)
    BY NatLessThanWellFounded DEF OpToRel
<1>2. PICK x \in S : \A y \in S : <<y, x>> \notin Less
    <2>. HIDE DEF Less
    <2>. QED  BY <1>1, WFMin
<1>3. ASSUME NEW y \in S  PROVE  x <= y
    <2>1. x \in Nat /\ y \in Nat
        OBVIOUS
    <2>2. <<y, x>> \notin Less
        BY <1>2
    <2>. QED
        BY <2>1, <2>2
<1>. QED
    BY <1>3 DEF Min

----------------------------------------------------------------------------
(* What the helpers return.                                                *)

Slots  == [Place -> Slot]
Ground == [Pool -> Items \cup {NoItem}]
Held   == Items \cup {NoItem}

LEMMA PlacesAreNumbers ==
    /\ Place \in SUBSET Nat  /\ Hotbar \subseteq Carried
    /\ Pack \subseteq Carried  /\ Carried \subseteq Place
    /\ Hotbar \cap Pack = {}
BY SizesAssumption DEF Place, Hotbar, Pack, Carried

(* addItemToHotbarInventory never chooses a slot of another type, nor one  *)
(* the amount does not fit in.                                             *)
LEMMA PlaceForFits ==
    ASSUME NEW s, NEW item, NEW n, PlaceFor(s, item, n) \in Carried
    PROVE  LET p == PlaceFor(s, item, n)
           IN  s[p].type \in {item, NoItem} /\ s[p].amount + n <= StackLimit
<1>. DEFINE tries == <<Fits(s, Hotbar, item, n), Fits(s, Hotbar, NoItem, n),
                       Fits(s, Pack, item, n), Fits(s, Pack, NoItem, n)>>
            good  == {k \in 1..4 : tries[k] # {}}
<1>1. good # {}
    <2>1. -1 \notin Carried
        BY SizesAssumption DEF Carried
    <2>. QED
        BY <2>1 DEF PlaceFor, NoPlace
<1>2. Min(good) \in good
    <2>1. good \in SUBSET Nat
        OBVIOUS
    <2>. HIDE DEF good
    <2>. QED
        BY <1>1, <2>1, MinIsMember
<1>. DEFINE k == Min(good)
<1>3. k \in 1..4 /\ tries[k] # {}
    BY <1>2
<1>4. PlaceFor(s, item, n) = Min(tries[k])
    BY <1>1 DEF PlaceFor
<1>. HIDE DEF k, good
<1>5. \/ tries[k] = Fits(s, Hotbar, item, n)
      \/ tries[k] = Fits(s, Hotbar, NoItem, n)
      \/ tries[k] = Fits(s, Pack, item, n)
      \/ tries[k] = Fits(s, Pack, NoItem, n)
    BY <1>3
<1>6. tries[k] \in SUBSET Nat
    BY <1>5, PlacesAreNumbers DEF Fits
<1>. HIDE DEF tries
<1>7. PlaceFor(s, item, n) \in tries[k]
    BY <1>3, <1>4, <1>6, MinIsMember
<1>. QED
    BY <1>5, <1>7 DEF Fits, tries

LEMMA AddedType ==
    ASSUME NEW s \in Slots, NEW item \in Items, NEW n \in Int
    PROVE  Added(s, item, n) \in Slots
<1>1. CASE PlaceFor(s, item, n) \notin Carried
    BY <1>1 DEF Added
<1>2. CASE PlaceFor(s, item, n) \in Carried
    <2>. DEFINE p == PlaceFor(s, item, n)
                v == [type   |-> item,
                      amount |-> s[p].amount + n,
                      hp     |-> IF s[p].amount = 0 THEN breaksIn[item]
                                 ELSE s[p].hp]
    <2>1. p \in Place
        BY <1>2, PlacesAreNumbers
    <2>. HIDE DEF p
    <2>2. v \in Slot
        BY <2>1, ItemsAssumption DEF Slots, Slot
    <2>3. Added(s, item, n) = [s EXCEPT ![p] = v]
        BY <1>2 DEF Added, p
    <2>. QED
        BY <2>2, <2>3 DEF Slots
<1>. QED
    BY <1>1, <1>2

LEMMA ConsumedType ==
    ASSUME NEW s \in Slots, NEW cost
    PROVE  Consumed(s, cost) \in Slots
<1>. SUFFICES ASSUME NEW p \in Place
              PROVE  Consumed(s, cost)[p] \in Slot
    BY DEF Consumed, Slots
<1>. DEFINE left == Left(s, s[p].type, cost[s[p].type])[p]
<1>. HIDE DEF left
<1>1. s[p] \in Slot
    BY DEF Slots
<1>2. EmptySlot \in Slot
    BY DEF EmptySlot, Slot
<1>3. left \in 1 .. s[p].amount - 1
        => [s[p] EXCEPT !.amount = s[p].amount - left] \in Slot
    BY <1>1 DEF Slot
<1>4. Consumed(s, cost)[p] =
          IF p \notin Carried \/ s[p].type = NoItem THEN s[p]
          ELSE IF left = 0 THEN s[p]
          ELSE IF left \in 1 .. s[p].amount - 1
               THEN [s[p] EXCEPT !.amount = s[p].amount - left]
               ELSE EmptySlot
    BY DEF Consumed, left
<1>. QED
    BY <1>1, <1>2, <1>3, <1>4

LEMMA DroppedType ==
    ASSUME NEW g \in Ground, NEW item
    PROVE  Dropped(g, item) \in Ground
BY DEF Dropped, Ground

LEMMA HarvestedType ==
    ASSUME NEW g \in Ground, NEW item
    PROVE  Harvested(g, item) \in Ground
BY DroppedType DEF Harvested

LEMMA OneLessType ==
    ASSUME NEW s \in Slots, currentSlot \in Place
    PROVE  OneLess(s) \in Slots
<1>. DEFINE a == s[currentSlot].amount - 1
            t == IF a = 0 THEN NoItem ELSE s[currentSlot].type
            s1 == [s EXCEPT ![currentSlot].amount = a]
<1>1. s1 \in Slots /\ t \in Held
    BY DEF Slots, Slot, Held
<1>2. OneLess(s) = [s1 EXCEPT ![currentSlot].type = t]
    BY DEF OneLess, Slots, Slot
<1>. QED
    <2>. HIDE DEF t, s1
    <2>. QED
        BY <1>1, <1>2 DEF Slots, Slot, Held

LEMMA ClearedType ==
    ASSUME NEW v \in Slot
    PROVE  [v EXCEPT !.type = NoItem, !.amount = 0] \in Slot
<1>. DEFINE w == [v EXCEPT !.type = NoItem]
<1>1. w \in Slot
    BY DEF Slot
<1>2. [v EXCEPT !.type = NoItem, !.amount = 0] = [w EXCEPT !.amount = 0]
    BY DEF Slot
<1>. QED
    <2>. HIDE DEF w
    <2>. QED
        BY <1>1, <1>2 DEF Slot

----------------------------------------------------------------------------
(* The five stages of useBlock keep the types.                             *)

St == [slots : Slots, sel : Held, ground : Ground]

LEMMA InHandType ==
    ASSUME NEW s \in Slots, currentSlot \in Place
    PROVE  InHand(s) \in Held
BY DEF InHand, Slots, Slot, Held

LEMMA ShearType ==
    ASSUME NEW st \in St, NEW furred, currentSlot \in Place
    PROVE  Shear(st, furred) \in St
<1>. DEFINE h == st.slots[currentSlot].hp - 1
            s == [st.slots EXCEPT
                     ![currentSlot].hp = h,
                     ![currentSlot].type = IF h = 0 THEN NoItem ELSE @]
<1>1. s \in Slots /\ st.slots \in Slots /\ st.sel \in Held
    BY DEF St, Slots, Slot
<1>2. InHand(s) \in Held
    BY <1>1, InHandType
<1>3. Dropped(st.ground, Wool) \in Ground
    BY DroppedType DEF St
<1>. QED
    BY <1>1, <1>2, <1>3 DEF Shear, St

LEMMA FeedType ==
    ASSUME NEW st \in St, NEW mob, currentSlot \in Place
    PROVE  Feed(st, mob) \in St
BY OneLessType, InHandType DEF Feed, St

LEMMA EatType ==
    ASSUME NEW st \in St, currentSlot \in Place
    PROVE  Eat(st) \in St
BY OneLessType DEF Eat, St

LEMMA HatchType ==
    ASSUME NEW st \in St, currentSlot \in Place
    PROVE  Hatch(st) \in St
BY OneLessType, InHandType DEF Hatch, St

LEMMA PlaceBlockType ==
    ASSUME NEW st \in St, NEW allowed, currentSlot \in Place
    PROVE  PlaceBlock(st, allowed) \in St
BY OneLessType, InHandType DEF PlaceBlock, St

----------------------------------------------------------------------------
(* Type correctness, for every size and every item table.                  *)
LEMMA TypeStep == TypeOK /\ [Next]_vars => TypeOK'
<1>. SUFFICES ASSUME TypeOK, [Next]_vars  PROVE TypeOK'
    OBVIOUS
<1>. USE DEF TypeOK
<1>0. /\ slots \in Slots /\ ground \in Ground /\ blockSelected \in Held
      /\ currentSlot \in Place /\ currentSlot \in Hotbar
    BY PlacesAreNumbers DEF Slots, Ground, Held
<1>1. CASE UseFurnace
    <2>1. slots' \in Slots
        BY <1>0, <1>1 DEF UseFurnace, Slots, Slot
    <2>2. ground' \in Ground
        BY <1>0, <1>1, DroppedType DEF UseFurnace
    <2>. QED
        BY <1>1, <2>1, <2>2 DEF UseFurnace, Slots, Ground
<1>2. CASE UseHoe
    <2>1. slots' \in Slots
        BY <1>0, <1>2 DEF UseHoe, Slots, Slot, EmptySlot
    <2>. QED
        BY <1>2, <2>1 DEF UseHoe, Slots
<1>3. ASSUME NEW mob \in BOOLEAN, NEW furred \in BOOLEAN,
             NEW allowed \in BOOLEAN, UseItem(mob, furred, allowed)
      PROVE  TypeOK'
    <2>. DEFINE now  == [slots |-> slots, sel |-> blockSelected,
                         ground |-> ground]
                then == PlaceBlock(Hatch(Eat(Feed(Shear(now, furred), mob))),
                                   allowed)
    <2>1. now \in St
        BY <1>0 DEF St
    <2>2. then \in St
        <3>. HIDE DEF now
        <3>1. Feed(Shear(now, furred), mob) \in St
            BY <1>0, <2>1, ShearType, FeedType
        <3>2. Hatch(Eat(Feed(Shear(now, furred), mob))) \in St
            BY <1>0, <3>1, EatType, HatchType
        <3>. QED
            BY <1>0, <3>2, PlaceBlockType
    <2>3. /\ slots' = then.slots /\ blockSelected' = then.sel
          /\ ground' = then.ground
          /\ UNCHANGED <<currentSlot, UIState, isInCraftingTable, picked,
                         survival>>
        BY <1>3 DEF UseItem
    <2>. HIDE DEF then
    <2>. QED
        BY <2>2, <2>3 DEF St, Slots, Ground, Held
<1>4. ASSUME NEW drop, DestroyBlock(drop)
      PROVE  TypeOK'
    <2>1. slots' \in Slots
        BY <1>0, <1>4 DEF DestroyBlock, Slots, Slot
    <2>2. ground' \in Ground
        BY <1>0, <1>4, HarvestedType DEF DestroyBlock
    <2>. QED
        BY <1>4, <2>1, <2>2 DEF DestroyBlock, Slots, Ground
<1>5. ASSUME NEW e \in Pool, PickUp(e)
      PROVE  TypeOK'
    <2>1. ground[e] \in Items
        BY <1>5 DEF PickUp
    <2>2. slots' \in Slots
        BY <1>0, <1>5, <2>1, AddedType DEF PickUp
    <2>3. blockSelected' \in Held
        BY <1>0, <1>5, <2>2, InHandType DEF PickUp, InHand, Slots, Slot, Held
    <2>. QED
        BY <1>5, <2>2, <2>3 DEF PickUp, Slots, Held
<1>6. ASSUME NEW drop, MobDies(drop)
      PROVE  TypeOK'
    <2>1. ground' \in Ground
        BY <1>0, <1>6, DroppedType DEF MobDies
    <2>. QED
        BY <1>6, <2>1 DEF MobDies, Ground
<1>7. ASSUME NEW step \in {-1, 1}, SelectSlot(step)
      PROVE  TypeOK'
    <2>1. currentSlot' \in Hotbar
        BY <1>7, SizesAssumption DEF SelectSlot, Hotbar
    <2>. QED
        BY <1>0, <1>7, <2>1, PlacesAreNumbers DEF SelectSlot, Slots, Slot
<1>8. CASE SwitchMode
    BY <1>8 DEF SwitchMode
<1>9. CASE OpenScreen
    BY <1>9 DEF OpenScreen
<1>10. CASE CloseScreen
    BY <1>10 DEF CloseScreen
<1>11. ASSUME NEW p \in Place, ChooseSlot(p)
       PROVE  TypeOK'
    BY <1>0, <1>11, InHandType DEF ChooseSlot, Held
<1>12. ASSUME NEW p \in Place, SwapSlots(p)
       PROVE  TypeOK'
    <2>1. slots' \in Slots
        BY <1>0, <1>12 DEF SwapSlots, Swapped, Slots
    <2>2. blockSelected' \in Held
        BY <1>0, <1>12, <2>1 DEF SwapSlots, InHand, Slots, Slot, Held
    <2>. QED
        BY <1>12, <2>1, <2>2 DEF SwapSlots, Slots, Held
<1>13. ASSUME NEW r \in craftingRecipes, Craft(r)
       PROVE  TypeOK'
    <2>1. r.outputItem \in Items /\ r.outputItemAmount \in Int
        BY SizesAssumption, ItemsAssumption DEF Recipe
    <2>2. slots' \in Slots
        BY <1>0, <1>13, <2>1, ConsumedType, AddedType DEF Craft
    <2>3. blockSelected' \in Held
        BY <1>0, <1>13, <2>2 DEF Craft, InHand, Slots, Slot, Held
    <2>. QED
        BY <1>13, <2>2, <2>3 DEF Craft, Slots, Held
<1>14. ASSUME NEW item \in Items, ChooseItem(item)
       PROVE  TypeOK'
    BY <1>14 DEF ChooseItem
<1>15. ASSUME NEW p \in Hotbar, PutItem(p)
       PROVE  TypeOK'
    <2>1. slots' \in Slots
        <3>. DEFINE v == [type |-> picked, amount |-> stackSize[picked],
                          hp |-> breaksIn[picked]]
        <3>1. v \in Slot
            BY <1>15, SizesAssumption, ItemsAssumption DEF PutItem, Slot
        <3>2. slots' = [slots EXCEPT ![p] = v]
            BY <1>15 DEF PutItem
        <3>. QED
            BY <1>0, <3>1, <3>2 DEF Slots
    <2>2. blockSelected' \in Held
        BY <1>0, <1>15, <2>1 DEF PutItem, InHand, Slots, Slot, Held
    <2>. QED
        BY <1>15, <2>1, <2>2 DEF PutItem, Slots, Held
<1>16. CASE Die
    BY <1>0, <1>16 DEF Die, Slots, Slot, EmptySlot
<1>17. CASE Quit
    <2>1. slots' \in Slots
        <3>. SUFFICES ASSUME NEW p \in Place
                      PROVE  slots'[p] \in Slot
            BY <1>17 DEF Quit, Slots
        <3>1. slots[p] \in Slot /\ EmptySlot \in Slot
            BY <1>0 DEF Slots, Slot, EmptySlot
        <3>2. [slots[p] EXCEPT !.type = NoItem, !.amount = 0] \in Slot
            BY <3>1, ClearedType
        <3>. QED
            BY <1>17, <3>1, <3>2 DEF Quit
    <2>. QED
        BY <1>17, <2>1 DEF Quit, Slots
<1>18. CASE CreateWorld
    BY <1>18 DEF CreateWorld
<1>19. CASE UNCHANGED vars
    BY <1>19 DEF vars
<1>. QED
    BY <1>1, <1>2, <1>3, <1>4, <1>5, <1>6, <1>7, <1>8, <1>9, <1>10, <1>11,
       <1>12, <1>13, <1>14, <1>15, <1>16, <1>17, <1>18, <1>19 DEF Next

(* The arrays, the cursor and the selection stay within their ranges.      *)
THEOREM TypeCorrect == Spec => []TypeOK
<1>1. Init => TypeOK
    <2>1. EmptySlot \in Slot /\ 0 \in Hotbar
        BY SizesAssumption DEF EmptySlot, Slot, Hotbar
    <2>. SUFFICES ASSUME Init  PROVE TypeOK
        OBVIOUS
    <2>2. slots \in [Place -> Slot] /\ ground \in [Pool -> Items \cup {NoItem}]
        BY <2>1 DEF Init
    <2>3. /\ blockSelected \in Items \cup {NoItem} /\ currentSlot \in Hotbar
          /\ isInCraftingTable \in BOOLEAN /\ survival \in BOOLEAN
          /\ UIState = "title" /\ picked = NoItem
        BY <2>1, ItemsAssumption DEF Init
    <2>. QED
        BY <2>2, <2>3 DEF TypeOK
<1>. QED
    BY <1>1, TypeStep, PTL DEF Spec

----------------------------------------------------------------------------
(* The inductive invariant behind StackLimitHolds, SelectionNeverForeign   *)
(* and HpBound: every slot is sound, and the slot in hand is tied to       *)
(* blockSelected.                                                          *)
SoundSlot(v) ==
    /\ v.amount <= StackLimit
    /\ v.type # NoItem => v.hp <= breaksIn[v.type]
    /\ v.type = NoItem /\ v.amount # 0 => v.hp <= 0

Sound(s) == \A p \in Place : SoundSlot(s[p])

Tied(v, sel) ==
    /\ v.type \in {sel, NoItem}
    /\ v.type = NoItem /\ sel # NoItem => v.hp <= breaksIn[sel]

IInv == Sound(slots) /\ Tied(slots[currentSlot], blockSelected)

LEMMA EmptyIsSound == SoundSlot(EmptySlot)
BY SizesAssumption DEF SoundSlot, EmptySlot

LEMMA RefreshedIsTied == \A v : Tied(v, v.type)
BY DEF Tied

LEMMA SoundPut ==
    ASSUME NEW s \in Slots, Sound(s), NEW c \in Place, NEW v, SoundSlot(v)
    PROVE  Sound([s EXCEPT ![c] = v])
BY DEF Sound, Slots

LEMMA AddedIsSound ==
    ASSUME NEW s \in Slots, Sound(s), NEW item \in Items, NEW n \in Int
    PROVE  Sound(Added(s, item, n))
<1>1. CASE PlaceFor(s, item, n) \notin Carried
    BY <1>1 DEF Added
<1>2. CASE PlaceFor(s, item, n) \in Carried
    <2>. DEFINE p == PlaceFor(s, item, n)
                v == [type   |-> item,
                      amount |-> s[p].amount + n,
                      hp     |-> IF s[p].amount = 0 THEN breaksIn[item]
                                 ELSE s[p].hp]
    <2>1. p \in Place
        BY <1>2, PlacesAreNumbers
    <2>2. s[p].type \in {item, NoItem} /\ s[p].amount + n <= StackLimit
        BY <1>2, PlaceForFits
    <2>3. Added(s, item, n) = [s EXCEPT ![p] = v]
        BY <1>2 DEF Added
    <2>. HIDE DEF p
    <2>4. SoundSlot(s[p]) /\ s[p] \in Slot
        BY <2>1 DEF Sound, Slots
    <2>5. SoundSlot(v)
        BY <2>2, <2>4, ItemsAssumption DEF SoundSlot, Slot
    <2>. HIDE DEF v
    <2>. QED
        BY <2>1, <2>3, <2>5, SoundPut
<1>. QED
    BY <1>1, <1>2

LEMMA ConsumedIsSound ==
    ASSUME NEW s \in Slots, Sound(s), NEW cost
    PROVE  Sound(Consumed(s, cost))
<1>. SUFFICES ASSUME NEW p \in Place
              PROVE  SoundSlot(Consumed(s, cost)[p])
    BY DEF Sound
<1>. DEFINE left == Left(s, s[p].type, cost[s[p].type])[p]
<1>1. Consumed(s, cost)[p] =
          IF p \notin Carried \/ s[p].type = NoItem THEN s[p]
          ELSE IF left = 0 THEN s[p]
          ELSE IF left \in 1 .. s[p].amount - 1
               THEN [s[p] EXCEPT !.amount = s[p].amount - left]
               ELSE EmptySlot
    BY DEF Consumed
<1>. HIDE DEF left
<1>2. SoundSlot(s[p]) /\ s[p] \in Slot
    BY DEF Sound, Slots
<1>3. s[p].type # NoItem /\ left \in 1 .. s[p].amount - 1
        => SoundSlot([s[p] EXCEPT !.amount = s[p].amount - left])
    BY <1>2, SizesAssumption DEF SoundSlot, Slot
<1>. QED
    BY <1>1, <1>2, <1>3, EmptyIsSound

LEMMA OneLessIs ==
    ASSUME NEW s \in Slots, currentSlot \in Place
    PROVE  /\ \A p \in Place : p # currentSlot => OneLess(s)[p] = s[p]
           /\ OneLess(s)[currentSlot].amount = s[currentSlot].amount - 1
           /\ OneLess(s)[currentSlot].hp = s[currentSlot].hp
           /\ OneLess(s)[currentSlot].type =
                  IF s[currentSlot].amount = 1 THEN NoItem
                  ELSE s[currentSlot].type
<1>. DEFINE a == s[currentSlot].amount - 1
            t == IF a = 0 THEN NoItem ELSE s[currentSlot].type
            s1 == [s EXCEPT ![currentSlot].amount = a]
<1>1. s1 \in Slots /\ s1[currentSlot].hp = s[currentSlot].hp
      /\ s1[currentSlot].amount = a
      /\ \A p \in Place : p # currentSlot => s1[p] = s[p]
    BY DEF Slots, Slot
<1>2. OneLess(s) = [s1 EXCEPT ![currentSlot].type = t]
    BY DEF OneLess, Slots, Slot
<1>3. (a = 0) <=> (s[currentSlot].amount = 1)
    BY DEF Slots, Slot
<1>. HIDE DEF s1, a
<1>. QED
    BY <1>1, <1>2, <1>3 DEF Slots, Slot, a

(* Using up one item leaves the slots sound, provided the slot is not an   *)
(* empty one with hp of its own.                                           *)
LEMMA OneLessIsSound ==
    ASSUME NEW s \in Slots, currentSlot \in Place, Sound(s),
           \/ s[currentSlot].type # NoItem
           \/ s[currentSlot].amount > 0
           \/ s[currentSlot].hp <= 0
    PROVE  Sound(OneLess(s))
<1>. DEFINE v == s[currentSlot]
            w == OneLess(s)[currentSlot]
<1>1. /\ w.amount = v.amount - 1 /\ w.hp = v.hp
      /\ w.type = IF v.amount = 1 THEN NoItem ELSE v.type
    BY OneLessIs
<1>2. v \in Slot /\ SoundSlot(v)
    BY DEF Slots, Sound
<1>3. SoundSlot(w)
    <2>. HIDE DEF v, w
    <2>1. v.type # NoItem \/ v.amount > 0 \/ v.hp <= 0
        BY DEF v
    <2>. QED
        BY <1>1, <1>2, <2>1, SizesAssumption DEF SoundSlot, Slot
<1>. QED
    BY <1>3, OneLessIs DEF Sound

----------------------------------------------------------------------------
(* The stages of useBlock keep the invariant.                              *)
Good(st) == Sound(st.slots) /\ Tied(st.slots[currentSlot], st.sel)

LEMMA ShearIsGood ==
    ASSUME NEW st \in St, NEW furred, currentSlot \in Place, Good(st)
    PROVE  Good(Shear(st, furred))
<1>. DEFINE v == st.slots[currentSlot]
            h == v.hp - 1
            t == IF h = 0 THEN NoItem ELSE v.type
            s1 == [st.slots EXCEPT ![currentSlot].hp = h]
            s == [s1 EXCEPT ![currentSlot].type = t]
<1>1. CASE st.sel # Shears \/ ~furred \/ ~survival
    <2>1. Shear(st, furred).slots = st.slots /\ Shear(st, furred).sel = st.sel
        BY <1>1 DEF Shear, St
    <2>. QED
        BY <2>1 DEF Good
<1>2. CASE st.sel = Shears /\ furred /\ survival
    <2>1. st.slots \in Slots /\ v \in Slot /\ SoundSlot(v)
        BY DEF St, Slots, Good, Sound
    <2>2. /\ s1 \in Slots /\ s1[currentSlot].hp = h
          /\ s1[currentSlot].type = v.type /\ s1[currentSlot].amount = v.amount
          /\ \A p \in Place : p # currentSlot => s1[p] = st.slots[p]
        BY <2>1 DEF Slots, Slot
    <2>3. /\ s[currentSlot].hp = h /\ s[currentSlot].type = t
          /\ s[currentSlot].amount = v.amount
          /\ \A p \in Place : p # currentSlot => s[p] = st.slots[p]
        <3>. HIDE DEF s1, h, t, v
        <3>. QED
            BY <2>2 DEF Slots, Slot
    <2>4. Shear(st, furred).slots = s /\ Shear(st, furred).sel = InHand(s)
        BY <1>2, <2>1 DEF Shear, St, Slots, Slot
    <2>. HIDE DEF s, s1
    <2>5. SoundSlot(s[currentSlot])
        BY <2>1, <2>3, ItemsAssumption DEF SoundSlot, Slot
    <2>6. Sound(s)
        BY <2>3, <2>5 DEF Sound, Good
    <2>. QED
        BY <2>4, <2>6, RefreshedIsTied DEF Good, InHand
<1>. QED
    BY <1>1, <1>2

LEMMA FeedIsGood ==
    ASSUME NEW st \in St, NEW mob, currentSlot \in Place, Good(st)
    PROVE  Good(Feed(st, mob))
<1>1. CASE st.sel # Wheat \/ ~mob \/ ~survival
    BY <1>1 DEF Feed
<1>2. CASE st.sel = Wheat /\ mob /\ survival
    <2>. DEFINE s == OneLess(st.slots)
    <2>1. Feed(st, mob).slots = s /\ Feed(st, mob).sel = InHand(s)
        BY <1>2 DEF Feed, St
    <2>2. breaksIn[Wheat] = 0 /\ Wheat # NoItem
        BY <1>2, ItemsAssumption, SpentItemsAssumption DEF St, Held
    <2>3. st.slots[currentSlot].type = NoItem => st.slots[currentSlot].hp <= 0
        BY <1>2, <2>2 DEF Good, Tied
    <2>4. Sound(s)
        BY <2>3, OneLessIsSound DEF Good, St
    <2>. QED
        BY <2>1, <2>4, RefreshedIsTied DEF Good, InHand
<1>. QED
    BY <1>1, <1>2

LEMMA EatIsGood ==
    ASSUME NEW st \in St, currentSlot \in Place, Good(st)
    PROVE  Good(Eat(st))
<1>1. CASE toolType[st.sel] # 7 \/ st.slots[currentSlot].amount <= 0
    BY <1>1 DEF Eat
<1>2. CASE ~ (toolType[st.sel] # 7 \/ st.slots[currentSlot].amount <= 0)
    <2>. DEFINE s == OneLess(st.slots)
                v == st.slots[currentSlot]
    <2>1. Eat(st).slots = s /\ Eat(st).sel = st.sel
        BY <1>2 DEF Eat, St
    <2>2. v \in Slot /\ v.amount > 0 /\ SoundSlot(v) /\ Tied(v, st.sel)
        BY <1>2 DEF Good, Sound, St, Slots, Slot
    <2>3. Sound(s)
        BY <2>2, OneLessIsSound DEF Good, St
    <2>4. s[currentSlot].type \in {v.type, NoItem} /\ s[currentSlot].hp = v.hp
        BY OneLessIs DEF St
    <2>5. Tied(s[currentSlot], st.sel)
        <3>. HIDE DEF s, v
        <3>1. st.sel # NoItem => breaksIn[st.sel] \in Nat
            BY ItemsAssumption DEF St, Held
        <3>. QED
            BY <2>2, <2>4, <3>1 DEF Tied, SoundSlot, Slot
    <2>. QED
        BY <2>1, <2>3, <2>5 DEF Good
<1>. QED
    BY <1>1, <1>2

LEMMA HatchIsGood ==
    ASSUME NEW st \in St, currentSlot \in Place, Good(st)
    PROVE  Good(Hatch(st))
<1>. DEFINE s == OneLess(st.slots)
            idle == toolType[st.sel] # 9 \/ st.slots[currentSlot].amount <= 0
                       \/ ~survival
<1>1. CASE idle
    BY <1>1 DEF Hatch
<1>2. CASE ~idle
    <2>1. Hatch(st).slots = s /\ Hatch(st).sel = InHand(s)
        BY <1>2 DEF Hatch, St
    <2>2. Sound(s)
        BY <1>2, OneLessIsSound DEF Good, St, Slots, Slot
    <2>. QED
        BY <2>1, <2>2, RefreshedIsTied DEF Good, InHand
<1>. QED
    BY <1>1, <1>2

LEMMA PlaceBlockIsGood ==
    ASSUME NEW st \in St, NEW allowed, currentSlot \in Place, Good(st)
    PROVE  Good(PlaceBlock(st, allowed))
<1>. DEFINE s == IF survival THEN OneLess(st.slots) ELSE st.slots
            idle == toolType[st.sel] # 0 \/ st.sel = NoItem \/ ~allowed
                       \/ st.slots[currentSlot].amount <= 0
<1>1. CASE idle
    BY <1>1 DEF PlaceBlock
<1>2. CASE ~idle
    <2>1. PlaceBlock(st, allowed).slots = s
          /\ PlaceBlock(st, allowed).sel = InHand(s)
        BY <1>2 DEF PlaceBlock, St
    <2>2. Sound(s)
        BY <1>2, OneLessIsSound DEF Good, St, Slots, Slot
    <2>. QED
        BY <2>1, <2>2, RefreshedIsTied DEF Good, InHand
<1>. QED
    BY <1>1, <1>2

----------------------------------------------------------------------------
(* Every step keeps the invariant.                                         *)
LEMMA SoundStep == TypeOK /\ IInv /\ [Next]_vars => IInv'
<1>. SUFFICES ASSUME TypeOK, IInv, [Next]_vars  PROVE IInv'
    OBVIOUS
<1>. DEFINE v == slots[currentSlot]
<1>0. /\ slots \in Slots /\ ground \in Ground /\ blockSelected \in Held
      /\ currentSlot \in Place /\ currentSlot \in Hotbar
      /\ v \in Slot /\ SoundSlot(v)
      /\ Sound(slots) /\ Tied(v, blockSelected)
    BY PlacesAreNumbers
       DEF TypeOK, IInv, Sound, Slots, Ground, Held
<1>1. CASE UseFurnace
    <2>. DEFINE w == slots'[currentSlot]
    <2>1. /\ currentSlot' = currentSlot
          /\ \A p \in Place : p # currentSlot => slots'[p] = slots[p]
          /\ w.hp = v.hp /\ w.amount = v.amount - 1
          /\ IF v.amount = 1 THEN w.type = NoItem /\ blockSelected' = NoItem
             ELSE w.type = v.type /\ blockSelected' = blockSelected
        <3>. DEFINE a == v.amount - 1
        <3>1. CASE a = 0
            BY <1>0, <1>1, <3>1 DEF UseFurnace, Slots, Slot
        <3>2. CASE a # 0
            BY <1>0, <1>1, <3>2 DEF UseFurnace, Slots, Slot
        <3>. QED
            BY <3>1, <3>2
    <2>2. v.type = NoItem => v.hp <= 0
        <3>1. /\ blockSelected \in DOMAIN furnaceRecipes
              /\ blockSelected \in Items
            BY <1>1, ItemsAssumption DEF UseFurnace
        <3>2. breaksIn[blockSelected] = 0 /\ blockSelected # NoItem
            BY <3>1, SpentItemsAssumption, ItemsAssumption
        <3>. QED
            BY <1>0, <3>2 DEF Tied
    <2>3. SoundSlot(w) /\ Tied(w, blockSelected')
        <3>. HIDE DEF v, w
        <3>. QED
            BY <1>0, <2>1, <2>2, SizesAssumption DEF SoundSlot, Tied, Slot
    <2>. QED
        BY <1>0, <2>1, <2>3 DEF IInv, Sound
<1>2. CASE UseHoe
    <2>. DEFINE w == slots'[currentSlot]
    <2>1. CASE ~survival
        BY <1>0, <1>2, <2>1 DEF UseHoe, IInv
    <2>2. CASE survival /\ v.hp = 1
        <3>1. /\ slots' = [slots EXCEPT ![currentSlot] = EmptySlot]
              /\ blockSelected' = NoItem /\ currentSlot' = currentSlot
            BY <1>0, <1>2, <2>2 DEF UseHoe
        <3>2. w = EmptySlot
            BY <1>0, <3>1 DEF Slots
        <3>3. Sound(slots')
            <4>. HIDE DEF EmptySlot
            <4>. QED  BY <1>0, <3>1, SoundPut, EmptyIsSound
        <3>4. Tied(EmptySlot, NoItem)
            BY DEF Tied, EmptySlot
        <3>. QED
            BY <3>1, <3>2, <3>3, <3>4 DEF IInv
    <2>3. CASE survival /\ v.hp # 1
        <3>1. slots' = [slots EXCEPT ![currentSlot].hp = v.hp - 1]
              /\ UNCHANGED <<blockSelected, currentSlot>>
            BY <1>0, <1>2, <2>3 DEF UseHoe, Slot
        <3>2. w.type = v.type /\ w.amount = v.amount /\ w.hp = v.hp - 1
              /\ \A p \in Place : p # currentSlot => slots'[p] = slots[p]
            BY <1>0, <3>1 DEF Slots, Slot
        <3>3. SoundSlot(w) /\ Tied(w, blockSelected)
            <4>. HIDE DEF v, w
            <4>. QED
                BY <1>0, <3>2, ItemsAssumption DEF SoundSlot, Tied, Slot, Held
        <3>. QED
            BY <1>0, <3>1, <3>2, <3>3 DEF IInv, Sound
    <2>. QED
        BY <2>1, <2>2, <2>3
<1>3. ASSUME NEW mob \in BOOLEAN, NEW furred \in BOOLEAN,
             NEW allowed \in BOOLEAN, UseItem(mob, furred, allowed)
      PROVE  IInv'
    <2>. DEFINE now  == [slots |-> slots, sel |-> blockSelected,
                         ground |-> ground]
                shorn == Shear(now, furred)
                fed == Feed(shorn, mob)
                fuller == Eat(fed)
                hatched == Hatch(fuller)
                then == PlaceBlock(hatched, allowed)
    <2>1. now \in St /\ Good(now)
        BY <1>0 DEF St, Good
    <2>2. shorn \in St /\ Good(shorn)
        <3>. HIDE DEF now
        <3>. QED  BY <1>0, <2>1, ShearType, ShearIsGood
    <2>3. fed \in St /\ Good(fed)
        <3>. HIDE DEF shorn
        <3>. QED  BY <1>0, <2>2, FeedType, FeedIsGood
    <2>4. fuller \in St /\ Good(fuller)
        <3>. HIDE DEF fed
        <3>. QED  BY <1>0, <2>3, EatType, EatIsGood
    <2>5. hatched \in St /\ Good(hatched)
        <3>. HIDE DEF fuller
        <3>. QED  BY <1>0, <2>4, HatchType, HatchIsGood
    <2>6. Good(then)
        <3>. HIDE DEF hatched
        <3>. QED  BY <1>0, <2>5, PlaceBlockIsGood
    <2>7. slots' = then.slots /\ blockSelected' = then.sel
          /\ currentSlot' = currentSlot
        BY <1>3 DEF UseItem
    <2>. HIDE DEF then
    <2>. QED
        BY <2>6, <2>7 DEF Good, IInv
<1>4. ASSUME NEW drop, DestroyBlock(drop)
      PROVE  IInv'
    <2>. DEFINE w == slots'[currentSlot]
    <2>1. /\ currentSlot' = currentSlot
          /\ \A p \in Place : p # currentSlot => slots'[p] = slots[p]
          /\ \/ w = v /\ blockSelected' = blockSelected
             \/ /\ v.hp = 0 /\ w.hp = 0 /\ w.amount = 0 /\ w.type = NoItem
                /\ blockSelected' = NoItem
             \/ /\ w.hp = v.hp - 1 /\ w.amount = v.amount /\ w.type = v.type
                /\ blockSelected' = blockSelected
        <3>. DEFINE tool == /\ blockSelected \in Items
                            /\ breaksIn[blockSelected] > 0
        <3>1. CASE ~tool
            BY <1>0, <1>4, <3>1 DEF DestroyBlock
        <3>2. CASE tool /\ v.hp = 0
            <4>1. /\ slots' = [slots EXCEPT ![currentSlot].amount = 0,
                                            ![currentSlot].type = NoItem]
                  /\ blockSelected' = NoItem /\ currentSlot' = currentSlot
                BY <1>4, <3>2 DEF DestroyBlock
            <4>. QED
                BY <1>0, <3>2, <4>1 DEF Slots, Slot
        <3>3. CASE tool /\ v.hp # 0
            <4>1. /\ slots' = [slots EXCEPT ![currentSlot].hp = v.hp - 1]
                  /\ UNCHANGED <<blockSelected, currentSlot>>
                BY <1>4, <3>3 DEF DestroyBlock
            <4>. QED
                BY <1>0, <4>1 DEF Slots, Slot
        <3>. QED
            BY <3>1, <3>2, <3>3
    <2>2. SoundSlot(w) /\ Tied(w, blockSelected')
        <3>. HIDE DEF v, w
        <3>. QED
            BY <1>0, <2>1, SizesAssumption, ItemsAssumption
               DEF SoundSlot, Tied, Slot, Held
    <2>. QED
        BY <1>0, <2>1, <2>2 DEF IInv, Sound
<1>5. ASSUME NEW e \in Pool, PickUp(e)
      PROVE  IInv'
    <2>. DEFINE item == ground[e]
                p == PlaceFor(slots, item, 1)
    <2>1. item \in Items
        BY <1>5 DEF PickUp, TypeOK
    <2>2. slots' = Added(slots, item, 1) /\ currentSlot' = currentSlot
          /\ blockSelected' = IF p \in Hotbar THEN InHand(slots')
                              ELSE blockSelected
        BY <1>5 DEF PickUp
    <2>. HIDE DEF item
    <2>3. Sound(slots')
        BY <1>0, <2>1, <2>2, AddedIsSound
    <2>4. Tied(slots'[currentSlot], blockSelected')
        <3>1. CASE p \in Hotbar
            BY <2>2, <3>1, RefreshedIsTied DEF InHand
        <3>2. CASE p \notin Hotbar
            <4>. HIDE DEF p
            <4>1. slots'[currentSlot] = v
                BY <1>0, <2>2, <3>2 DEF Added, p, Slots
            <4>. QED
                BY <1>0, <2>2, <3>2, <4>1
        <3>. QED
            BY <3>1, <3>2
    <2>. QED
        BY <2>2, <2>3, <2>4 DEF IInv
<1>6. ASSUME NEW drop, MobDies(drop)
      PROVE  IInv'
    BY <1>6 DEF MobDies, IInv
<1>7. ASSUME NEW step \in {-1, 1}, SelectSlot(step)
      PROVE  IInv'
    BY <1>0, <1>7, RefreshedIsTied DEF SelectSlot, IInv
<1>8. CASE SwitchMode
    BY <1>8 DEF SwitchMode, IInv
<1>9. CASE OpenScreen
    BY <1>9 DEF OpenScreen, IInv
<1>10. CASE CloseScreen
    BY <1>10 DEF CloseScreen, IInv
<1>11. ASSUME NEW p \in Place, ChooseSlot(p)
       PROVE  IInv'
    BY <1>0, <1>11, RefreshedIsTied DEF ChooseSlot, InHand, IInv
<1>12. ASSUME NEW p \in Place, SwapSlots(p)
       PROVE  IInv'
    <2>1. Sound(slots')
        BY <1>0, <1>12 DEF SwapSlots, Swapped, Sound, Slots
    <2>. QED
        BY <1>12, <2>1, RefreshedIsTied DEF SwapSlots, InHand, IInv
<1>13. ASSUME NEW r \in craftingRecipes, Craft(r)
       PROVE  IInv'
    <2>1. r.outputItem \in Items /\ r.outputItemAmount \in Int
        BY SizesAssumption, ItemsAssumption DEF Recipe
    <2>2. Sound(slots')
        <3>1. CASE CanCraft(r)
            <4>1. /\ Consumed(slots, r.inputItemAmount) \in Slots
                  /\ Sound(Consumed(slots, r.inputItemAmount))
                BY <1>0, ConsumedType, ConsumedIsSound
            <4>. QED
                BY <1>13, <2>1, <3>1, <4>1, AddedIsSound DEF Craft
        <3>2. CASE ~CanCraft(r)
            BY <1>0, <1>13, <3>2 DEF Craft
        <3>. QED
            BY <3>1, <3>2
    <2>. QED
        BY <1>13, <2>2, RefreshedIsTied DEF Craft, InHand, IInv
<1>14. ASSUME NEW item \in Items, ChooseItem(item)
       PROVE  IInv'
    BY <1>14 DEF ChooseItem, IInv
<1>15. ASSUME NEW p \in Hotbar, PutItem(p)
       PROVE  IInv'
    <2>. DEFINE w == [type |-> picked, amount |-> stackSize[picked],
                      hp |-> breaksIn[picked]]
    <2>1. SoundSlot(w)
        BY <1>15, SizesAssumption, ItemsAssumption DEF PutItem, SoundSlot
    <2>2. slots' = [slots EXCEPT ![p] = w]
        BY <1>15 DEF PutItem
    <2>. HIDE DEF w
    <2>3. Sound(slots')
        BY <1>0, <2>1, <2>2, SoundPut, PlacesAreNumbers
    <2>. QED
        BY <1>15, <2>3, RefreshedIsTied DEF PutItem, InHand, IInv
<1>16. CASE Die
    <2>1. Sound(slots')
        BY <1>0, <1>16, EmptyIsSound DEF Die, Sound
    <2>2. slots'[currentSlot] = EmptySlot /\ blockSelected' = NoItem
          /\ currentSlot' = currentSlot
        BY <1>0, <1>16, PlacesAreNumbers DEF Die
    <2>. QED
        BY <2>1, <2>2 DEF IInv, Tied, EmptySlot
<1>17. CASE Quit
    <2>1. ASSUME NEW p \in Place
          PROVE  SoundSlot(slots'[p])
        <3>1. SoundSlot(slots[p]) /\ slots[p] \in Slot
            BY <1>0 DEF Sound, Slots
        <3>2. SoundSlot([slots[p] EXCEPT !.type = NoItem, !.amount = 0])
            BY <3>1, SizesAssumption DEF SoundSlot, Slot
        <3>. QED
            BY <1>17, <3>1, <3>2, EmptyIsSound DEF Quit
    <2>2. /\ slots'[currentSlot] = [v EXCEPT !.type = NoItem, !.amount = 0]
          /\ UNCHANGED <<currentSlot, blockSelected>>
        BY <1>0, <1>17 DEF Quit
    <2>3. slots'[currentSlot].hp = v.hp /\ slots'[currentSlot].type = NoItem
        <3>. HIDE DEF v
        <3>. QED  BY <1>0, <2>2 DEF Slot
    <2>4. Tied(slots'[currentSlot], blockSelected)
        <3>. HIDE DEF v
        <3>. QED  BY <1>0, <2>3 DEF Tied, SoundSlot
    <2>. QED
        BY <2>1, <2>2, <2>4 DEF IInv, Sound
<1>18. CASE CreateWorld
    BY <1>18 DEF CreateWorld, IInv
<1>19. CASE UNCHANGED vars
    BY <1>19 DEF vars, IInv
<1>. QED
    BY <1>1, <1>2, <1>3, <1>4, <1>5, <1>6, <1>7, <1>8, <1>9, <1>10, <1>11,
       <1>12, <1>13, <1>14, <1>15, <1>16, <1>17, <1>18, <1>19 DEF Next

LEMMA InvariantHolds == Spec => [](TypeOK /\ IInv)
<1>1. Init => IInv
    <2>. SUFFICES ASSUME Init  PROVE IInv
        OBVIOUS
    <2>1. 0 \in Place /\ InitiallySelected # NoItem
          /\ breaksIn[InitiallySelected] \in Nat
        BY SizesAssumption, ItemsAssumption DEF Place
    <2>2. Tied(EmptySlot, InitiallySelected)
        BY <2>1 DEF Tied, EmptySlot
    <2>. QED
        BY <2>1, <2>2, EmptyIsSound DEF Init, IInv, Sound
<1>. QED
    BY <1>1, SoundStep, TypeCorrect, PTL DEF Spec

(* No slot ever holds more than a stack, whatever is picked up, crafted,   *)
(* swapped or put.                                                         *)
THEOREM StackLimitCorrect == Spec => []StackLimitHolds
<1>1. IInv => StackLimitHolds
    BY DEF IInv, Sound, SoundSlot, StackLimitHolds
<1>. QED
    BY <1>1, InvariantHolds, PTL

(* blockSelected, the copy that useBlock and destroyBlock act on, is never *)
(* another item than the one in the slot in hand.                          *)
THEOREM SelectionCorrect == Spec => []SelectionNeverForeign
<1>1. IInv => SelectionNeverForeign
    BY DEF IInv, Tied, SelectionNeverForeign
<1>. QED
    BY <1>1, InvariantHolds, PTL

(* No tool ever has more hp than a new one of its kind.                    *)
THEOREM HpCorrect == Spec => [](HpBound /\ NoLeftoverHp)
<1>1. IInv => HpBound /\ NoLeftoverHp
    BY DEF IInv, Sound, SoundSlot, Tied, HpBound, NoLeftoverHp
<1>. QED
    BY <1>1, InvariantHolds, PTL

(***************************************************************************)
(* What one step may do to the slots.                                      *)
(***************************************************************************)
----------------------------------------------------------------------------
(* Swapping.                                                               *)

Turned(p, q, x) == IF x = p THEN q ELSE IF x = q THEN p ELSE x

LEMMA SwapCounts ==
    ASSUME NEW s \in Slots, NEW p \in Place, NEW q \in Place, NEW v
    PROVE  CountOf(Swapped(s, p, q), v) = CountOf(s, v)
<1>. DEFINE t == Swapped(s, p, q)
            S == {x \in Place : s[x] = v}
            T == {x \in Place : t[x] = v}
            f == [x \in S |-> Turned(p, q, x)]
<1>1. \A x \in Place : t[x] = s[Turned(p, q, x)]
    BY DEF Swapped, Slots, Turned
<1>2. \A x \in Place : Turned(p, q, x) \in Place /\ Turned(p, q, Turned(p, q, x)) = x
    BY DEF Turned
<1>3. f \in [S -> T]
    BY <1>1, <1>2
<1>4. \A a, b \in S : f[a] = f[b] => a = b
    BY <1>2
<1>5. ASSUME NEW y \in T PROVE \E x \in S : f[x] = y
    <2>1. Turned(p, q, y) \in S
        BY <1>1, <1>2
    <2>. QED
        BY <1>2, <2>1
<1>6. f \in Bijection(S, T)
    <2>. HIDE DEF f, S, T
    <2>. QED  BY <1>3, <1>4, <1>5, Fun_IsBij
<1>7. IsFiniteSet(S)
    <2>1. IsFiniteSet(Place)
        BY SizesAssumption, FS_Interval DEF Place
    <2>. QED
        BY <2>1, FS_Subset
<1>8. Cardinality(T) = Cardinality(S)
    <2>. HIDE DEF f, S, T
    <2>. QED  BY <1>6, <1>7, FS_Bijection DEF ExistsBijection
<1>. QED
    BY <1>8 DEF CountOf

LEMMA RearrangeStep ==
    ASSUME TypeOK, [Next]_vars,
           UIState = "chest", UIState' = "chest", ground' = ground
    PROVE  \/ \A p \in Place : CountOf(slots', slots[p]) = CountOf(slots, slots[p])
           \/ CarriedEmpty(slots')
<1>0. slots \in Slots /\ ground \in Ground
    BY DEF TypeOK, Slots, Ground
<1>1. CASE slots' = slots
    BY <1>1
<1>2. ASSUME NEW p \in Place, SwapSlots(p)
      PROVE  \A x \in Place : CountOf(slots', slots[x]) = CountOf(slots, slots[x])
    BY <1>0, <1>2, SwapCounts DEF SwapSlots
<1>3. CASE Die
    BY <1>3, PlacesAreNumbers DEF Die, CarriedEmpty
<1>4. ASSUME NEW e \in Pool, PickUp(e)
      PROVE  FALSE
    <2>1. ground'[e] = NoItem /\ ground[e] # NoItem
        BY <1>0, <1>4 DEF PickUp, Ground
    <2>. QED
        BY <2>1
<1>5. ASSUME \/ \E drop \in Drops : MobDies(drop)
             \/ \E p \in Place : ChooseSlot(p)
             \/ CloseScreen \/ UNCHANGED vars
      PROVE  slots' = slots
    BY <1>5 DEF MobDies, ChooseSlot, CloseScreen, vars
<1>6. ASSUME \/ UseFurnace \/ UseHoe
             \/ \E mob, furred, allowed \in BOOLEAN : UseItem(mob, furred, allowed)
             \/ \E drop \in Drops \cup {NoItem} : DestroyBlock(drop)
             \/ \E step \in {-1, 1} : SelectSlot(step)
             \/ SwitchMode \/ OpenScreen \/ Quit \/ CreateWorld
             \/ \E r \in craftingRecipes : Craft(r)
             \/ \E item \in Items : ChooseItem(item)
             \/ \E p \in Hotbar : PutItem(p)
      PROVE  FALSE
    BY <1>6 DEF UseFurnace, UseHoe, UseItem, DestroyBlock, SelectSlot, SwitchMode,
                OpenScreen, Quit, CreateWorld, Craft, ChooseItem, PutItem, InGame
<1>. QED
    BY <1>1, <1>2, <1>3, <1>4, <1>5, <1>6 DEF Next

(* Moving items about a chest only rearranges them, whatever the sizes.    *)
THEOREM RearrangeCorrect == Spec => SwapOnlyRearranges
<1>1. TypeOK /\ [Next]_vars =>
        [ (UIState = "chest" /\ UIState' = "chest" /\ ground' = ground)
          => \/ \A p \in Place :
                    CountOf(slots', slots[p]) = CountOf(slots, slots[p])
             \/ CarriedEmpty(slots') ]_vars
    BY RearrangeStep
<1>. QED
    BY <1>1, TypeCorrect, PTL DEF Spec, SwapOnlyRearranges

----------------------------------------------------------------------------
(* Tidiness.                                                               *)

TidySlot(v) == ((v.type = NoItem) <=> (v.amount < 1)) /\ v.amount >= 0

LEMMA TidyMeans == \A s : Tidy(s) <=> \A p \in Place : TidySlot(s[p])
BY DEF Tidy, NoJunk, TidySlot

LEMMA EmptyIsTidy == TidySlot(EmptySlot)
BY DEF TidySlot, EmptySlot

LEMMA TidyPut ==
    ASSUME NEW s \in Slots, Tidy(s), NEW c \in Place, NEW v, TidySlot(v)
    PROVE  Tidy([s EXCEPT ![c] = v])
<1>1. \A p \in Place : [s EXCEPT ![c] = v][p] = IF p = c THEN v ELSE s[p]
    BY DEF Slots
<1>. QED
    BY <1>1, TidyMeans

LEMMA AddedIsTidy ==
    ASSUME NEW s \in Slots, Tidy(s), NEW item \in Items, NEW n \in Nat \ {0}
    PROVE  Tidy(Added(s, item, n))
<1>1. CASE PlaceFor(s, item, n) \notin Carried
    BY <1>1 DEF Added
<1>2. CASE PlaceFor(s, item, n) \in Carried
    <2>. DEFINE p == PlaceFor(s, item, n)
                v == [type   |-> item,
                      amount |-> s[p].amount + n,
                      hp     |-> IF s[p].amount = 0 THEN breaksIn[item]
                                 ELSE s[p].hp]
    <2>1. p \in Place
        BY <1>2, PlacesAreNumbers
    <2>2. Added(s, item, n) = [s EXCEPT ![p] = v]
        BY <1>2 DEF Added
    <2>. HIDE DEF p
    <2>3. s[p] \in Slot /\ TidySlot(s[p])
        BY <2>1, TidyMeans DEF Slots
    <2>4. TidySlot(v)
        BY <2>3, ItemsAssumption DEF TidySlot, Slot
    <2>. HIDE DEF v
    <2>. QED
        BY <2>1, <2>2, <2>4, TidyPut
<1>. QED
    BY <1>1, <1>2

LEMMA ConsumedIsTidy ==
    ASSUME NEW s \in Slots, Tidy(s), NEW cost
    PROVE  Tidy(Consumed(s, cost))
<1>. SUFFICES ASSUME NEW p \in Place
              PROVE  TidySlot(Consumed(s, cost)[p])
    BY TidyMeans
<1>. DEFINE left == Left(s, s[p].type, cost[s[p].type])[p]
<1>. HIDE DEF left
<1>1. s[p] \in Slot /\ TidySlot(s[p])
    BY TidyMeans DEF Slots
<1>2. Consumed(s, cost)[p] =
          IF p \notin Carried \/ s[p].type = NoItem THEN s[p]
          ELSE IF left = 0 THEN s[p]
          ELSE IF left \in 1 .. s[p].amount - 1
               THEN [s[p] EXCEPT !.amount = s[p].amount - left]
               ELSE EmptySlot
    BY DEF Consumed, left
<1>3. ASSUME left \in 1 .. s[p].amount - 1
      PROVE  TidySlot([s[p] EXCEPT !.amount = s[p].amount - left])
    BY <1>1, <1>3 DEF TidySlot, Slot
<1>. QED
    BY <1>1, <1>2, <1>3, EmptyIsTidy

(* The last piece takes its type with it.                                  *)
LEMMA OneLessIsTidy ==
    ASSUME NEW s \in Slots, currentSlot \in Place, Tidy(s), s[currentSlot].amount > 0
    PROVE  Tidy(OneLess(s))
<1>1. s[currentSlot] \in Slot /\ TidySlot(s[currentSlot])
    BY TidyMeans DEF Slots
<1>2. TidySlot(OneLess(s)[currentSlot])
    BY <1>1, OneLessIs DEF TidySlot, Slot
<1>3. \A p \in Place : TidySlot(OneLess(s)[p])
    BY <1>2, OneLessIs, TidyMeans
<1>. QED
    BY <1>3, TidyMeans

(* Wear alone.                                                             *)
LEMMA WornIsTidy ==
    ASSUME NEW s \in Slots, currentSlot \in Place, Tidy(s), NEW h \in Int
    PROVE  Tidy([s EXCEPT ![currentSlot].hp = h])
<1>1. s[currentSlot] \in Slot /\ TidySlot(s[currentSlot])
    BY TidyMeans DEF Slots
<1>. DEFINE v == [s[currentSlot] EXCEPT !.hp = h]
<1>2. TidySlot(v) /\ [s EXCEPT ![currentSlot].hp = h] = [s EXCEPT ![currentSlot] = v]
    BY <1>1 DEF TidySlot, Slot, Slots
<1>. HIDE DEF v
<1>. QED
    BY <1>2, TidyPut

LEMMA EmptiedIsTidy ==
    ASSUME NEW s \in Slots, currentSlot \in Place, Tidy(s)
    PROVE  Tidy([s EXCEPT ![currentSlot].amount = 0, ![currentSlot].type = NoItem])
<1>. DEFINE t == [s EXCEPT ![currentSlot].amount = 0, ![currentSlot].type = NoItem]
<1>1. /\ t[currentSlot].amount = 0 /\ t[currentSlot].type = NoItem
      /\ \A p \in Place : p # currentSlot => t[p] = s[p]
    BY DEF Slots, Slot
<1>2. TidySlot(t[currentSlot])
    BY <1>1 DEF TidySlot
<1>3. Tidy(t)
    <2>. HIDE DEF t
    <2>. QED  BY <1>1, <1>2, TidyMeans
<1>. QED
    BY <1>3

(* The stages of useBlock: shears that break and wheat that is already     *)
(* gone are the only ways to leave a slot half cleared.                    *)
LEMMA ShearTidy ==
    ASSUME NEW st \in St, NEW furred, currentSlot \in Place, Tidy(st.slots),
           ~(st.sel = Shears /\ survival /\ st.slots[currentSlot].hp = 1)
    PROVE  /\ Tidy(Shear(st, furred).slots)
           /\ \/ Shear(st, furred).slots = st.slots /\ Shear(st, furred).sel = st.sel
              \/ /\ Shear(st, furred).sel = st.slots[currentSlot].type
                 /\ Shear(st, furred).slots[currentSlot].type
                      = st.slots[currentSlot].type
<1>. DEFINE h == st.slots[currentSlot].hp - 1
            s == [st.slots EXCEPT
                     ![currentSlot].hp = h,
                     ![currentSlot].type = IF h = 0 THEN NoItem ELSE @]
<1>0. st.slots \in Slots /\ st.slots[currentSlot] \in Slot
    BY DEF St, Slots
<1>1. CASE st.sel # Shears \/ ~furred
    BY <1>1 DEF Shear
<1>2. CASE ~(st.sel # Shears \/ ~furred) /\ ~survival
    BY <1>2 DEF Shear, St
<1>3. CASE ~(st.sel # Shears \/ ~furred) /\ survival
    <2>1. h \in Int /\ h # 0
        BY <1>0, <1>3 DEF Slot
    <2>2. s = [st.slots EXCEPT ![currentSlot].hp = h]
        <3>1. s = [st.slots EXCEPT ![currentSlot].hp = h, ![currentSlot].type = @]
            BY <2>1
        <3>. HIDE DEF h
        <3>. QED
            BY <1>0, <3>1 DEF Slots, Slot
    <2>3. Tidy(s)
        <3>. HIDE DEF h, s
        <3>. QED  BY <1>0, <2>1, <2>2, WornIsTidy
    <2>4. /\ InHand(s) = st.slots[currentSlot].type
          /\ s[currentSlot].type = st.slots[currentSlot].type
        <3>. HIDE DEF h, s
        <3>. QED  BY <1>0, <2>1, <2>2 DEF InHand, Slots, Slot
    <2>5. Shear(st, furred).slots = s /\ Shear(st, furred).sel = InHand(s)
        BY <1>3 DEF Shear
    <2>. QED
        BY <2>3, <2>4, <2>5
<1>. QED
    BY <1>1, <1>2, <1>3

LEMMA FeedTidy ==
    ASSUME NEW st \in St, NEW mob, currentSlot \in Place, Tidy(st.slots),
           st.sel # NoItem => st.slots[currentSlot].type # NoItem
    PROVE  Tidy(Feed(st, mob).slots)
<1>1. CASE st.sel # Wheat \/ ~mob \/ ~survival
    BY <1>1 DEF Feed
<1>2. CASE ~(st.sel # Wheat \/ ~mob \/ ~survival)
    <2>1. st.slots \in Slots /\ st.slots[currentSlot] \in Slot
          /\ TidySlot(st.slots[currentSlot])
        BY TidyMeans DEF St, Slots
    <2>2. st.slots[currentSlot].amount > 0
        BY <1>2, <2>1, ItemsAssumption DEF TidySlot, Slot
    <2>3. Feed(st, mob).slots = OneLess(st.slots)
        BY <1>2 DEF Feed, St
    <2>. QED
        BY <2>1, <2>2, <2>3, OneLessIsTidy
<1>. QED
    BY <1>1, <1>2

LEMMA RestTidy ==
    ASSUME NEW st \in St, NEW allowed, currentSlot \in Place, Tidy(st.slots)
    PROVE  /\ Tidy(Eat(st).slots) /\ Tidy(Hatch(st).slots)
           /\ Tidy(PlaceBlock(st, allowed).slots)
<1>1. st.slots \in Slots /\ st.slots[currentSlot].amount \in Int
    BY DEF St, Slots, Slot
<1>2. st.slots[currentSlot].amount > 0 => Tidy(OneLess(st.slots))
    BY <1>1, OneLessIsTidy
<1>3. \/ Eat(st).slots = st.slots
      \/ /\ st.slots[currentSlot].amount > 0
         /\ Eat(st).slots = OneLess(st.slots)
    BY <1>1 DEF Eat, St
<1>4. \/ Hatch(st).slots = st.slots
      \/ /\ st.slots[currentSlot].amount > 0
         /\ Hatch(st).slots = OneLess(st.slots)
    BY <1>1 DEF Hatch, St
<1>5. \/ PlaceBlock(st, allowed).slots = st.slots
      \/ /\ st.slots[currentSlot].amount > 0
         /\ PlaceBlock(st, allowed).slots = OneLess(st.slots)
    BY <1>1 DEF PlaceBlock, St
<1>. QED
    BY <1>2, <1>3, <1>4, <1>5

LEMMA UseItemTidy ==
    ASSUME TypeOK, Tidy(slots), ~ShearsBreak, ~EmptyHandUsed,
           NEW mob \in BOOLEAN, NEW furred \in BOOLEAN, NEW allowed \in BOOLEAN,
           UseItem(mob, furred, allowed)
    PROVE  Tidy(slots')
<1>. DEFINE now  == [slots |-> slots, sel |-> blockSelected, ground |-> ground]
            shorn == Shear(now, furred)
            fed == Feed(shorn, mob)
            fuller == Eat(fed)
            hatched == Hatch(fuller)
            then == PlaceBlock(hatched, allowed)
<1>0. currentSlot \in Place
    BY PlacesAreNumbers DEF TypeOK
<1>1. now \in St
    BY DEF TypeOK, St, Slots, Ground, Held
<1>2. shorn \in St
    <2>. HIDE DEF now
    <2>. QED  BY <1>0, <1>1, ShearType
<1>3. /\ Tidy(shorn.slots)
      /\ \/ shorn.slots = slots /\ shorn.sel = blockSelected
         \/ /\ shorn.sel = slots[currentSlot].type
            /\ shorn.slots[currentSlot].type = slots[currentSlot].type
    <2>1. now.slots = slots /\ now.sel = blockSelected
        OBVIOUS
    <2>. HIDE DEF now
    <2>2. ~(now.sel = Shears /\ survival /\ now.slots[currentSlot].hp = 1)
        BY <2>1 DEF ShearsBreak
    <2>. QED
        BY <1>0, <1>1, <2>1, <2>2, ShearTidy
<1>4. Tidy(fed.slots)
    <2>1. CASE shorn.slots = slots /\ shorn.sel = blockSelected
        <3>. HIDE DEF shorn
        <3>. QED  BY <1>0, <1>2, <1>3, <2>1, FeedTidy DEF EmptyHandUsed
    <2>2. CASE /\ shorn.sel = slots[currentSlot].type
               /\ shorn.slots[currentSlot].type = slots[currentSlot].type
        <3>1. shorn.sel # NoItem => shorn.slots[currentSlot].type # NoItem
            <4>. HIDE DEF shorn
            <4>. QED  BY <2>2
        <3>. HIDE DEF shorn
        <3>. QED  BY <1>0, <1>2, <1>3, <3>1, FeedTidy
    <2>. QED
        BY <1>3, <2>1, <2>2
<1>5. fed \in St
    <2>. HIDE DEF shorn
    <2>. QED  BY <1>0, <1>2, FeedType
<1>6. fuller \in St /\ Tidy(fuller.slots)
    <2>. HIDE DEF fed
    <2>. QED  BY <1>0, <1>4, <1>5, EatType, RestTidy
<1>7. hatched \in St /\ Tidy(hatched.slots)
    <2>. HIDE DEF fuller
    <2>. QED  BY <1>0, <1>6, HatchType, RestTidy
<1>8. Tidy(then.slots)
    <2>. HIDE DEF hatched
    <2>. QED  BY <1>0, <1>7, RestTidy
<1>9. slots' = then.slots
    BY DEF UseItem
<1>. HIDE DEF then
<1>. QED
    BY <1>8, <1>9

LEMMA TidyStep ==
    ASSUME TypeOK, [Next]_vars, Tidy(slots), ~ShearsBreak, ~EmptyHandUsed
    PROVE  Tidy(slots')
<1>. DEFINE v == slots[currentSlot]
<1>0. /\ slots \in Slots /\ currentSlot \in Place
      /\ v \in Slot /\ TidySlot(v) /\ EmptySlot \in Slot
    BY PlacesAreNumbers, TidyMeans DEF TypeOK, Slots, EmptySlot, Slot
<1>1. CASE slots' = slots
    BY <1>1
<1>2. CASE UseFurnace
    <2>1. blockSelected # NoItem
        BY <1>2, ItemsAssumption DEF UseFurnace
    <2>2. v.type # NoItem /\ v.amount > 0
        BY <1>0, <2>1 DEF EmptyHandUsed, TidySlot, Slot
    <2>3. CASE v.amount - 1 = 0
        <3>1. slots' = [slots EXCEPT ![currentSlot].amount = 0,
                                     ![currentSlot].type = NoItem]
            BY <1>2, <2>3 DEF UseFurnace
        <3>. QED
            BY <1>0, <3>1, EmptiedIsTidy
    <2>4. CASE v.amount - 1 # 0
        <3>. DEFINE w == [v EXCEPT !.amount = v.amount - 1]
        <3>1. slots' = [slots EXCEPT ![currentSlot].amount = v.amount - 1]
            BY <1>2, <2>4 DEF UseFurnace
        <3>2. slots' = [slots EXCEPT ![currentSlot] = w]
            BY <1>0, <3>1 DEF Slots, Slot
        <3>3. TidySlot(w)
            <4>. HIDE DEF v
            <4>. QED  BY <1>0, <2>2, <2>4 DEF TidySlot, Slot
        <3>. HIDE DEF w
        <3>. QED
            BY <1>0, <3>2, <3>3, TidyPut
    <2>. QED
        BY <2>3, <2>4
<1>3. CASE UseHoe
    <2>1. \/ slots' = slots
          \/ slots' = [slots EXCEPT ![currentSlot] = EmptySlot]
          \/ slots' = [slots EXCEPT ![currentSlot].hp = v.hp - 1]
        BY <1>3 DEF UseHoe
    <2>2. v.hp - 1 \in Int
        BY <1>0 DEF Slot
    <2>. HIDE DEF v
    <2>3. CASE slots' = [slots EXCEPT ![currentSlot].hp = v.hp - 1]
        BY <1>0, <2>2, <2>3, WornIsTidy
    <2>4. CASE slots' = [slots EXCEPT ![currentSlot] = EmptySlot]
        <3>. HIDE DEF EmptySlot
        <3>. QED  BY <1>0, <2>4, TidyPut, EmptyIsTidy
    <2>. QED
        BY <2>1, <2>3, <2>4
<1>4. ASSUME NEW drop, DestroyBlock(drop)
      PROVE  Tidy(slots')
    <2>1. \/ slots' = slots
          \/ slots' = [slots EXCEPT ![currentSlot].amount = 0,
                                    ![currentSlot].type = NoItem]
          \/ slots' = [slots EXCEPT ![currentSlot].hp = v.hp - 1]
        BY <1>4 DEF DestroyBlock
    <2>2. v.hp - 1 \in Int
        BY <1>0 DEF Slot
    <2>. HIDE DEF v
    <2>3. CASE slots' = [slots EXCEPT ![currentSlot].hp = v.hp - 1]
        BY <1>0, <2>2, <2>3, WornIsTidy
    <2>. QED
        BY <1>0, <2>1, <2>3, EmptiedIsTidy
<1>5. ASSUME NEW e \in Pool, PickUp(e)
      PROVE  Tidy(slots')
    <2>1. ground[e] \in Items
        BY <1>5 DEF PickUp, TypeOK
    <2>. QED
        BY <1>0, <1>5, <2>1, AddedIsTidy DEF PickUp
<1>6. ASSUME NEW p \in Place, SwapSlots(p)
      PROVE  Tidy(slots')
    <2>1. \A x \in Place : slots'[x] = slots[Turned(picked, p, x)]
        BY <1>0, <1>6 DEF SwapSlots, Swapped, Slots, Turned
    <2>2. \A x \in Place : Turned(picked, p, x) \in Place
        BY <1>6 DEF SwapSlots, Turned
    <2>. QED
        BY <2>1, <2>2, TidyMeans
<1>7. ASSUME NEW r \in craftingRecipes, Craft(r)
      PROVE  Tidy(slots')
    <2>1. r.outputItem \in Items /\ r.outputItemAmount \in Nat \ {0}
        BY SizesAssumption, ItemsAssumption DEF Recipe
    <2>2. CASE CanCraft(r)
        <3>1. /\ Consumed(slots, r.inputItemAmount) \in Slots
              /\ Tidy(Consumed(slots, r.inputItemAmount))
            BY <1>0, ConsumedType, ConsumedIsTidy
        <3>. QED
            BY <1>7, <2>1, <2>2, <3>1, AddedIsTidy DEF Craft
    <2>3. CASE ~CanCraft(r)
        BY <1>7, <2>3 DEF Craft
    <2>. QED
        BY <2>2, <2>3
<1>8. ASSUME NEW p \in Hotbar, PutItem(p)
      PROVE  Tidy(slots')
    <2>. DEFINE w == [type |-> picked, amount |-> stackSize[picked],
                      hp |-> breaksIn[picked]]
    <2>1. TidySlot(w)
        BY <1>8, SizesAssumption, ItemsAssumption DEF PutItem, TidySlot
    <2>2. slots' = [slots EXCEPT ![p] = w]
        BY <1>8 DEF PutItem
    <2>. HIDE DEF w
    <2>. QED
        BY <1>0, <2>1, <2>2, TidyPut, PlacesAreNumbers
<1>9. CASE Die
    <2>1. \A p \in Place : slots'[p] = EmptySlot \/ slots'[p] = slots[p]
        BY <1>9 DEF Die
    <2>. QED
        BY <2>1, TidyMeans, EmptyIsTidy
<1>10. CASE Quit
    <2>1. ASSUME NEW p \in Place
          PROVE  TidySlot(slots'[p])
        <3>1. TidySlot(slots[p]) /\ slots[p] \in Slot
            BY <1>0, TidyMeans DEF Slots
        <3>2. TidySlot([slots[p] EXCEPT !.type = NoItem, !.amount = 0])
            BY <3>1 DEF TidySlot, Slot
        <3>. QED
            BY <1>10, <3>1, <3>2, EmptyIsTidy DEF Quit
    <2>. QED
        BY <2>1, TidyMeans
<1>11. ASSUME \/ \E drop \in Drops : MobDies(drop)
              \/ \E step \in {-1, 1} : SelectSlot(step)
              \/ SwitchMode \/ OpenScreen \/ CloseScreen
              \/ \E p \in Place : ChooseSlot(p)
              \/ \E item \in Items : ChooseItem(item)
              \/ CreateWorld \/ UNCHANGED vars
       PROVE  slots' = slots
    BY <1>11 DEF MobDies, SelectSlot, SwitchMode, OpenScreen, CloseScreen, ChooseSlot,
                 ChooseItem, CreateWorld, vars
<1>. QED
    BY <1>1, <1>2, <1>3, <1>4, <1>5, <1>6, <1>7, <1>8, <1>9, <1>10, <1>11, UseItemTidy DEF Next

(* From tidy slots, type and amount of a slot only come apart when shears  *)
(* break or when an item is used whose last piece is gone, for every item  *)
(* table, whatever is crafted, smelted, eaten, put or dropped.             *)
THEOREM JunkCorrect == Spec => JunkOnlyFromKnownSites
<1>1. TypeOK /\ [Next]_vars =>
        [ Tidy(slots) => Tidy(slots') \/ ShearsBreak \/ EmptyHandUsed ]_vars
    BY TidyStep
<1>. QED
    BY <1>1, TypeCorrect, PTL DEF Spec, JunkOnlyFromKnownSites
----------------------------------------------------------------------------
(* Totals.                                                                 *)

\* What place p counts for the item.
Amounts(s, item) == [p \in Carried |-> IF s[p].type = item THEN s[p].amount ELSE 0]

LEMMA TotalIs ==
    ASSUME NEW s \in Slots, NEW item
    PROVE  /\ Total(s, item) = SumFunctionOnSet(Amounts(s, item), Carried)
           /\ IsFiniteSet(Carried)
           /\ \A p \in Carried : Amounts(s, item)[p] \in Int
<1>1. IsFiniteSet(Carried)
    BY SizesAssumption, FS_Interval DEF Carried
<1>2. DOMAIN Amounts(s, item) = Carried
    BY DEF Amounts
<1>3. Total(s, item) = SumFunctionOnSet(Amounts(s, item), Carried)
    BY <1>2 DEF Total, Amounts, SumFunction
<1>4. ASSUME NEW p \in Carried
      PROVE  Amounts(s, item)[p] \in Int
    <2>1. s[p] \in Slot
        BY PlacesAreNumbers DEF Slots
    <2>. QED
        BY <2>1 DEF Amounts, Slot
<1>. QED
    BY <1>1, <1>3, <1>4

\* Tidy slots count nothing below zero.
LEMMA TidyTotals ==
    ASSUME NEW s \in Slots, Tidy(s), NEW item
    PROVE  Total(s, item) \in Nat /\ \A p \in Carried : Amounts(s, item)[p] \in Nat
<1>1. ASSUME NEW p \in Carried
      PROVE  Amounts(s, item)[p] \in Nat
    <2>1. s[p] \in Slot /\ s[p].amount >= 0
        BY PlacesAreNumbers DEF Slots, Tidy
    <2>. QED
        BY <2>1 DEF Amounts, Slot
<1>. QED
    BY <1>1, TotalIs, SumNotNegative

\* One slot changes.
LEMMA TotalPut ==
    ASSUME NEW s \in Slots, NEW t \in Slots, NEW p \in Carried, NEW item,
           \A x \in Carried : x # p => t[x] = s[x]
    PROVE  Total(t, item) = Total(s, item) - Amounts(s, item)[p] + Amounts(t, item)[p]
<1>. DEFINE v == Amounts(s, item)
            w == Amounts(t, item)
<1>1. \A x \in Carried \ {p} : v[x] = w[x]
    BY DEF Amounts
<1>2. /\ Total(s, item) = SumFunctionOnSet(v, Carried)
      /\ Total(t, item) = SumFunctionOnSet(w, Carried)
      /\ IsFiniteSet(Carried)
      /\ \A x \in Carried : v[x] \in Int /\ w[x] \in Int
    BY TotalIs
<1>. HIDE DEF v, w
<1>3. SumFunctionOnSet(w, Carried) = SumFunctionOnSet(v, Carried) - v[p] + w[p]
    BY <1>1, <1>2, SumChanged
<1>. QED
    BY <1>2, <1>3 DEF v, w

(* addItemToHotbarInventory into tidy slots: the total of the item grows   *)
(* by n or, where no slot has room, by nothing; the others stay.           *)
LEMMA AddedTotals ==
    ASSUME NEW s \in Slots, Tidy(s), NEW item \in Items, NEW n \in Nat
    PROVE  /\ Added(s, item, n) \in Slots
           /\ PlaceFor(s, item, n) \in Carried
                => Total(Added(s, item, n), item) = Total(s, item) + n
           /\ PlaceFor(s, item, n) \notin Carried
                => Total(Added(s, item, n), item) = Total(s, item)
           /\ \A i \in Items \ {item} : Total(Added(s, item, n), i) = Total(s, i)
<1>. DEFINE p == PlaceFor(s, item, n)
            t == Added(s, item, n)
<1>1. t \in Slots
    BY AddedType
<1>2. CASE p \notin Carried
    BY <1>1, <1>2 DEF Added
<1>3. CASE p \in Carried
    <2>1. s[p].type \in {item, NoItem} /\ s[p] \in Slot
        BY <1>3, PlaceForFits, PlacesAreNumbers DEF Slots
    <2>2. TidySlot(s[p])
        BY <1>3, TidyMeans, PlacesAreNumbers
    <2>3. /\ t[p].type = item /\ t[p].amount = s[p].amount + n
          /\ \A x \in Carried : x # p => t[x] = s[x]
        BY <1>3, PlacesAreNumbers DEF Added, Slots
    <2>4. Amounts(s, item)[p] = s[p].amount
        BY <1>3, <2>1, <2>2 DEF Amounts, TidySlot, Slot
    <2>5. Amounts(t, item)[p] = s[p].amount + n
        BY <1>3, <2>3 DEF Amounts
    <2>6. ASSUME NEW i \in Items \ {item}
          PROVE  Amounts(s, i)[p] = 0 /\ Amounts(t, i)[p] = 0
        BY <1>3, <2>1, <2>3, <2>6, ItemsAssumption DEF Amounts
    <2>. HIDE DEF p, t
    <2>7. \A i \in Items : Total(s, i) \in Nat
        BY TidyTotals
    <2>8. \A i \in Items : Total(t, i) = Total(s, i) - Amounts(s, i)[p] + Amounts(t, i)[p]
        BY <1>1, <1>3, <2>3, TotalPut
    <2>9. Total(t, item) = Total(s, item) + n
        <3>1. s[p].amount \in Int
            BY <2>1 DEF Slot
        <3>. QED
            BY <2>4, <2>5, <2>7, <2>8, <3>1
    <2>10. \A i \in Items \ {item} : Total(t, i) = Total(s, i)
        BY <2>6, <2>7, <2>8
    <2>. QED
        BY <1>1, <1>3, <2>9, <2>10 DEF p, t
<1>. QED
    BY <1>2, <1>3

\* Where an item has room, addItemToHotbarInventory finds a place for it.
LEMMA PlaceForFound ==
    ASSUME NEW s, NEW item, NEW n, NEW q \in Carried,
           s[q].type \in {item, NoItem}, s[q].amount + n <= StackLimit
    PROVE  PlaceFor(s, item, n) \in Carried
<1>. DEFINE tries == <<Fits(s, Hotbar, item, n), Fits(s, Hotbar, NoItem, n),
                       Fits(s, Pack, item, n), Fits(s, Pack, NoItem, n)>>
            good  == {k \in 1..4 : tries[k] # {}}
            k == Min(good)
<1>1. good # {}
    <2>1. q \in Hotbar \/ q \in Pack
        BY SizesAssumption DEF Carried, Hotbar, Pack
    <2>2. \/ q \in tries[1] \/ q \in tries[2] \/ q \in tries[3] \/ q \in tries[4]
        BY <2>1 DEF Fits
    <2>. QED
        BY <2>2
<1>2. Min(good) \in good
    <2>1. good \in SUBSET Nat
        OBVIOUS
    <2>. HIDE DEF good
    <2>. QED
        BY <1>1, <2>1, MinIsMember
<1>3. k \in 1..4 /\ tries[k] # {}
    BY <1>2
<1>4. PlaceFor(s, item, n) = Min(tries[k])
    BY <1>1 DEF PlaceFor
<1>. HIDE DEF k, good
<1>5. \/ tries[k] = Fits(s, Hotbar, item, n)
      \/ tries[k] = Fits(s, Hotbar, NoItem, n)
      \/ tries[k] = Fits(s, Pack, item, n)
      \/ tries[k] = Fits(s, Pack, NoItem, n)
    BY <1>3
<1>6. tries[k] \in SUBSET Nat /\ tries[k] \subseteq Carried
    BY <1>5, PlacesAreNumbers DEF Fits
<1>. HIDE DEF tries
<1>. QED
    BY <1>3, <1>4, <1>6, MinIsMember

(***************************************************************************)
(* Pick-ups.                                                               *)
(***************************************************************************)

\* makeItem takes free entity slots only.
LEMMA DroppedKeeps ==
    ASSUME NEW g \in Ground, NEW item, NEW e \in Pool, g[e] # NoItem
    PROVE  Dropped(g, item)[e] = g[e]
<1>. DEFINE free == {x \in Pool : g[x] = NoItem}
<1>1. CASE item \in Items /\ free # {}
    <2>1. free \in SUBSET Nat
        BY SizesAssumption
    <2>2. Min(free) \in free
        <3>. HIDE DEF free
        <3>. QED  BY <1>1, <2>1, MinIsMember
    <2>3. Dropped(g, item) = [g EXCEPT ![Min(free)] = item]
        BY <1>1 DEF Dropped
    <2>. QED
        BY <2>2, <2>3 DEF Ground
<1>2. CASE ~(item \in Items /\ free # {})
    BY <1>2 DEF Dropped
<1>. QED
    BY <1>1, <1>2

LEMMA HarvestedKeeps ==
    ASSUME NEW g \in Ground, NEW item, NEW e \in Pool, g[e] # NoItem
    PROVE  Harvested(g, item)[e] = g[e]
BY DroppedType, DroppedKeeps DEF Harvested

\* useBlock: every stage leaves the entities, the shears add one.
LEMMA StagesKeepGround ==
    ASSUME NEW st \in St, NEW furred, NEW mob, NEW allowed
    PROVE  /\ Shear(st, furred).ground \in {st.ground, Dropped(st.ground, Wool)}
           /\ Feed(st, mob).ground = st.ground
           /\ Eat(st).ground = st.ground
           /\ Hatch(st).ground = st.ground
           /\ PlaceBlock(st, allowed).ground = st.ground
BY DEF St, Shear, Feed, Eat, Hatch, PlaceBlock

LEMMA UseItemGround ==
    ASSUME TypeOK, NEW mob, NEW furred, NEW allowed, UseItem(mob, furred, allowed)
    PROVE  ground' \in {ground, Dropped(ground, Wool)}
<1>. DEFINE now  == [slots |-> slots, sel |-> blockSelected, ground |-> ground]
            shorn == Shear(now, furred)
            fed == Feed(shorn, mob)
            fuller == Eat(fed)
            hatched == Hatch(fuller)
            then == PlaceBlock(hatched, allowed)
<1>0. currentSlot \in Place
    BY PlacesAreNumbers DEF TypeOK
<1>1. now \in St /\ now.ground = ground
    BY DEF TypeOK, St, Slots, Ground, Held
<1>2. shorn \in St /\ shorn.ground \in {ground, Dropped(ground, Wool)}
    <2>. HIDE DEF now
    <2>. QED  BY <1>0, <1>1, ShearType, StagesKeepGround
<1>3. fed \in St /\ fed.ground = shorn.ground
    <2>. HIDE DEF shorn
    <2>. QED  BY <1>0, <1>2, FeedType, StagesKeepGround
<1>4. fuller \in St /\ fuller.ground = fed.ground
    <2>. HIDE DEF fed
    <2>. QED  BY <1>0, <1>3, EatType, StagesKeepGround
<1>5. hatched \in St /\ hatched.ground = fuller.ground
    <2>. HIDE DEF fuller
    <2>. QED  BY <1>0, <1>4, HatchType, StagesKeepGround
<1>6. then.ground = hatched.ground
    <2>. HIDE DEF hatched
    <2>. QED  BY <1>0, <1>5, StagesKeepGround
<1>7. ground' = then.ground
    BY DEF UseItem
<1>. HIDE DEF then, hatched, fuller, fed, shorn
<1>. QED
    BY <1>2, <1>3, <1>4, <1>5, <1>6, <1>7

\* Only a pick-up takes an entity out of the world in which the player is.
LEMMA OnlyPickUpTakes ==
    ASSUME TypeOK, [Next]_vars, NEW e \in Pool,
           InWorld, UIState' # "title", ground'[e] # ground[e], ground[e] # NoItem
    PROVE  PickUp(e)
<1>0. ground \in Ground
    BY DEF TypeOK, Ground
<1>1. CASE UseFurnace
    BY <1>0, <1>1, DroppedKeeps DEF UseFurnace
<1>2. ASSUME NEW mob, NEW furred, NEW allowed, UseItem(mob, furred, allowed)
      PROVE  FALSE
    BY <1>0, <1>2, UseItemGround, DroppedKeeps
<1>3. ASSUME NEW drop, DestroyBlock(drop)
      PROVE  FALSE
    BY <1>0, <1>3, HarvestedKeeps DEF DestroyBlock
<1>4. ASSUME NEW drop, MobDies(drop)
      PROVE  FALSE
    BY <1>0, <1>4, DroppedKeeps DEF MobDies
<1>5. ASSUME NEW x \in Pool, PickUp(x)
      PROVE  PickUp(e)
    BY <1>0, <1>5 DEF PickUp, Ground
<1>6. CASE Quit
    BY <1>6 DEF Quit
<1>7. ASSUME \/ UseHoe \/ SwitchMode \/ OpenScreen \/ CloseScreen \/ Die \/ CreateWorld
             \/ \E step \in {-1, 1} : SelectSlot(step)
             \/ \E p \in Place : ChooseSlot(p)
             \/ \E p \in Place : SwapSlots(p)
             \/ \E r \in craftingRecipes : Craft(r)
             \/ \E item \in Items : ChooseItem(item)
             \/ \E p \in Hotbar : PutItem(p)
             \/ UNCHANGED vars
      PROVE  ground' = ground
    BY <1>7 DEF UseHoe, SwitchMode, OpenScreen, CloseScreen, Die, CreateWorld, SelectSlot,
                ChooseSlot, SwapSlots, Craft, ChooseItem, PutItem, vars
<1>. QED
    BY <1>1, <1>2, <1>3, <1>4, <1>5, <1>6, <1>7 DEF Next

LEMMA PickUpStep ==
    ASSUME TypeOK, NEW e \in Pool, PickUp(e), Tidy(slots), RoomFor(ground[e])
    PROVE  Total(slots', ground[e]) = Total(slots, ground[e]) + 1
<1>1. slots \in Slots /\ ground[e] \in Items
    BY DEF TypeOK, Slots, PickUp
<1>2. PICK q \in Carried : slots[q].type \in {ground[e], NoItem} /\ slots[q].amount < StackLimit
    BY DEF RoomFor
<1>3. slots[q].amount + 1 <= StackLimit
    <2>1. slots[q] \in Slot
        BY <1>1, <1>2, PlacesAreNumbers DEF Slots
    <2>. QED
        BY <1>2, <2>1, SizesAssumption DEF Slot
<1>4. PlaceFor(slots, ground[e], 1) \in Carried
    BY <1>2, <1>3, PlaceForFound
<1>5. slots' = Added(slots, ground[e], 1)
    BY DEF PickUp
<1>. QED
    BY <1>1, <1>4, <1>5, AddedTotals

(* An item picked up is carried: the entity is gone and the total of the   *)
(* item has grown by one, wherever a slot had room, for every size.        *)
THEOREM PickUpCorrect == Spec => PickUpKeepsTheItem
<1>1. TypeOK /\ [Next]_vars =>
        [ \A e \in Pool :
          (/\ InWorld /\ UIState' # "title" /\ ground'[e] # ground[e]
           /\ ground[e] # NoItem /\ Tidy(slots) /\ RoomFor(ground[e]))
          => Total(slots', ground[e]) = Total(slots, ground[e]) + 1 ]_vars
    BY OnlyPickUpTakes, PickUpStep
<1>. QED
    BY <1>1, TypeCorrect, PTL DEF Spec, PickUpKeepsTheItem
(***************************************************************************)
(* removeItemFromInventoryHotbar.                                          *)
(***************************************************************************)

\* What is left to take behind a place that holds v, of the `before` that
\* were left in front of it.
Behind(v, item, before) ==
    IF before = 0 \/ v.type # item THEN before
    ELSE IF v.amount >= before THEN 0 ELSE before - v.amount

LeftOver(s, item, n, f, D) ==
    f = [p \in D |-> IF p = 0 THEN n ELSE Behind(s[p - 1], item, f[p - 1])]

LEMMA LeftExists ==
    ASSUME NEW s, NEW item, NEW n
    PROVE  \E f : LeftOver(s, item, n, f, Carried)
<1>. DEFINE Q == {m \in Nat : \E f : LeftOver(s, item, n, f, 0..m)}
<1>1. 0 \in Q
    <2>. DEFINE f == [p \in 0..0 |-> n]
    <2>1. LeftOver(s, item, n, f, 0..0)
        BY DEF LeftOver
    <2>. QED
        BY <2>1
<1>2. ASSUME NEW m \in Nat, m \in Q
      PROVE  m + 1 \in Q
    <2>1. PICK f : LeftOver(s, item, n, f, 0..m)
        BY <1>2
    <2>. DEFINE g == [p \in 0..(m + 1) |-> IF p = m + 1 THEN Behind(s[m], item, f[m]) ELSE f[p]]
    <2>2. ASSUME NEW p \in 0..(m + 1)
          PROVE  g[p] = IF p = 0 THEN n ELSE Behind(s[p - 1], item, g[p - 1])
        <3>1. CASE p = m + 1
            <4>1. g[p] = Behind(s[m], item, f[m]) /\ p - 1 = m /\ g[m] = f[m] /\ p # 0
                BY <3>1
            <4>. QED
                BY <4>1
        <3>2. CASE p # m + 1
            <4>1. p \in 0..m /\ g[p] = f[p]
                BY <3>2
            <4>2. f[p] = IF p = 0 THEN n ELSE Behind(s[p - 1], item, f[p - 1])
                BY <2>1, <4>1 DEF LeftOver
            <4>3. p # 0 => g[p - 1] = f[p - 1]
                BY <4>1
            <4>. QED
                BY <4>1, <4>2, <4>3
        <3>. QED
            BY <3>1, <3>2
    <2>3. LeftOver(s, item, n, g, 0..(m + 1))
        <3>1. g = [p \in 0..(m + 1) |-> g[p]]
            OBVIOUS
        <3>. HIDE DEF g
        <3>. QED
            BY <2>2, <3>1 DEF LeftOver
    <2>. QED
        BY <2>3
<1>3. HotbarSize + InventorySize - 1 \in Nat
    BY SizesAssumption
<1>4. HotbarSize + InventorySize - 1 \in Q
    <2>. HIDE DEF Q
    <2>. QED  BY <1>1, <1>2, <1>3, NumberInduction
<1>. QED
    BY <1>4 DEF Carried

LEMMA LeftIs ==
    ASSUME NEW s, NEW item, NEW n
    PROVE  /\ Left(s, item, n)[0] = n
           /\ \A p \in Carried : p # 0 =>
                Left(s, item, n)[p] = Behind(s[p - 1], item, Left(s, item, n)[p - 1])
<1>. DEFINE l == CHOOSE f : LeftOver(s, item, n, f, Carried)
<1>1. LeftOver(s, item, n, l, Carried)
    BY Zenon, LeftExists
<1>2. Left(s, item, n) = l
    BY DEF Left, LeftOver, Behind
<1>3. 0 \in Carried
    BY SizesAssumption DEF Carried
<1>. HIDE DEF l
<1>. QED
    BY <1>1, <1>2, <1>3 DEF LeftOver
\* Of nothing, nothing is left anywhere.
LEMMA LeftOfNothing ==
    ASSUME NEW s, NEW item
    PROVE  \A p \in Carried : Left(s, item, 0)[p] = 0
<1>. DEFINE l == Left(s, item, 0)
            Q == {m \in Nat : m \in Carried => l[m] = 0}
<1>1. 0 \in Q
    BY LeftIs
<1>2. ASSUME NEW m \in Nat, m \in Q
      PROVE  m + 1 \in Q
    <2>1. ASSUME m + 1 \in Carried PROVE l[m + 1] = 0
        <3>1. m \in Carried /\ m + 1 # 0 /\ (m + 1) - 1 = m
            BY <2>1, SizesAssumption DEF Carried
        <3>2. l[m] = 0
            BY <1>2, <3>1
        <3>3. l[m + 1] = Behind(s[m], item, l[m])
            <4>1. l[m + 1] = Behind(s[(m + 1) - 1], item, l[(m + 1) - 1])
                BY <2>1, <3>1, LeftIs
            <4>. HIDE DEF l
            <4>. QED  BY <3>1, <4>1
        <3>. QED
            BY <3>2, <3>3 DEF Behind
    <2>. QED
        BY <2>1
<1>3. \A m \in Nat : m \in Q
    <2>. HIDE DEF Q
    <2>. QED  BY <1>1, <1>2, NumberInduction
<1>. QED
    BY <1>3, PlacesAreNumbers

\* What place p gives of the item to a recipe.
LEMMA ConsumedAmounts ==
    ASSUME NEW s \in Slots, Tidy(s), NEW cost, NEW item \in Items, NEW p \in Carried,
           Left(s, item, cost[item])[p] \in Nat
    PROVE  LET l == Left(s, item, cost[item])[p]
               a == Amounts(s, item)[p]
               b == Amounts(Consumed(s, cost), item)[p]
           IN  /\ b = IF l >= a THEN 0 ELSE a - l
               /\ Behind(s[p], item, l) = IF l >= a THEN l - a ELSE 0
<1>. DEFINE l == Left(s, item, cost[item])[p]
            a == Amounts(s, item)[p]
            b == Amounts(Consumed(s, cost), item)[p]
            t == Consumed(s, cost)
<1>1. /\ s[p] \in Slot /\ TidySlot(s[p]) /\ p \in Place /\ item # NoItem
      /\ t \in Slots
    BY TidyMeans, PlacesAreNumbers, ItemsAssumption, ConsumedType DEF Slots
<1>2. CASE s[p].type # item
    <2>1. t[p].type # item
        BY <1>1, <1>2 DEF Consumed, Slot, EmptySlot
    <2>2. a = 0 /\ b = 0
        BY <1>2, <2>1 DEF Amounts
    <2>3. Behind(s[p], item, l) = l
        BY <1>2 DEF Behind
    <2>. HIDE DEF l, a, b
    <2>. QED
        BY <2>2, <2>3 DEF l, a, b
<1>3. CASE s[p].type = item
    <2>1. a = s[p].amount /\ s[p].amount \in Int /\ s[p].amount >= 1
        BY <1>1, <1>3 DEF Amounts, TidySlot, Slot
    <2>2. t[p] = IF l = 0 THEN s[p]
                 ELSE IF l \in 1 .. s[p].amount - 1
                      THEN [s[p] EXCEPT !.amount = @ - l]
                      ELSE EmptySlot
        BY <1>1, <1>3 DEF Consumed
    <2>3. b = IF t[p].type = item THEN t[p].amount ELSE 0
        BY DEF Amounts
    <2>4. Behind(s[p], item, l) = IF l = 0 THEN l ELSE IF s[p].amount >= l THEN 0
                                  ELSE l - s[p].amount
        BY <1>3 DEF Behind
    <2>. HIDE DEF l, a, b, t
    <2>5. l \in Nat
        BY DEF l
    <2>6. CASE l = 0
        BY <1>3, <2>1, <2>2, <2>3, <2>4, <2>6 DEF l, a, b
    <2>7. CASE l \in 1 .. s[p].amount - 1
        <3>1. t[p].type = item /\ t[p].amount = s[p].amount - l
            BY <1>1, <1>3, <2>2, <2>5, <2>7 DEF Slot
        <3>2. b = a - l /\ ~(l >= a) /\ Behind(s[p], item, l) = 0
            BY <2>1, <2>3, <2>4, <2>5, <2>7, <3>1
        <3>. QED
            BY <3>2 DEF l, a, b
    <2>8. CASE l # 0 /\ l \notin 1 .. s[p].amount - 1
        <3>1. t[p].type = NoItem
            BY <2>2, <2>8 DEF EmptySlot
        <3>2. b = 0 /\ l >= a /\ Behind(s[p], item, l) = l - a
            BY <1>1, <2>1, <2>3, <2>4, <2>5, <2>8, <3>1
        <3>. QED
            BY <3>2 DEF l, a, b
    <2>. QED
        BY <2>6, <2>7, <2>8
<1>. QED
    BY <1>2, <1>3

\* The scan takes exactly the n items, where so many are carried.
LEMMA ConsumedTotals ==
    ASSUME NEW s \in Slots, Tidy(s), NEW cost, NEW item \in Items, cost[item] \in Nat,
           Total(s, item) >= cost[item]
    PROVE  Total(Consumed(s, cost), item) = Total(s, item) - cost[item]
<1>. DEFINE n == cost[item]
            l == Left(s, item, n)
            t == Consumed(s, cost)
            A == Amounts(s, item)
            B == Amounts(t, item)
            e(m) == Behind(s[m], item, l[m])
            Q == {m \in Nat : m \in Carried =>
                    /\ l[m] \in Nat /\ e(m) \in Nat
                    /\ SumFunctionOnSet(B, 0..m) = SumFunctionOnSet(A, 0..m) - n + e(m)
                    /\ e(m) > 0 => SumFunctionOnSet(B, 0..m) = 0}
<1>1. t \in Slots /\ Tidy(t)
    BY ConsumedType, ConsumedIsTidy
<1>2. /\ Total(s, item) = SumFunctionOnSet(A, Carried)
      /\ Total(t, item) = SumFunctionOnSet(B, Carried)
      /\ \A p \in Carried : A[p] \in Nat /\ B[p] \in Nat
    <2>. HIDE DEF t
    <2>. QED  BY <1>1, TotalIs, TidyTotals
<1>3. ASSUME NEW m \in Carried, l[m] \in Nat
      PROVE  /\ B[m] = IF l[m] >= A[m] THEN 0 ELSE A[m] - l[m]
             /\ e(m) = IF l[m] >= A[m] THEN l[m] - A[m] ELSE 0
             /\ e(m) \in Nat
    <2>1. /\ B[m] = IF l[m] >= A[m] THEN 0 ELSE A[m] - l[m]
          /\ e(m) = IF l[m] >= A[m] THEN l[m] - A[m] ELSE 0
        BY <1>3, ConsumedAmounts
    <2>2. A[m] \in Nat
        BY <1>2
    <2>. HIDE DEF A, B, l, e
    <2>. QED
        BY <1>3, <2>1, <2>2
<1>. HIDE DEF A, B, t, e
<1>4. 0 \in Q
    <2>1. 0 \in Carried /\ 0..0 = {0} /\ IsFiniteSet({0}) /\ {0} \ {0} = {}
        <3>1. 0 \in Carried
            BY SizesAssumption DEF Carried
        <3>2. 0..0 = {0}
            OBVIOUS
        <3>3. IsFiniteSet({0})
            BY FS_Singleton
        <3>. QED
            BY <3>1, <3>2, <3>3
    <2>2. l[0] = n /\ n \in Nat
        BY LeftIs
    <2>3. A[0] \in Nat /\ B[0] \in Nat
        BY <1>2, <2>1
    <2>4. /\ SumFunctionOnSet(A, {0}) = A[0] + SumFunctionOnSet(A, {})
          /\ SumFunctionOnSet(B, {0}) = B[0] + SumFunctionOnSet(B, {})
        <3>1. \A x \in {0} : A[x] \in Int /\ B[x] \in Int
            BY <2>3
        <3>2. /\ SumFunctionOnSet(A, {0}) = A[0] + SumFunctionOnSet(A, {0} \ {0})
              /\ SumFunctionOnSet(B, {0}) = B[0] + SumFunctionOnSet(B, {0} \ {0})
            BY <2>1, <3>1, SumPick
        <3>. QED
            BY Zenon, <2>1, <3>2
    <2>5. SumFunctionOnSet(A, {0}) = A[0] /\ SumFunctionOnSet(B, {0}) = B[0]
        BY <2>3, <2>4, SumEmpty
    <2>6. SumFunctionOnSet(A, 0..0) = A[0] /\ SumFunctionOnSet(B, 0..0) = B[0]
        BY Zenon, <2>1, <2>5
    <2>7. /\ B[0] = IF n >= A[0] THEN 0 ELSE A[0] - n
          /\ e(0) = IF n >= A[0] THEN n - A[0] ELSE 0
          /\ e(0) \in Nat
        <3>. HIDE DEF l
        <3>. QED  BY <1>3, <2>1, <2>2
    <2>. HIDE DEF l, n
    <2>. QED
        BY <2>2, <2>3, <2>6, <2>7
<1>5. ASSUME NEW m \in Nat, m \in Q
      PROVE  m + 1 \in Q
    <2>. SUFFICES ASSUME m + 1 \in Carried
                  PROVE  /\ l[m + 1] \in Nat /\ e(m + 1) \in Nat
                         /\ SumFunctionOnSet(B, 0..(m + 1))
                                = SumFunctionOnSet(A, 0..(m + 1)) - n + e(m + 1)
                         /\ e(m + 1) > 0 => SumFunctionOnSet(B, 0..(m + 1)) = 0
        OBVIOUS
    <2>1. /\ m \in Carried /\ m + 1 # 0 /\ (m + 1) - 1 = m
          /\ \A x \in 0..(m + 1) : x \in Carried
        BY SizesAssumption DEF Carried
    <2>2. /\ l[m] \in Nat /\ e(m) \in Nat
          /\ SumFunctionOnSet(B, 0..m) = SumFunctionOnSet(A, 0..m) - n + e(m)
          /\ e(m) > 0 => SumFunctionOnSet(B, 0..m) = 0
        BY <1>5, <2>1
    <2>3. l[m + 1] = e(m)
        <3>1. l[m + 1] = Behind(s[(m + 1) - 1], item, l[(m + 1) - 1])
            BY <2>1, LeftIs
        <3>. HIDE DEF l
        <3>. QED  BY <2>1, <3>1 DEF e
    <2>4. /\ SumFunctionOnSet(A, 0..(m + 1)) = SumFunctionOnSet(A, 0..m) + A[m + 1]
          /\ SumFunctionOnSet(B, 0..(m + 1)) = SumFunctionOnSet(B, 0..m) + B[m + 1]
        <3>1. \A x \in 0..(m + 1) : A[x] \in Int /\ B[x] \in Int
            BY <1>2, <2>1
        <3>. QED
            BY <3>1, SumAppend
    <2>5. SumFunctionOnSet(A, 0..m) \in Int
        <3>1. \A x \in 0..m : x \in 0..(m + 1)
            OBVIOUS
        <3>2. IsFiniteSet(0..m)
            BY FS_Interval
        <3>3. \A x \in 0..m : A[x] \in Int
            BY <1>2, <2>1, <3>1
        <3>. QED
            BY <3>2, <3>3, SumIsInt
    <2>6. A[m + 1] \in Nat
        BY <1>2
    <2>7. /\ B[m + 1] = IF e(m) >= A[m + 1] THEN 0 ELSE A[m + 1] - e(m)
          /\ e(m + 1) = IF e(m) >= A[m + 1] THEN e(m) - A[m + 1] ELSE 0
          /\ e(m + 1) \in Nat
        <3>. HIDE DEF l
        <3>. QED  BY <1>3, <2>2, <2>3
    <2>8. n \in Nat
        OBVIOUS
    <2>. DEFINE given == SumFunctionOnSet(A, 0..m)
                kept == SumFunctionOnSet(B, 0..m)
                d == e(m)
                a == A[m + 1]
    <2>9. /\ given \in Int /\ kept = given - n + d /\ d \in Nat /\ a \in Nat
          /\ d > 0 => kept = 0
        BY <2>2, <2>5, <2>6
    <2>10. /\ SumFunctionOnSet(A, 0..(m + 1)) = given + a
           /\ SumFunctionOnSet(B, 0..(m + 1)) = kept + (IF d >= a THEN 0 ELSE a - d)
           /\ e(m + 1) = IF d >= a THEN d - a ELSE 0
        BY <2>4, <2>7
    <2>. HIDE DEF l, n, given, kept, d, a
    <2>11. /\ given + a - n + (IF d >= a THEN d - a ELSE 0) = kept + (IF d >= a THEN 0 ELSE a - d)
           /\ d >= a /\ d - a > 0 => kept = 0
        BY <2>8, <2>9
    <2>. DEFINE given1 == SumFunctionOnSet(A, 0..(m + 1))
                kept1 == SumFunctionOnSet(B, 0..(m + 1))
                d1 == e(m + 1)
    <2>12. kept1 = given1 - n + d1
        <3>1. /\ given1 = given + a
              /\ kept1 = kept + (IF d >= a THEN 0 ELSE a - d)
              /\ d1 = IF d >= a THEN d - a ELSE 0
            BY <2>10
        <3>. HIDE DEF given1, kept1, d1
        <3>. QED
            BY <2>8, <2>9, <2>11, <3>1
    <2>13. e(m + 1) > 0 => SumFunctionOnSet(B, 0..(m + 1)) = 0
        BY <2>9, <2>10, <2>11
    <2>14. l[m + 1] \in Nat /\ e(m + 1) \in Nat
        BY <2>2, <2>3, <2>7
    <2>. QED
        BY <2>12, <2>13, <2>14
<1>6. \A m \in Nat : m \in Q
    <2>. HIDE DEF Q
    <2>. QED  BY <1>4, <1>5, NumberInduction
<1>. DEFINE k == HotbarSize + InventorySize - 1
<1>7. k \in Nat /\ k \in Carried /\ Carried = 0..k
    BY SizesAssumption DEF Carried
<1>8. /\ SumFunctionOnSet(B, 0..k) = SumFunctionOnSet(A, 0..k) - n + e(k)
      /\ e(k) \in Nat
      /\ e(k) > 0 => SumFunctionOnSet(B, 0..k) = 0
    BY <1>6, <1>7
<1>9. Total(s, item) = SumFunctionOnSet(A, 0..k) /\ Total(t, item) = SumFunctionOnSet(B, 0..k)
    BY Zenon, <1>2, <1>7
<1>10. Total(s, item) \in Nat /\ n \in Nat /\ Total(s, item) >= n
    BY TidyTotals
<1>. HIDE DEF k, n
<1>11. Total(t, item) = Total(s, item) - n
    BY <1>8, <1>9, <1>10
<1>. QED
    BY <1>11 DEF t, n
(***************************************************************************)
(* Crafting.                                                               *)
(***************************************************************************)

\* What the first EXE chose, as far as crafting rests on it.
PickedInv == /\ UIState \in {"title", "game"} => picked = NoItem
             /\ UIState = "inventory" => picked \in Carried \cup {NoItem}

LEMMA PickedInit == Init => PickedInv
BY DEF Init, PickedInv

LEMMA PickedStep ==
    ASSUME TypeOK, PickedInv, [Next]_vars
    PROVE  PickedInv'
<1>1. ASSUME NEW p \in Place, ChooseSlot(p)
      PROVE  PickedInv'
    BY <1>1 DEF ChooseSlot, Reach, PickedInv
<1>2. ASSUME NEW p \in Place, SwapSlots(p)
      PROVE  PickedInv'
    BY <1>2 DEF SwapSlots, PickedInv
<1>3. ASSUME NEW item \in Items, ChooseItem(item)
      PROVE  PickedInv'
    BY <1>3 DEF ChooseItem, PickedInv
<1>4. ASSUME NEW p \in Hotbar, PutItem(p)
      PROVE  PickedInv'
    BY <1>4 DEF PutItem, PickedInv
<1>5. CASE OpenScreen
    BY <1>5 DEF OpenScreen, PickedInv, InGame
<1>6. CASE CloseScreen
    BY <1>6 DEF CloseScreen, PickedInv
<1>7. CASE Quit
    BY <1>7 DEF Quit, PickedInv, InGame
<1>8. CASE CreateWorld
    BY <1>8 DEF CreateWorld, PickedInv
<1>9. ASSUME \/ UseFurnace \/ UseHoe
             \/ \E mob, furred, allowed \in BOOLEAN : UseItem(mob, furred, allowed)
             \/ \E drop \in Drops \cup {NoItem} : DestroyBlock(drop)
             \/ \E e \in Pool : PickUp(e)
             \/ \E drop \in Drops : MobDies(drop)
             \/ \E step \in {-1, 1} : SelectSlot(step)
             \/ SwitchMode
             \/ \E r \in craftingRecipes : Craft(r)
             \/ Die \/ UNCHANGED vars
      PROVE  PickedInv'
    <2>1. UNCHANGED <<UIState, picked>>
        BY <1>9 DEF UseFurnace, UseHoe, UseItem, DestroyBlock, PickUp, MobDies, SelectSlot,
                    SwitchMode, Craft, Die, vars
    <2>. QED
        BY <2>1 DEF PickedInv
<1>. QED
    BY <1>1, <1>2, <1>3, <1>4, <1>5, <1>6, <1>7, <1>8, <1>9 DEF Next

\* A swap of two carried places leaves every total.
LEMMA SwapTotals ==
    ASSUME NEW s \in Slots, NEW p \in Carried, NEW q \in Carried, NEW item
    PROVE  Total(Swapped(s, p, q), item) = Total(s, item)
<1>. DEFINE t == Swapped(s, p, q)
            m == [s EXCEPT ![p] = s[q]]
<1>1. t \in Slots /\ m \in Slots
    BY PlacesAreNumbers DEF Swapped, Slots
<1>2. /\ \A x \in Carried : x # p => m[x] = s[x]
      /\ \A x \in Carried : x # q => t[x] = m[x]
      /\ m[p] = s[q] /\ t[q] = s[p] /\ (p # q => m[q] = s[q]) /\ (p = q => m[q] = s[p])
    BY PlacesAreNumbers DEF Swapped, Slots
<1>. HIDE DEF t, m
<1>3. /\ Total(m, item) = Total(s, item) - Amounts(s, item)[p] + Amounts(m, item)[p]
      /\ Total(t, item) = Total(m, item) - Amounts(m, item)[q] + Amounts(t, item)[q]
    BY <1>1, <1>2, TotalPut
<1>4. /\ Amounts(m, item)[p] = Amounts(s, item)[q] /\ Amounts(t, item)[q] = Amounts(s, item)[p]
      /\ Amounts(m, item)[q] = Amounts(s, item)[q]
    BY <1>2 DEF Amounts
<1>5. /\ Total(s, item) \in Int
      /\ Amounts(s, item)[p] \in Int /\ Amounts(s, item)[q] \in Int
    <2>1. /\ IsFiniteSet(Carried) /\ \A x \in Carried : Amounts(s, item)[x] \in Int
          /\ Total(s, item) = SumFunctionOnSet(Amounts(s, item), Carried)
        BY TotalIs
    <2>2. SumFunctionOnSet(Amounts(s, item), Carried) \in Int
        BY <2>1, SumIsInt
    <2>. QED
        BY <2>1, <2>2
<1>. QED
    BY <1>3, <1>4, <1>5 DEF t

\* EXE on a recipe whose ingredients are there.
LEMMA CraftTotals ==
    ASSUME TypeOK, Tidy(slots), NEW r \in craftingRecipes, Craft(r), CanCraft(r)
    PROVE  ChangesBy(r)
<1>. DEFINE cost == r.inputItemAmount
            t == Consumed(slots, cost)
            out == r.outputItem
            n == r.outputItemAmount
<1>1. /\ slots \in Slots /\ out \in Items /\ n \in Nat
      /\ \A i \in Items : cost[i] \in Nat
    BY ItemsAssumption, SizesAssumption DEF TypeOK, Slots, Recipe
<1>2. \A i \in Items : Total(slots, i) \in Nat
    BY <1>1, TidyTotals
<1>3. \A i \in Items : Total(slots, i) >= cost[i]
    <2>. SUFFICES ASSUME NEW i \in Items PROVE Total(slots, i) >= cost[i]
        OBVIOUS
    <2>1. cost[i] > 0 => Total(slots, i) >= cost[i]
        BY DEF CanCraft
    <2>. QED
        BY <1>1, <1>2, <2>1
<1>4. t \in Slots /\ Tidy(t)
    BY <1>1, ConsumedType, ConsumedIsTidy
<1>5. \A i \in Items : Total(t, i) = Total(slots, i) - cost[i]
    BY <1>1, <1>3, ConsumedTotals
<1>6. slots' = Added(t, out, n)
    BY DEF Craft
<1>. HIDE DEF t, cost, out, n
<1>7. PICK made \in {0, n} :
        /\ made = n \/ ~TakesWhole(slots', out, n)
        /\ Total(slots', out) = Total(t, out) + made
        /\ \A i \in Items \ {out} : Total(slots', i) = Total(t, i)
    <2>1. Total(t, out) \in Nat
        BY <1>1, <1>4, TidyTotals
    <2>2. CASE PlaceFor(t, out, n) \in Carried
        BY <1>1, <1>4, <1>6, <2>2, AddedTotals
    <2>3. CASE PlaceFor(t, out, n) \notin Carried
        <3>1. ~TakesWhole(t, out, n) /\ slots' = t
            BY <1>6, <2>3, PlaceForFound DEF TakesWhole, Added
        <3>2. /\ Total(slots', out) = Total(t, out) + 0
              /\ \A i \in Items \ {out} : Total(slots', i) = Total(t, i)
            BY <1>1, <1>4, <1>6, <2>1, <2>3, AddedTotals
        <3>. QED
            BY <3>1, <3>2
    <2>. QED
        BY <2>2, <2>3
<1>8. ASSUME NEW i \in Items
      PROVE  Total(slots', i) = Total(slots, i) - cost[i] + (IF i = out THEN made ELSE 0)
    <2>1. Total(slots, i) \in Nat /\ cost[i] \in Nat /\ made \in Nat
          /\ Total(t, i) = Total(slots, i) - cost[i]
        BY <1>1, <1>2, <1>5
    <2>2. CASE i = out
        BY <1>7, <2>1, <2>2
    <2>3. CASE i # out
        BY <1>7, <2>1, <2>3
    <2>. QED
        BY <2>2, <2>3
<1>9. r.needsCraftingTable => isInCraftingTable
    BY DEF CanCraft
<1>. QED
    BY <1>3, <1>7, <1>8, <1>9 DEF ChangesBy, cost, out, n

LEMMA CraftStep ==
    ASSUME TypeOK, PickedInv, [Next]_vars,
           UIState = "inventory", UIState' = "inventory", ground' = ground, Tidy(slots),
           \E i \in Items : Total(slots', i) # Total(slots, i)
    PROVE  CarriedEmpty(slots') \/ \E r \in craftingRecipes : ChangesBy(r)
<1>0. slots \in Slots /\ ground \in Ground
    BY DEF TypeOK, Slots, Ground
<1>1. slots' # slots
    OBVIOUS
<1>2. ASSUME NEW r \in craftingRecipes, Craft(r)
      PROVE  ChangesBy(r)
    <2>1. CanCraft(r)
        BY <1>1, <1>2 DEF Craft
    <2>. QED
        BY <1>2, <2>1, CraftTotals
<1>3. ASSUME NEW p \in Place, SwapSlots(p)
      PROVE  FALSE
    <2>1. p \in Carried /\ picked \in Carried
        BY <1>3, ItemsAssumption, PlacesAreNumbers DEF SwapSlots, Reach, PickedInv
    <2>2. slots' = Swapped(slots, picked, p)
        BY <1>3 DEF SwapSlots
    <2>. QED
        BY <1>0, <2>1, <2>2, SwapTotals
<1>4. CASE Die
    BY <1>4, PlacesAreNumbers DEF Die, CarriedEmpty
<1>5. ASSUME NEW e \in Pool, PickUp(e)
      PROVE  FALSE
    <2>1. ground'[e] = NoItem /\ ground[e] # NoItem
        BY <1>0, <1>5 DEF PickUp, Ground
    <2>. QED
        BY <2>1
<1>6. ASSUME \/ \E drop \in Drops : MobDies(drop)
             \/ \E p \in Place : ChooseSlot(p)
             \/ CloseScreen \/ UNCHANGED vars
      PROVE  FALSE
    BY <1>1, <1>6 DEF MobDies, ChooseSlot, CloseScreen, vars
<1>7. ASSUME \/ UseFurnace \/ UseHoe
             \/ \E mob, furred, allowed \in BOOLEAN : UseItem(mob, furred, allowed)
             \/ \E drop \in Drops \cup {NoItem} : DestroyBlock(drop)
             \/ \E step \in {-1, 1} : SelectSlot(step)
             \/ SwitchMode \/ OpenScreen \/ Quit \/ CreateWorld
             \/ \E item \in Items : ChooseItem(item)
             \/ \E p \in Hotbar : PutItem(p)
      PROVE  FALSE
    BY <1>7 DEF UseFurnace, UseHoe, UseItem, DestroyBlock, SelectSlot, SwitchMode,
                OpenScreen, Quit, CreateWorld, ChooseItem, PutItem, InGame
<1>. QED
    BY <1>2, <1>3, <1>4, <1>5, <1>6, <1>7 DEF Next

(* Crafting is exact: on the inventory screen the totals move by the       *)
(* ingredients and the output of one recipe that was allowed there and had *)
(* them all, the output missing only when no slot takes all of it, or the  *)
(* player died; for every table of recipes, with ingredients spread over   *)
(* any slots.                                                              *)
THEOREM CraftCorrect == Spec => CraftIsExact
<1>1. TypeOK /\ PickedInv /\ [Next]_vars => PickedInv'
    BY PickedStep
<1>2. TypeOK /\ PickedInv /\ [Next]_vars =>
      [ (/\ UIState = "inventory" /\ UIState' = "inventory"
         /\ ground' = ground /\ Tidy(slots)
         /\ \E i \in Items : Total(slots', i) # Total(slots, i))
        => CarriedEmpty(slots') \/ \E r \in craftingRecipes : ChangesBy(r) ]_vars
    BY CraftStep
<1>. QED
    BY <1>1, <1>2, PickedInit, TypeCorrect, PTL DEF Spec, CraftIsExact
(***************************************************************************)
(* Wear.                                                                   *)
(***************************************************************************)

\* No place has gained hp.
Worn(s, t) == \A p \in Place : t[p].hp <= s[p].hp

LEMMA WornSame == \A s \in Slots : Worn(s, s)
BY DEF Worn, Slots, Slot

LEMMA WornTwice ==
    ASSUME NEW s \in Slots, NEW t \in Slots, NEW u \in Slots, Worn(s, t), Worn(t, u)
    PROVE  Worn(s, u)
<1>. SUFFICES ASSUME NEW p \in Place PROVE u[p].hp <= s[p].hp
    BY DEF Worn
<1>1. s[p].hp \in Int /\ t[p].hp \in Int /\ u[p].hp \in Int
    BY DEF Slots, Slot
<1>. QED
    BY <1>1 DEF Worn

LEMMA OneLessWorn ==
    ASSUME NEW s \in Slots, currentSlot \in Place
    PROVE  Worn(s, OneLess(s))
<1>. SUFFICES ASSUME NEW p \in Place PROVE OneLess(s)[p].hp <= s[p].hp
    BY DEF Worn
<1>1. s[p].hp \in Int
    BY DEF Slots, Slot
<1>2. OneLess(s)[p].hp = s[p].hp
    BY OneLessIs DEF Slots, Slot
<1>. QED
    BY <1>1, <1>2

LEMMA ShearWorn ==
    ASSUME NEW st \in St, NEW furred, currentSlot \in Place
    PROVE  Worn(st.slots, Shear(st, furred).slots)
<1>. DEFINE h == st.slots[currentSlot].hp - 1
            s == [st.slots EXCEPT
                     ![currentSlot].hp = h,
                     ![currentSlot].type = IF h = 0 THEN NoItem ELSE @]
<1>1. st.slots \in Slots /\ st.slots[currentSlot] \in Slot /\ h \in Int /\ h <= st.slots[currentSlot].hp
    BY DEF St, Slots, Slot
<1>2. s[currentSlot].hp = h /\ \A p \in Place : p # currentSlot => s[p] = st.slots[p]
    <2>. HIDE DEF h
    <2>. QED  BY <1>1 DEF Slots, Slot
<1>3. Worn(st.slots, s)
    <2>1. \A p \in Place : st.slots[p].hp \in Int
        BY <1>1 DEF Slots, Slot
    <2>. HIDE DEF h, s
    <2>. QED  BY <1>1, <1>2, <2>1 DEF Worn
<1>4. Shear(st, furred).slots \in {st.slots, s}
    BY DEF Shear, St
<1>. HIDE DEF s
<1>. QED
    BY <1>1, <1>3, <1>4, WornSame

LEMMA RestWorn ==
    ASSUME NEW st \in St, NEW mob, NEW allowed, currentSlot \in Place
    PROVE  /\ Worn(st.slots, Feed(st, mob).slots) /\ Worn(st.slots, Eat(st).slots)
           /\ Worn(st.slots, Hatch(st).slots) /\ Worn(st.slots, PlaceBlock(st, allowed).slots)
<1>1. st.slots \in Slots
    BY DEF St
<1>2. Worn(st.slots, st.slots) /\ Worn(st.slots, OneLess(st.slots))
    BY <1>1, WornSame, OneLessWorn
<1>3. Feed(st, mob).slots \in {st.slots, OneLess(st.slots)}
    BY DEF Feed, St
<1>4. Eat(st).slots \in {st.slots, OneLess(st.slots)}
    BY DEF Eat, St
<1>5. Hatch(st).slots \in {st.slots, OneLess(st.slots)}
    BY DEF Hatch, St
<1>6. PlaceBlock(st, allowed).slots \in {st.slots, OneLess(st.slots)}
    BY DEF PlaceBlock, St
<1>. QED
    BY <1>2, <1>3, <1>4, <1>5, <1>6

LEMMA UseItemWorn ==
    ASSUME TypeOK, NEW mob, NEW furred, NEW allowed, UseItem(mob, furred, allowed)
    PROVE  Worn(slots, slots')
<1>. DEFINE now  == [slots |-> slots, sel |-> blockSelected, ground |-> ground]
            shorn == Shear(now, furred)
            fed == Feed(shorn, mob)
            fuller == Eat(fed)
            hatched == Hatch(fuller)
            then == PlaceBlock(hatched, allowed)
<1>0. currentSlot \in Place
    BY PlacesAreNumbers DEF TypeOK
<1>1. now \in St /\ now.slots = slots /\ slots \in Slots
    BY DEF TypeOK, St, Slots, Ground, Held
<1>2. shorn \in St /\ shorn.slots \in Slots /\ Worn(slots, shorn.slots)
    <2>. HIDE DEF now
    <2>1. shorn \in St /\ Worn(now.slots, shorn.slots)
        BY <1>0, <1>1, ShearType, ShearWorn
    <2>. HIDE DEF shorn
    <2>. QED  BY <1>1, <2>1 DEF St
<1>3. fed \in St /\ fed.slots \in Slots /\ Worn(shorn.slots, fed.slots)
    <2>. HIDE DEF shorn
    <2>1. fed \in St /\ Worn(shorn.slots, fed.slots)
        BY <1>0, <1>2, FeedType, RestWorn
    <2>. HIDE DEF fed
    <2>. QED  BY <2>1 DEF St
<1>4. fuller \in St /\ fuller.slots \in Slots /\ Worn(fed.slots, fuller.slots)
    <2>. HIDE DEF fed
    <2>1. fuller \in St /\ Worn(fed.slots, fuller.slots)
        BY <1>0, <1>3, EatType, RestWorn
    <2>. HIDE DEF fuller
    <2>. QED  BY <2>1 DEF St
<1>5. hatched \in St /\ hatched.slots \in Slots /\ Worn(fuller.slots, hatched.slots)
    <2>. HIDE DEF fuller
    <2>1. hatched \in St /\ Worn(fuller.slots, hatched.slots)
        BY <1>0, <1>4, HatchType, RestWorn
    <2>. HIDE DEF hatched
    <2>. QED  BY <2>1 DEF St
<1>6. then \in St /\ then.slots \in Slots /\ Worn(hatched.slots, then.slots)
    <2>. HIDE DEF hatched
    <2>1. then \in St /\ Worn(hatched.slots, then.slots)
        BY <1>0, <1>5, PlaceBlockType, RestWorn
    <2>. HIDE DEF then
    <2>. QED  BY <2>1 DEF St
<1>7. slots' = then.slots
    BY DEF UseItem
<1>. HIDE DEF then, hatched, fuller, fed, shorn
<1>8. Worn(slots, fed.slots)
    BY <1>1, <1>2, <1>3, WornTwice
<1>9. Worn(slots, fuller.slots)
    BY <1>1, <1>3, <1>4, <1>8, WornTwice
<1>10. Worn(slots, hatched.slots)
    BY <1>1, <1>4, <1>5, <1>9, WornTwice
<1>11. Worn(slots, then.slots)
    BY <1>1, <1>5, <1>6, <1>10, WornTwice
<1>. QED
    BY <1>7, <1>11

\* addItemToHotbarInventory gives hp to slots that hold nothing only.
LEMMA AddedWear ==
    ASSUME NEW s \in Slots, NEW item \in Items, NEW n \in Int, NEW p \in Place,
           s[p].amount # 0 \/ p # PlaceFor(s, item, n)
    PROVE  Added(s, item, n)[p].hp = s[p].hp
BY DEF Added, Slots

\* Each place keeps its hp, or is emptied for a recipe that takes its item.
LEMMA ConsumedWear ==
    ASSUME NEW s \in Slots, NEW cost, NEW p \in Carried, s[p].type # NoItem, s[p].amount > 0
    PROVE  \/ /\ Consumed(s, cost)[p].hp = s[p].hp
              /\ Consumed(s, cost)[p].type = s[p].type
              /\ Consumed(s, cost)[p].amount # 0
           \/ Consumed(s, cost)[p].type = NoItem /\ cost[s[p].type] # 0
<1>. DEFINE left == Left(s, s[p].type, cost[s[p].type])[p]
<1>1. cost[s[p].type] = 0 => left = 0
    BY LeftOfNothing
<1>2. s[p] \in Slot /\ p \in Place
    BY PlacesAreNumbers DEF Slots
<1>. HIDE DEF left
<1>3. Consumed(s, cost)[p] =
          IF left = 0 THEN s[p]
          ELSE IF left \in 1 .. s[p].amount - 1
               THEN [s[p] EXCEPT !.amount = s[p].amount - left]
               ELSE EmptySlot
    BY <1>2 DEF Consumed, left
<1>4. CASE left = 0
    BY <1>2, <1>3, <1>4 DEF Slot
<1>5. CASE left \in 1 .. s[p].amount - 1
    <2>1. /\ Consumed(s, cost)[p].hp = s[p].hp /\ Consumed(s, cost)[p].type = s[p].type
          /\ Consumed(s, cost)[p].amount = s[p].amount - left
        BY <1>2, <1>3, <1>5 DEF Slot
    <2>. QED
        BY <1>2, <1>5, <2>1 DEF Slot
<1>6. CASE left # 0 /\ left \notin 1 .. s[p].amount - 1
    BY <1>1, <1>3, <1>6 DEF EmptySlot
<1>. QED
    BY <1>4, <1>5, <1>6

LEMMA RepairStep ==
    ASSUME TypeOK, [Next]_vars, NEW p \in Carried,
           UIState \in {"game", "inventory"}, UIState' = UIState, picked' = picked,
           slots[p].type # NoItem, slots[p].amount > 0,
           slots'[p].type = slots[p].type
    PROVE  slots'[p].hp <= slots[p].hp
<1>0. /\ slots \in Slots /\ currentSlot \in Place /\ p \in Place
      /\ slots[p] \in Slot /\ slots[p].hp \in Int /\ slots[p].hp <= slots[p].hp
    BY PlacesAreNumbers DEF TypeOK, Slots, Slot
<1>1. CASE slots' = slots
    BY <1>0, <1>1
<1>2. CASE UseFurnace
    <2>1. slots'[p].hp = slots[p].hp
        BY <1>0, <1>2 DEF UseFurnace, Slots, Slot
    <2>. QED
        BY <1>0, <2>1
<1>3. CASE UseHoe
    <2>1. \/ slots' = slots
          \/ slots' = [slots EXCEPT ![currentSlot] = EmptySlot]
          \/ slots' = [slots EXCEPT ![currentSlot].hp = slots[currentSlot].hp - 1]
        BY <1>3 DEF UseHoe
    <2>2. CASE slots' = [slots EXCEPT ![currentSlot] = EmptySlot]
        BY <1>0, <2>2 DEF Slots, EmptySlot
    <2>3. CASE slots' = [slots EXCEPT ![currentSlot].hp = slots[currentSlot].hp - 1]
        BY <1>0, <2>3 DEF Slots, Slot
    <2>. QED
        BY <1>0, <2>1, <2>2, <2>3
<1>4. ASSUME NEW mob, NEW furred, NEW allowed, UseItem(mob, furred, allowed)
      PROVE  slots'[p].hp <= slots[p].hp
    BY <1>0, <1>4, UseItemWorn DEF Worn
<1>5. ASSUME NEW drop, DestroyBlock(drop)
      PROVE  slots'[p].hp <= slots[p].hp
    <2>1. \/ slots' = slots
          \/ slots' = [slots EXCEPT ![currentSlot].amount = 0,
                                    ![currentSlot].type = NoItem]
          \/ slots' = [slots EXCEPT ![currentSlot].hp = slots[currentSlot].hp - 1]
        BY <1>5 DEF DestroyBlock
    <2>2. CASE slots' = [slots EXCEPT ![currentSlot].amount = 0, ![currentSlot].type = NoItem]
        <3>1. slots'[p].hp = slots[p].hp
            BY <1>0, <2>2 DEF Slots, Slot
        <3>. QED
            BY <1>0, <3>1
    <2>3. CASE slots' = [slots EXCEPT ![currentSlot].hp = slots[currentSlot].hp - 1]
        BY <1>0, <2>3 DEF Slots, Slot
    <2>. QED
        BY <1>0, <2>1, <2>2, <2>3
<1>6. ASSUME NEW e \in Pool, PickUp(e)
      PROVE  slots'[p].hp <= slots[p].hp
    <2>1. ground[e] \in Items /\ slots' = Added(slots, ground[e], 1)
        BY <1>6 DEF PickUp, TypeOK
    <2>2. slots[p].amount # 0
        BY <1>0 DEF Slot
    <2>3. slots'[p].hp = slots[p].hp
        BY <1>0, <2>1, <2>2, AddedWear
    <2>. QED
        BY <1>0, <2>3
<1>7. ASSUME NEW r \in craftingRecipes, Craft(r), CanCraft(r)
      PROVE  slots'[p].hp <= slots[p].hp
    <2>. DEFINE cost == r.inputItemAmount
                t == Consumed(slots, cost)
                out == r.outputItem
                n == r.outputItemAmount
    <2>1. /\ out \in Items /\ n \in Int /\ cost[out] = 0 /\ out # NoItem
        BY ItemsAssumption, SizesAssumption, RecipesAssumption DEF Recipe
    <2>2. t \in Slots
        BY <1>0, ConsumedType
    <2>3. slots' = Added(t, out, n)
        BY <1>7 DEF Craft
    <2>4. \/ t[p].hp = slots[p].hp /\ t[p].type = slots[p].type /\ t[p].amount # 0
          \/ t[p].type = NoItem /\ cost[slots[p].type] # 0
        BY <1>0, ConsumedWear
    <2>. HIDE DEF t, cost, out, n
    <2>5. CASE t[p].hp = slots[p].hp /\ t[p].amount # 0
        <3>1. slots'[p].hp = t[p].hp
            BY <1>0, <2>1, <2>2, <2>3, <2>5, AddedWear
        <3>. QED
            BY <1>0, <2>5, <3>1
    <2>6. CASE t[p].type = NoItem /\ cost[slots[p].type] # 0
        <3>1. slots'[p].type \in {t[p].type, out}
            BY <1>0, <2>2, <2>3 DEF Added, Slots
        <3>. QED
            BY <2>1, <2>6, <3>1
    <2>. QED
        BY <2>4, <2>5, <2>6
<1>8. CASE Die
    <2>1. slots'[p] = EmptySlot
        BY <1>0, <1>8 DEF Die
    <2>. QED
        BY <2>1 DEF EmptySlot
<1>9. ASSUME NEW x \in Place, SwapSlots(x)
      PROVE  FALSE
    BY <1>9, ItemsAssumption, PlacesAreNumbers DEF SwapSlots
<1>10. ASSUME \/ \E x \in Hotbar : PutItem(x)
              \/ Quit \/ CreateWorld
       PROVE  FALSE
    BY <1>10 DEF PutItem, Quit, CreateWorld
<1>11. ASSUME \/ \E drop \in Drops : MobDies(drop)
              \/ \E step \in {-1, 1} : SelectSlot(step)
              \/ SwitchMode \/ OpenScreen \/ CloseScreen
              \/ \E x \in Place : ChooseSlot(x)
              \/ \E item \in Items : ChooseItem(item)
              \/ \E r \in craftingRecipes : Craft(r) /\ ~CanCraft(r)
              \/ UNCHANGED vars
       PROVE  slots' = slots
    BY <1>11 DEF MobDies, SelectSlot, SwitchMode, OpenScreen, CloseScreen, ChooseSlot,
                 ChooseItem, Craft, vars
<1>. QED
    BY <1>1, <1>2, <1>3, <1>4, <1>5, <1>6, <1>7, <1>8, <1>9, <1>10, <1>11 DEF Next

(* Nothing repairs a tool: picking up and crafting onto a slot that holds  *)
(* one, and every use of it, leave it no more hp than it had, for every    *)
(* item table in which no recipe takes what it makes.                      *)
THEOREM WearCorrect == Spec => NothingRepairsATool
<1>1. TypeOK /\ [Next]_vars =>
      [ \A p \in Carried :
          (/\ UIState \in {"game", "inventory"} /\ UIState' = UIState
           /\ picked' = picked
           /\ slots[p].type # NoItem /\ slots[p].amount > 0
           /\ slots'[p].type = slots[p].type)
          => slots'[p].hp <= slots[p].hp ]_vars
    BY RepairStep
<1>. QED
    BY <1>1, TypeCorrect, PTL DEF Spec, NothingRepairsATool
=============================================================================
