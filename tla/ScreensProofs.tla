---------------------------- MODULE ScreensProofs ----------------------------
(***************************************************************************)
(* What Screens promises, for any number of columns, worlds, items and     *)
(* recipes, and for any keys that may be down together.                    *)
(*                                                                         *)
(* A key is asked for after the keys before it have been handled, so that  *)
(* what a screen does to its variables is a sequence of states, one for    *)
(* each of its keys (DoneIs).  Three facts are carried along it: the types *)
(* (UIRec), that the screen is still shown with its variables in order     *)
(* (At), and that it has been left with them put back (Ready for a list,  *)
(* the screen of play for a bag).                                          *)
(***************************************************************************)
EXTENDS Screens, Sums

BagScreens == {Bag, Creative, ChestBag}
ScreenIds == {Game} \cup BagScreens \cup Lists
UIRec == [UIState : ScreenIds, cursorX : Int, cursorY : Nat, cursorYExtra : 0..RecipeRows,
          cursorStage : {0, 1}, picked : Int \X Int, cursorTypeSelected : Int,
          UIstateOld : {0, TitleSettings, GameSettings}, WorldOpenMode : OpenMode..EditMode,
          isInCraftingTable : BOOLEAN, currentSelectedWorld : 0..Worlds,
          worldExists : [1..Worlds -> BOOLEAN], currentTexturePackIndex : 0..4,
          ExitLoop : BOOLEAN, inMemory : 0..Worlds]

\* The cursor of each kind of screen.
ListCursor(v) ==
    /\ v.UIState \in Lists => v.cursorY \in 0..(Buttonlength(v.UIState) - 1)
    /\ v.UIState = Game => v.cursorY \in {0, 1}
    /\ v.UIState \notin BagScreens => v.cursorX = 0 /\ v.cursorStage = 0
BagCursor(v) ==
    /\ v.UIState = Bag => v.cursorX \in -3..(Columns - 1) /\ v.cursorY \in 0..3
    /\ v.UIState = ChestBag => v.cursorX \in 0..(Columns - 1) /\ v.cursorY \in 0..6
    /\ v.UIState = Creative => v.cursorX \in 0..(Columns - 1) /\ v.cursorY \in 0..2
Picked(v) ==
    v.cursorStage = 1 =>
        IF v.UIState = Creative THEN v.cursorTypeSelected \in 1..(itemAmount - 1)
        ELSE /\ v.picked[1] \in 0..(Columns - 1)
             /\ v.picked[2] \in 0..(IF v.UIState = Bag THEN 3 ELSE 6)
\* The world of screen s, which need not be the one that is current.
World(v, s) ==
    /\ (v.inMemory # 0) = (s \in InPlay \/ (s = TexturePacks /\ v.UIstateOld = GameSettings))
    /\ v.inMemory # 0 => v.currentSelectedWorld = v.inMemory
    /\ v.WorldOpenMode # OpenMode => s = Selection
    /\ s \in {Creation, Conversion} => v.currentSelectedWorld # 0
    /\ s = TexturePacks => v.UIstateOld # 0
    /\ v.isInCraftingTable => s = Bag
Good(v) == v \in UIRec /\ ListCursor(v) /\ BagCursor(v) /\ Picked(v) /\ World(v, v.UIState)
At(v, s) == Good(v) /\ v.UIState = s
\* List s, or the screen it has been left for.
Ready(v, s) == Good(v) /\ v.UIState \in Lists \cup {Game} /\ World(v, s)

-----------------------------------------------------------------------------
(* The numbers.                                                            *)

LEMMA Rows ==
    /\ RecipeRows \in Nat /\ ItemRows \in Nat /\ ItemRows <= RecipeRows
    /\ 3 * (3 + RecipeRows) <= craftingRecipeAmount
    /\ Columns \in Nat \ {0} /\ Worlds \in Nat \ {0} /\ itemAmount \in Nat
    /\ craftingRecipeAmount \in Nat /\ maxTextureIndex \in 0..5
<1>1. /\ Columns \in Nat \ {0} /\ Worlds \in Nat \ {0} /\ itemAmount \in Nat
      /\ craftingRecipeAmount \in Nat /\ maxTextureIndex \in 0..5
      /\ itemAmount \div Columns \in Nat \ {0, 1}
      /\ craftingRecipeAmount \div 3 - 3 >= itemAmount \div Columns - 2
    BY ScreensAssumption
<1>. DEFINE q == itemAmount \div Columns
            r == craftingRecipeAmount \div 3
<1>2. r \in Int /\ 3 * r <= craftingRecipeAmount
    BY <1>1
<1>3. RecipeRows = r - 3 /\ ItemRows = q - 2
    BY DEF RecipeRows, ItemRows
<1>4. q \in Nat \ {0, 1} /\ r - 3 >= q - 2
    BY <1>1
<1>. HIDE DEF q, r
<1>. QED
    BY <1>1, <1>2, <1>3, <1>4

LEMMA ScreensAre ==
    /\ Lists = {9, 10, 11, 12, 13, 14, 15, 19} /\ BagScreens = {16, 17, 18}
    /\ InPlay = {0, 13, 14, 16, 17, 18}
BY DEF Lists, BagScreens, InPlay, Game, Title, Selection, Creation, TitleSettings, GameMenu,
       GameSettings, Conversion, Bag, Creative, ChestBag, TexturePacks

LEMMA ButtonsAre ==
    ASSUME NEW s \in Lists
    PROVE  /\ Buttonlength(s) \in Nat /\ Buttonlength(s) >= 2
           /\ s \in {TitleSettings, GameSettings} => Buttonlength(s) = 12
           /\ s = Title => Buttonlength(s) = 3
           /\ s = GameMenu => Buttonlength(s) = 5
           /\ s = Selection => Buttonlength(s) = Worlds + 1
BY Rows DEF Buttonlength, Lists, Title, Selection, Creation, TitleSettings, GameMenu,
       GameSettings, Conversion, TexturePacks

-----------------------------------------------------------------------------
(* The sequence of a screen's keys.                                        *)

Step(v, s, i, down, meets, survival) ==
    IF KeysOf(s)[i] \in down THEN On(v, s, KeysOf(s)[i], meets, survival) ELSE v
Doing(f, S, u, s, down, meets, survival) ==
    f = [i \in S |-> IF i = 0 THEN u
                     ELSE IF KeysOf(s)[i] \in down
                          THEN On(f[i - 1], s, KeysOf(s)[i], meets, survival)
                          ELSE f[i - 1]]
Done(u, s, down, meets, survival) ==
    CHOOSE f : Doing(f, 0..Len(KeysOf(s)), u, s, down, meets, survival)

LEMMA KeysCounted ==
    ASSUME NEW s \in ScreenIds
    PROVE  Len(KeysOf(s)) \in Nat /\ Len(KeysOf(s)) >= 3
BY ScreensAre DEF KeysOf, ScreenIds, Lists, BagScreens, Game, Title, Selection, Creation, TitleSettings, GameMenu,
       GameSettings, Conversion, Bag, Creative, ChestBag, TexturePacks

LEMMA DoingExists ==
    ASSUME NEW u, NEW s \in ScreenIds, NEW down, NEW meets, NEW survival
    PROVE  \E f : Doing(f, 0..Len(KeysOf(s)), u, s, down, meets, survival)
<1>. DEFINE Q == {m \in Nat : \E f : Doing(f, 0..m, u, s, down, meets, survival)}
<1>1. 0 \in Q
    <2>. DEFINE f == [i \in 0..0 |-> u]
    <2>1. Doing(f, 0..0, u, s, down, meets, survival)
        BY DEF Doing
    <2>. QED
        BY <2>1
<1>2. ASSUME NEW m \in Nat, m \in Q
      PROVE  m + 1 \in Q
    <2>1. PICK f : Doing(f, 0..m, u, s, down, meets, survival)
        BY <1>2
    <2>. DEFINE g == [i \in 0..(m + 1) |->
                        IF i = m + 1 THEN Step(f[m], s, m + 1, down, meets, survival) ELSE f[i]]
    <2>2. ASSUME NEW i \in 0..(m + 1)
          PROVE  g[i] = IF i = 0 THEN u ELSE Step(g[i - 1], s, i, down, meets, survival)
        <3>1. CASE i = m + 1
            <4>1. g[i] = Step(f[m], s, m + 1, down, meets, survival) /\ i - 1 = m
                  /\ g[m] = f[m] /\ i # 0
                BY <3>1
            <4>. QED
                BY <3>1, <4>1
        <3>2. CASE i # m + 1
            <4>1. i \in 0..m /\ g[i] = f[i]
                BY <3>2
            <4>2. f[i] = IF i = 0 THEN u ELSE Step(f[i - 1], s, i, down, meets, survival)
                BY <2>1, <4>1 DEF Doing, Step
            <4>3. i # 0 => g[i - 1] = f[i - 1]
                BY <4>1
            <4>. QED
                BY <4>1, <4>2, <4>3
        <3>. QED
            BY <3>1, <3>2
    <2>3. Doing(g, 0..(m + 1), u, s, down, meets, survival)
        <3>1. g = [i \in 0..(m + 1) |-> g[i]]
            OBVIOUS
        <3>. HIDE DEF g
        <3>. QED
            BY <2>2, <3>1 DEF Doing, Step
    <2>. QED
        BY <2>3
<1>3. Len(KeysOf(s)) \in Q
    <2>. HIDE DEF Q
    <2>. QED  BY <1>1, <1>2, KeysCounted, NumberInduction
<1>. QED
    BY <1>3

\* Every key is asked for in its turn, with what the keys before it have done.
LEMMA DoneIs ==
    ASSUME NEW u, NEW s \in ScreenIds, NEW down, NEW meets, NEW survival
    PROVE  LET d == Done(u, s, down, meets, survival)
           IN  /\ d[0] = u
               /\ \A i \in 1..Len(KeysOf(s)) : d[i] = Step(d[i - 1], s, i, down, meets, survival)
<1>. DEFINE d == Done(u, s, down, meets, survival)
<1>1. Doing(d, 0..Len(KeysOf(s)), u, s, down, meets, survival)
    BY Zenon, DoingExists DEF Done
<1>2. Len(KeysOf(s)) \in Nat
    BY KeysCounted
<1>. HIDE DEF d
<1>. QED
    BY <1>1, <1>2 DEF Doing, Step, d

LEMMA HandledIs ==
    ASSUME NEW u, NEW s \in ScreenIds, NEW down, NEW meets, NEW survival, NEW found
    PROVE  LET last == Done(u, s, down, meets, survival)[Len(KeysOf(s))]
               lost == s = ChestBag /\ ~found
               w == Handled(u, s, down, meets, survival, found)
           IN  (lost => w = [last EXCEPT !.UIState = Game]) /\ (~lost => w = last)
BY DEF Handled, Done, Doing

-----------------------------------------------------------------------------
(* Lists.                                                                  *)

\* A list moves its cursor.
LEMMA RowMoves ==
    ASSUME NEW v, NEW s \in Lists, At(v, s), NEW n \in 0..(Buttonlength(s) - 1)
    PROVE  At([v EXCEPT !.cursorY = n], s)
<1>. DEFINE w == [v EXCEPT !.cursorY = n]
<1>1. v \in UIRec /\ v.UIState = s /\ n \in Nat
    BY ButtonsAre DEF At, Good
<1>2. w \in UIRec
    BY <1>1 DEF UIRec
<1>3. /\ w.UIState = s /\ w.cursorX = v.cursorX /\ w.cursorStage = v.cursorStage /\ w.cursorY = n
      /\ w.inMemory = v.inMemory /\ w.currentSelectedWorld = v.currentSelectedWorld
      /\ w.WorldOpenMode = v.WorldOpenMode /\ w.UIstateOld = v.UIstateOld
      /\ w.isInCraftingTable = v.isInCraftingTable
    BY <1>1 DEF UIRec
<1>. HIDE DEF w
<1>4. s \notin BagScreens /\ s # Game /\ s \notin {Bag, Creative, ChestBag}
    BY ScreensAre DEF Game, Bag, Creative, ChestBag
<1>5. ListCursor(w) /\ BagCursor(w) /\ Picked(w)
    BY <1>1, <1>3, <1>4 DEF At, Good, ListCursor, BagCursor, Picked
<1>6. World(w, w.UIState)
    BY <1>1, <1>3 DEF At, Good, World
<1>. QED
    BY <1>2, <1>3, <1>5, <1>6 DEF At, Good, w

\* A list is left for a list or for play, with the cursor put back.
LEMMA Goes ==
    ASSUME NEW w \in UIRec, w.UIState \in Lists \cup {Game}, w.cursorY \in {0, 1}, w.cursorX = 0,
           w.cursorStage = 0, World(w, w.UIState)
    PROVE  Good(w)
<1>1. w.UIState \notin {Bag, Creative, ChestBag}
    BY ScreensAre DEF Game, Bag, Creative, ChestBag
<1>2. ListCursor(w) /\ BagCursor(w) /\ Picked(w)
    BY <1>1, ButtonsAre DEF ListCursor, BagCursor, Picked
<1>. QED
    BY <1>2 DEF Good

LEMMA UpIsAt ==
    ASSUME NEW v, NEW s \in Lists, At(v, s)
    PROVE  At(OnList(v, s, "up"), s)
<1>1. v.cursorY \in 0..(Buttonlength(s) - 1) /\ Buttonlength(s) \in Nat
    BY ButtonsAre DEF At, Good, ListCursor
<1>. DEFINE n == IF v.cursorY # 0 THEN v.cursorY - 1 ELSE Buttonlength(s) - 1
<1>2. n \in 0..(Buttonlength(s) - 1)
    BY <1>1
<1>3. OnList(v, s, "up") = [v EXCEPT !.cursorY = n]
    BY DEF OnList, Up
<1>. HIDE DEF n
<1>. QED
    BY <1>2, <1>3, RowMoves

LEMMA DownIsAt ==
    ASSUME NEW v, NEW s \in Lists, At(v, s)
    PROVE  At(OnList(v, s, "down"), s)
<1>1. v.cursorY \in 0..(Buttonlength(s) - 1) /\ Buttonlength(s) \in Nat
    BY ButtonsAre DEF At, Good, ListCursor
<1>. DEFINE n == IF v.cursorY # Buttonlength(s) - 1 THEN v.cursorY + 1 ELSE 0
<1>2. n \in 0..(Buttonlength(s) - 1)
    BY <1>1
<1>3. OnList(v, s, "down") = [v EXCEPT !.cursorY = n]
    BY DEF OnList, Down
<1>. HIDE DEF n
<1>. QED
    BY <1>2, <1>3, RowMoves

LEMMA AtIsReady ==
    ASSUME NEW v, NEW s \in Lists, At(v, s)
    PROVE  Ready(v, s)
BY DEF At, Ready, Good

\* With the screen, nothing of the world is changed.
LEMMA Leads ==
    ASSUME NEW v, NEW s \in Lists, Ready(v, s), NEW d \in Lists \cup {Game}, World(v, d)
    PROVE  /\ Good(To(v, d)) /\ To(v, d).UIState = d /\ To(v, d).cursorY = 0
           /\ World(v, s) => World(To(v, d), s)
<1>. DEFINE w == To(v, d)
<1>1. v \in UIRec /\ d \in ScreenIds
    BY DEF Ready, Good, ScreenIds
<1>3. w \in UIRec
    BY <1>1 DEF To, UIRec
<1>4. /\ w.UIState = d /\ w.cursorX = v.cursorX /\ w.cursorStage = v.cursorStage /\ w.cursorY = 0
      /\ w.inMemory = v.inMemory /\ w.currentSelectedWorld = v.currentSelectedWorld
      /\ w.WorldOpenMode = v.WorldOpenMode /\ w.UIstateOld = v.UIstateOld
      /\ w.isInCraftingTable = v.isInCraftingTable
    BY <1>1 DEF UIRec, To
<1>. HIDE DEF w
<1>5. v.cursorX = 0 /\ v.cursorStage = 0
    BY ScreensAre DEF Ready, Good, ListCursor, Game
<1>6. World(w, d) /\ (World(v, s) => World(w, s))
    BY <1>4 DEF World
<1>7. Good(w)
    BY <1>3, <1>4, <1>5, <1>6, Goes
<1>. QED
    BY <1>4, <1>6, <1>7 DEF w

LEMMA BackGoes ==
    ASSUME NEW v, NEW s \in Lists \ {Title, Selection}, Ready(v, s)
    PROVE  /\ Good(Back(v, s)) /\ Back(v, s).cursorY = 0 /\ Back(v, s).UIState \in Lists \cup {Game}
           /\ Ready(Back(v, s), s)
<1>1. \E d \in Lists \cup {Game} : Back(v, s) = To(v, d) /\ World(v, d)
    <2>1. v.UIstateOld \in {0, TitleSettings, GameSettings} /\ World(v, s)
        BY DEF Ready, Good, UIRec
    <2>2. CASE s \in {Creation, Conversion}
        <3>1. Back(v, s) = To(v, Selection) /\ World(v, Selection)
            BY <2>1, <2>2 DEF Back, World, InPlay, Game, Selection, Creation, GameMenu,
                GameSettings, Conversion, Bag, Creative, ChestBag, TexturePacks, TitleSettings, Title
        <3>. QED  BY <3>1 DEF Lists
    <2>3. CASE s = TitleSettings
        <3>1. Back(v, s) = To(v, Title) /\ World(v, Title)
            BY <2>1, <2>3 DEF Back, World, InPlay, Game, Selection, Creation, GameMenu,
                GameSettings, Conversion, Bag, Creative, ChestBag, TexturePacks, TitleSettings, Title
        <3>. QED  BY <3>1 DEF Lists
    <2>4. CASE s = GameMenu
        <3>1. Back(v, s) = To(v, Game) /\ World(v, Game)
            BY <2>1, <2>4 DEF Back, World, InPlay, Game, Selection, Creation, GameMenu,
                GameSettings, Conversion, Bag, Creative, ChestBag, TexturePacks, TitleSettings, Title
        <3>. QED  BY <3>1 DEF Lists
    <2>5. CASE s = GameSettings
        <3>1. Back(v, s) = To(v, GameMenu) /\ World(v, GameMenu)
            BY <2>1, <2>5 DEF Back, World, InPlay, Game, Selection, Creation, GameMenu,
                GameSettings, Conversion, Bag, Creative, ChestBag, TexturePacks, TitleSettings, Title
        <3>. QED  BY <3>1 DEF Lists
    <2>6. CASE s = TexturePacks
        <3>1. /\ Back(v, s) = To(v, v.UIstateOld) /\ World(v, v.UIstateOld)
              /\ v.UIstateOld \in {TitleSettings, GameSettings}
            BY <2>1, <2>6 DEF Back, World, InPlay, Game, Selection, Creation, GameMenu,
                GameSettings, Conversion, Bag, Creative, ChestBag, TexturePacks, TitleSettings, Title
        <3>. QED  BY <3>1 DEF Lists
    <2>. QED
        BY <2>2, <2>3, <2>4, <2>5, <2>6 DEF Lists
<1>2. PICK d \in Lists \cup {Game} : Back(v, s) = To(v, d) /\ World(v, d)
    BY <1>1
<1>3. World(v, s)
    BY DEF Ready
<1>. QED
    BY <1>2, <1>3, Leads DEF Ready

\* The selection is left for the title with its mode put back.
LEMMA SelectionLeft ==
    ASSUME NEW v, Ready(v, Selection)
    PROVE  LET w == LeaveSelection(v)
           IN  Good(w) /\ w.UIState = Title /\ w.cursorY = 0 /\ World(w, Selection)
<1>. DEFINE w == LeaveSelection(v)
<1>1. v \in UIRec /\ v.UIState \in Lists \cup {Game} /\ World(v, Selection)
    BY DEF Ready, Good
<1>2. w \in UIRec
    <2>. DEFINE t == To(v, Title)
    <2>1. t \in UIRec
        BY <1>1 DEF To, UIRec, ScreenIds, Lists
    <2>2. w = [t EXCEPT !.WorldOpenMode = 0] /\ 0 \in OpenMode..EditMode
        BY DEF LeaveSelection, OpenMode, EditMode
    <2>. HIDE DEF t, w
    <2>. QED
        BY <2>1, <2>2 DEF UIRec
<1>3. /\ w.UIState = Title /\ w.cursorX = v.cursorX /\ w.cursorStage = v.cursorStage
      /\ w.cursorY = 0 /\ w.inMemory = v.inMemory
      /\ w.currentSelectedWorld = v.currentSelectedWorld
      /\ w.WorldOpenMode = 0 /\ w.UIstateOld = v.UIstateOld
      /\ w.isInCraftingTable = v.isInCraftingTable
    BY <1>1 DEF UIRec, To, LeaveSelection
<1>. HIDE DEF w
<1>4. v.cursorX = 0 /\ v.cursorStage = 0
    BY ScreensAre DEF Ready, Good, ListCursor, Game
<1>5. World(w, Selection) /\ World(w, Title)
    BY <1>1, <1>3 DEF World, InPlay, Game, Selection, Creation, GameMenu, OpenMode,
       GameSettings, Conversion, Bag, Creative, ChestBag, TexturePacks, TitleSettings, Title
<1>6. Good(w)
    BY <1>2, <1>3, <1>4, <1>5, Goes DEF Lists
<1>. QED
    BY <1>3, <1>5, <1>6 DEF w

LEMMA MenuGoes ==
    ASSUME NEW v, NEW s \in Lists \ {Title}, Ready(v, s)
    PROVE  Ready(OnList(v, s, "menu"), s) /\ OnList(v, s, "menu").cursorY = 0
<1>1. OnList(v, s, "menu") = IF s = Selection THEN LeaveSelection(v) ELSE Back(v, s)
    BY DEF OnList
<1>2. CASE s = Selection
    BY <1>1, <1>2, SelectionLeft DEF Ready, Lists
<1>3. CASE s # Selection
    BY <1>1, <1>3, BackGoes
<1>. QED
    BY <1>2, <1>3

\* A screen that has been left moves the cursor once more.
LEMMA DownIsReady ==
    ASSUME NEW v, NEW s \in Lists, Ready(v, s), v.cursorY = 0
    PROVE  Ready(OnList(v, s, "down"), s)
<1>. DEFINE w == [v EXCEPT !.cursorY = 1]
<1>1. v \in UIRec /\ v.UIState \in Lists \cup {Game} /\ World(v, s) /\ World(v, v.UIState)
    BY DEF Ready, Good
<1>2. OnList(v, s, "down") = w
    <2>1. Buttonlength(s) - 1 # 0
        BY ButtonsAre
    <2>2. OnList(v, s, "down") = Down(v, Buttonlength(s))
        BY DEF OnList
    <2>. QED  BY <2>1, <2>2 DEF Down
<1>3. w \in UIRec
    BY <1>1 DEF UIRec
<1>4. /\ w.UIState = v.UIState /\ w.cursorX = v.cursorX /\ w.cursorStage = v.cursorStage
      /\ w.cursorY = 1 /\ w.inMemory = v.inMemory
      /\ w.currentSelectedWorld = v.currentSelectedWorld
      /\ w.WorldOpenMode = v.WorldOpenMode /\ w.UIstateOld = v.UIstateOld
      /\ w.isInCraftingTable = v.isInCraftingTable
    BY <1>1 DEF UIRec
<1>. HIDE DEF w
<1>5. v.cursorX = 0 /\ v.cursorStage = 0
    BY <1>1, ScreensAre DEF Ready, Good, ListCursor, Game
<1>6. World(w, s) /\ World(w, w.UIState)
    BY <1>1, <1>4 DEF World
<1>7. Good(w)
    BY <1>1, <1>3, <1>4, <1>5, <1>6, Goes
<1>. QED
    BY <1>1, <1>2, <1>4, <1>6, <1>7 DEF Ready

LEMMA ShiftIsAt ==
    ASSUME NEW v, At(v, Selection)
    PROVE  At(OnList(v, Selection, "shift"), Selection)
<1>. DEFINE n == IF v.WorldOpenMode = EditMode THEN OpenMode ELSE v.WorldOpenMode + 1
            w == [v EXCEPT !.WorldOpenMode = n]
<1>1. v \in UIRec /\ v.UIState = Selection /\ World(v, Selection)
    BY DEF At, Good
<1>2. n \in OpenMode..EditMode
    BY <1>1 DEF UIRec, OpenMode, EditMode
<1>3. OnList(v, Selection, "shift") = w
    BY DEF OnList, NextMode
<1>. HIDE DEF n
<1>4. w \in UIRec
    BY <1>1, <1>2 DEF UIRec
<1>5. /\ w.UIState = v.UIState /\ w.cursorX = v.cursorX /\ w.cursorStage = v.cursorStage
      /\ w.cursorY = v.cursorY /\ w.inMemory = v.inMemory
      /\ w.currentSelectedWorld = v.currentSelectedWorld /\ w.UIstateOld = v.UIstateOld
      /\ w.isInCraftingTable = v.isInCraftingTable /\ w.picked = v.picked
      /\ w.cursorTypeSelected = v.cursorTypeSelected
    BY <1>1 DEF UIRec
<1>. HIDE DEF w
<1>6. ListCursor(w) /\ BagCursor(w) /\ Picked(w)
    BY <1>1, <1>5 DEF At, Good, ListCursor, BagCursor, Picked
<1>7. World(w, Selection)
    BY <1>1, <1>5 DEF World
<1>. QED
    BY <1>1, <1>3, <1>4, <1>5, <1>6, <1>7 DEF At, Good

\* A world is entered, by play if it is in memory then.
LEMMA WorldEntered ==
    ASSUME NEW v, Ready(v, Selection), NEW c \in 1..Worlds,
           NEW d \in {Game, Creation, Conversion}, v.inMemory = 0
    PROVE  /\ d # Game => Good(EnterWorld(v, c, d))
           /\ d = Game => Good([EnterWorld(v, c, d) EXCEPT !.inMemory = c])
<1>. DEFINE t == To(v, d)
            x == [t EXCEPT !.currentSelectedWorld = c]
            w == EnterWorld(v, c, d)
            y == [w EXCEPT !.inMemory = c]
<1>1. v \in UIRec /\ v.UIState \in Lists \cup {Game} /\ World(v, Selection) /\ c \in 0..Worlds
    BY Rows DEF Ready, Good
<1>2. t \in UIRec
    BY <1>1 DEF To, UIRec, ScreenIds, Lists
<1>3. /\ t.UIState = d /\ t.cursorX = v.cursorX /\ t.cursorStage = v.cursorStage
      /\ t.cursorY = 0 /\ t.inMemory = v.inMemory
      /\ t.isInCraftingTable = v.isInCraftingTable
    BY <1>1 DEF UIRec, To
<1>4. w = [t EXCEPT !.currentSelectedWorld = c, !.WorldOpenMode = 0] /\ 0 \in OpenMode..EditMode
    BY DEF EnterWorld, OpenMode, EditMode
<1>. HIDE DEF t, w
<1>5. w \in UIRec
    <2>1. x \in UIRec
        BY <1>1, <1>2 DEF UIRec
    <2>2. w = [x EXCEPT !.WorldOpenMode = 0]
        BY <1>2, <1>4 DEF UIRec
    <2>. HIDE DEF x
    <2>. QED
        BY <1>4, <2>1, <2>2 DEF UIRec
<1>6. /\ w.UIState = d /\ w.cursorX = v.cursorX /\ w.cursorStage = v.cursorStage
      /\ w.cursorY = 0 /\ w.inMemory = v.inMemory
      /\ w.isInCraftingTable = v.isInCraftingTable
      /\ w.WorldOpenMode = 0 /\ w.currentSelectedWorld = c
    BY <1>2, <1>3, <1>4 DEF UIRec
<1>7. y \in UIRec
    BY <1>1, <1>5 DEF UIRec
<1>8. /\ y.UIState = d /\ y.cursorX = v.cursorX /\ y.cursorStage = v.cursorStage
      /\ y.cursorY = 0 /\ y.inMemory = c
      /\ y.isInCraftingTable = v.isInCraftingTable
      /\ y.WorldOpenMode = 0 /\ y.currentSelectedWorld = c
    BY <1>5, <1>6 DEF UIRec
<1>. HIDE DEF y
<1>9. v.cursorX = 0 /\ v.cursorStage = 0
    BY ScreensAre DEF Ready, Good, ListCursor, Game
<1>10. c # 0
    BY Rows
<1>11. d # Game => World(w, d)
    BY <1>1, <1>6, <1>10 DEF World, InPlay, Game, Selection, Creation, GameMenu, OpenMode,
       GameSettings, Conversion, Bag, Creative, ChestBag, TexturePacks, TitleSettings, Title
<1>12. d = Game => World(y, d)
    BY <1>1, <1>8, <1>10 DEF World, InPlay, Game, Selection, Creation, GameMenu, OpenMode,
       GameSettings, Conversion, Bag, Creative, ChestBag, TexturePacks, TitleSettings, Title
<1>13. d \in Lists \cup {Game}
    BY DEF Lists
<1>. QED
    BY <1>5, <1>6, <1>7, <1>8, <1>9, <1>11, <1>12, <1>13, Goes DEF w, y

\* A change of what the screens do not depend on.
LEMMA GoodKept ==
    ASSUME NEW v, Good(v), NEW w \in UIRec,
           w.UIState = v.UIState, w.cursorX = v.cursorX, w.cursorY = v.cursorY,
           w.cursorStage = v.cursorStage, w.picked = v.picked,
           w.cursorTypeSelected = v.cursorTypeSelected, w.UIstateOld = v.UIstateOld,
           w.isInCraftingTable = v.isInCraftingTable,
           w.currentSelectedWorld = v.currentSelectedWorld, w.inMemory = v.inMemory,
           w.WorldOpenMode \in {v.WorldOpenMode, OpenMode}
    PROVE  Good(w) /\ \A s : World(v, s) => World(w, s)
<1>1. ListCursor(w) /\ BagCursor(w) /\ Picked(w)
    BY DEF Good, ListCursor, BagCursor, Picked
<1>2. World(v, v.UIState)
    BY DEF Good
<1>3. ASSUME NEW s, World(v, s)
      PROVE  World(w, s)
    BY <1>3 DEF World
<1>4. World(w, w.UIState)
    BY <1>2, <1>3
<1>. QED
    BY <1>1, <1>3, <1>4 DEF Good

LEMMA WorldSelected ==
    ASSUME NEW v, Ready(v, Selection)
    PROVE  Good(SelectWorld(v))
<1>. DEFINE c == v.cursorY + 1
            e == v.worldExists[c]
            r == SelectWorld(v)
            x == [v EXCEPT !.worldExists[c] = FALSE, !.WorldOpenMode = 0]
<1>1. v \in UIRec /\ v.cursorY \in Nat /\ World(v, Selection) /\ Good(v) /\ Worlds \in Nat
    BY Rows DEF Ready, Good, UIRec
<1>2. v.inMemory = 0
    BY <1>1 DEF World, InPlay, Game, Selection, Creation, GameMenu, OpenMode,
       GameSettings, Conversion, Bag, Creative, ChestBag, TexturePacks, TitleSettings, Title
<1>3. CASE c > Worlds
    <2>1. r = LeaveSelection(v)
        BY <1>3, <1>1 DEF SelectWorld
    <2>. QED
        BY <2>1, SelectionLeft
<1>4. CASE ~(c > Worlds)
    <2>1. c \in 1..Worlds /\ c <= Worlds
        BY <1>1, <1>4
    <2>2. CASE ~e /\ v.WorldOpenMode = OpenMode
        <3>1. r = EnterWorld(v, c, Creation)
            BY <1>4, <2>1, <2>2 DEF SelectWorld, OpenMode, DeleteMode, RecoverMode, EditMode
        <3>2. Creation # Game
            BY DEF Creation, Game
        <3>. HIDE DEF c
        <3>. QED
            BY <1>2, <2>1, <3>1, <3>2, WorldEntered
    <2>3. CASE e /\ v.WorldOpenMode = OpenMode
        <3>1. r = [EnterWorld(v, c, Game) EXCEPT !.inMemory = c]
            BY <1>4, <2>1, <2>3 DEF SelectWorld, OpenMode, DeleteMode, RecoverMode, EditMode
        <3>. HIDE DEF c
        <3>. QED
            BY <1>2, <2>1, <3>1, WorldEntered
    <2>4. CASE v.WorldOpenMode = DeleteMode
        <3>1. r = x
            BY <1>4, <2>1, <2>4 DEF SelectWorld, OpenMode, DeleteMode, RecoverMode, EditMode
        <3>. HIDE DEF c
        <3>2. 0 \in OpenMode..EditMode /\ [v.worldExists EXCEPT ![c] = FALSE] \in [1..Worlds -> BOOLEAN]
            <4>1. v.worldExists \in [1..Worlds -> BOOLEAN]
                BY <1>1 DEF UIRec
            <4>2. [v.worldExists EXCEPT ![c] = FALSE] \in [1..Worlds -> BOOLEAN]
                BY <4>1
            <4>. QED
                BY <4>2 DEF OpenMode, EditMode
        <3>3. x = [[v EXCEPT !.worldExists = [v.worldExists EXCEPT ![c] = FALSE]]
                      EXCEPT !.WorldOpenMode = 0]
            BY <1>1 DEF UIRec
        <3>. DEFINE z == [v EXCEPT !.worldExists = [v.worldExists EXCEPT ![c] = FALSE]]
        <3>4. z \in UIRec
            BY <1>1, <3>2 DEF UIRec
        <3>5. x = [z EXCEPT !.WorldOpenMode = 0]
            BY <3>3
        <3>6. /\ x.UIState = v.UIState /\ x.cursorX = v.cursorX /\ x.cursorY = v.cursorY
              /\ x.cursorStage = v.cursorStage /\ x.picked = v.picked
              /\ x.cursorTypeSelected = v.cursorTypeSelected /\ x.UIstateOld = v.UIstateOld
              /\ x.isInCraftingTable = v.isInCraftingTable
              /\ x.currentSelectedWorld = v.currentSelectedWorld /\ x.inMemory = v.inMemory
              /\ x.WorldOpenMode = 0
            BY <1>1 DEF UIRec
        <3>. HIDE DEF z, x
        <3>7. x \in UIRec
            BY <3>2, <3>4, <3>5 DEF UIRec
        <3>. QED
            BY <1>1, <3>1, <3>6, <3>7, GoodKept DEF OpenMode
    <2>5. CASE \/ ~e /\ v.WorldOpenMode = RecoverMode
               \/ e /\ v.WorldOpenMode = EditMode
        <3>1. r = EnterWorld(v, c, Conversion)
            BY <1>4, <2>1, <2>5 DEF SelectWorld, OpenMode, DeleteMode, RecoverMode, EditMode
        <3>2. Conversion # Game
            BY DEF Conversion, Game
        <3>. HIDE DEF c
        <3>. QED
            BY <1>2, <2>1, <3>1, <3>2, WorldEntered
    <2>6. CASE /\ ~(~e /\ v.WorldOpenMode = OpenMode) /\ ~(e /\ v.WorldOpenMode = OpenMode)
               /\ v.WorldOpenMode # DeleteMode
               /\ ~(~e /\ v.WorldOpenMode = RecoverMode) /\ ~(e /\ v.WorldOpenMode = EditMode)
        <3>1. r = v
            BY <1>4, <2>1, <2>6 DEF SelectWorld
        <3>. QED
            BY <1>1, <3>1
    <2>. QED
        BY <2>2, <2>3, <2>4, <2>5, <2>6
<1>. QED
    BY <1>3, <1>4

LEMMA SavedIs ==
    ASSUME NEW v, Good(v)
    PROVE  LET w == Saved(v)
           IN  /\ Good(w) /\ (\A s : World(v, s) => World(w, s)) /\ w.UIState = v.UIState
               /\ w.inMemory = v.inMemory /\ w.currentSelectedWorld = v.currentSelectedWorld
<1>. DEFINE e == [v.worldExists EXCEPT ![v.currentSelectedWorld] = TRUE]
            w == Saved(v)
<1>1. v \in UIRec /\ v.worldExists \in [1..Worlds -> BOOLEAN]
    BY DEF Good, UIRec
<1>2. e \in [1..Worlds -> BOOLEAN]
    BY <1>1
<1>3. w = [v EXCEPT !.worldExists = e]
    BY <1>1 DEF Saved, UIRec
<1>. HIDE DEF e, w
<1>4. w \in UIRec
    BY <1>1, <1>2, <1>3 DEF UIRec
<1>5. /\ w.UIState = v.UIState /\ w.cursorX = v.cursorX /\ w.cursorY = v.cursorY
      /\ w.cursorStage = v.cursorStage /\ w.picked = v.picked
      /\ w.cursorTypeSelected = v.cursorTypeSelected /\ w.UIstateOld = v.UIstateOld
      /\ w.isInCraftingTable = v.isInCraftingTable
      /\ w.currentSelectedWorld = v.currentSelectedWorld /\ w.inMemory = v.inMemory
      /\ w.WorldOpenMode = v.WorldOpenMode
    BY <1>1, <1>3 DEF UIRec
<1>. QED
    BY <1>4, <1>5, GoodKept DEF w

\* The world is left, and the screens of play with it.
LEMMA Quits ==
    ASSUME NEW v, Ready(v, GameMenu)
    PROVE  Good(QuitToTitle(v))
<1>. DEFINE t == To(v, Title)
            w == QuitToTitle(v)
<1>1. v \in UIRec /\ v.UIState \in Lists \cup {Game} /\ World(v, GameMenu)
    BY DEF Ready, Good
<1>2. t \in UIRec
    BY <1>1 DEF To, UIRec, ScreenIds, Lists
<1>3. /\ t.UIState = Title /\ t.cursorX = v.cursorX /\ t.cursorStage = v.cursorStage
      /\ t.cursorY = 0 /\ t.isInCraftingTable = v.isInCraftingTable
      /\ t.WorldOpenMode = v.WorldOpenMode
    BY <1>1 DEF UIRec, To
<1>4. w = [t EXCEPT !.inMemory = 0] /\ 0 \in 0..Worlds
    BY Rows DEF QuitToTitle
<1>. HIDE DEF t, w
<1>5. w \in UIRec
    BY <1>2, <1>4 DEF UIRec
<1>6. /\ w.UIState = Title /\ w.cursorX = v.cursorX /\ w.cursorStage = v.cursorStage
      /\ w.cursorY = 0 /\ w.isInCraftingTable = v.isInCraftingTable
      /\ w.WorldOpenMode = v.WorldOpenMode /\ w.inMemory = 0
    BY <1>2, <1>3, <1>4 DEF UIRec
<1>7. v.cursorX = 0 /\ v.cursorStage = 0
    BY ScreensAre DEF Ready, Good, ListCursor, Game
<1>8. World(w, Title)
    BY <1>1, <1>6 DEF World, InPlay, Game, Selection, Creation, GameMenu, OpenMode,
       GameSettings, Conversion, Bag, Creative, ChestBag, TexturePacks, TitleSettings, Title
<1>. QED
    BY <1>5, <1>6, <1>7, <1>8, Goes DEF w, Lists

LEMMA SavedIsReady ==
    ASSUME NEW v, NEW s \in Lists, Ready(v, s)
    PROVE  Ready(Saved(v), s)
BY SavedIs DEF Ready

\* Which buttons a screen has.
LEMMA ExeIs ==
    ASSUME NEW v, NEW s \in Lists
    PROVE  /\ s = Title => OnExe(v, s) = PressTitle(v)
           /\ s = Selection => OnExe(v, s) = SelectWorld(v)
           /\ s = Creation => OnExe(v, s) = CreateWorld(v)
           /\ s = Conversion => OnExe(v, s) = ConvertWorld(v)
           /\ s \in {TitleSettings, GameSettings} => OnExe(v, s) = PressSettings(v, s)
           /\ s = GameMenu => OnExe(v, s) = PressGameMenu(v)
           /\ s = TexturePacks => OnExe(v, s) = PickTexturePack(v)
<1>1. /\ s = Title => s \notin {Selection, Creation, Conversion, TitleSettings, GameSettings, GameMenu, TexturePacks}
      /\ s = Selection => s \notin {Title, Creation, Conversion, TitleSettings, GameSettings, GameMenu, TexturePacks}
      /\ s = Creation => s \notin {Title, Selection, Conversion, TitleSettings, GameSettings, GameMenu, TexturePacks}
      /\ s = Conversion => s \notin {Title, Selection, Creation, TitleSettings, GameSettings, GameMenu, TexturePacks}
      /\ s \in {TitleSettings, GameSettings} => s \notin {Title, Selection, Creation, Conversion, GameMenu, TexturePacks}
      /\ s = GameMenu => s \notin {Title, Selection, Creation, Conversion, TitleSettings, GameSettings, TexturePacks}
      /\ s = TexturePacks => s \notin {Title, Selection, Creation, Conversion, TitleSettings, GameSettings, GameMenu}
    BY DEF Selection, Title, Creation, Conversion, TitleSettings, GameSettings, GameMenu, TexturePacks
<1>. QED
    BY Zenon, <1>1 DEF OnExe

\* Where the buttons of the lists lead.
LEMMA ExeOnLists ==
    ASSUME NEW v, NEW s \in Lists, Ready(v, s)
    PROVE  Good(OnExe(v, s))
<1>1. v \in UIRec /\ World(v, s) /\ Good(v) /\ v.UIState \in Lists \cup {Game}
    BY DEF Ready, Good
<1>2. CASE s = Title
    <2>1. CASE v.cursorY = 0
        <3>1. OnExe(v, s) = To(v, Selection)
            BY <1>2, <2>1, ExeIs DEF PressTitle
        <3>2. World(v, Selection)
            BY <1>1, <1>2 DEF World, InPlay, Game, Selection, Creation, GameMenu, OpenMode,
              GameSettings, Conversion, Bag, Creative, ChestBag, TexturePacks, TitleSettings, Title
        <3>. QED
            BY <3>1, <3>2, Leads DEF Lists
    <2>2. CASE v.cursorY = 1
        <3>1. OnExe(v, s) = To(v, TitleSettings)
            BY <1>2, <2>2, ExeIs DEF PressTitle
        <3>2. World(v, TitleSettings)
            BY <1>1, <1>2 DEF World, InPlay, Game, Selection, Creation, GameMenu, OpenMode,
              GameSettings, Conversion, Bag, Creative, ChestBag, TexturePacks, TitleSettings, Title
        <3>. QED
            BY <3>1, <3>2, Leads DEF Lists
    <2>3. CASE v.cursorY # 0 /\ v.cursorY # 1
        <3>. DEFINE w == [v EXCEPT !.ExitLoop = TRUE]
        <3>1. OnExe(v, s) = w
            BY <1>2, <2>3, ExeIs DEF PressTitle
        <3>2. w \in UIRec
            BY <1>1 DEF UIRec
        <3>3. /\ w.UIState = v.UIState /\ w.cursorX = v.cursorX /\ w.cursorY = v.cursorY
              /\ w.cursorStage = v.cursorStage /\ w.picked = v.picked
              /\ w.cursorTypeSelected = v.cursorTypeSelected /\ w.UIstateOld = v.UIstateOld
              /\ w.isInCraftingTable = v.isInCraftingTable
              /\ w.currentSelectedWorld = v.currentSelectedWorld /\ w.inMemory = v.inMemory
              /\ w.WorldOpenMode = v.WorldOpenMode
            BY <1>1 DEF UIRec
        <3>. HIDE DEF w
        <3>. QED
            BY <1>1, <3>1, <3>2, <3>3, GoodKept
    <2>. QED
        BY <2>1, <2>2, <2>3
<1>3. CASE s = Selection
    <2>1. OnExe(v, s) = SelectWorld(v)
        BY <1>3, ExeIs
    <2>. QED
        BY <1>3, <2>1, WorldSelected
<1>4. CASE s = Creation
    <2>1. CASE v.cursorY = 6
        <3>. DEFINE c == v.currentSelectedWorld
                    t == To(Saved(v), Game)
                    w == [t EXCEPT !.inMemory = c]
        <3>1. OnExe(v, s) = w
            BY <1>4, <2>1, ExeIs DEF CreateWorld
        <3>2. /\ Ready(Saved(v), s) /\ Saved(v).currentSelectedWorld = c
              /\ World(Saved(v), s) /\ Saved(v) \in UIRec
            BY SavedIsReady, SavedIs DEF Ready, Good
        <3>. DEFINE x == Saved(v)
        <3>3. c \in 0..Worlds /\ c # 0
            BY <1>1, <1>4 DEF World, UIRec
        <3>. HIDE DEF c
        <3>4. t = To(x, Game)
            OBVIOUS
        <3>. HIDE DEF x, t
        <3>5. t \in UIRec
            BY <3>2, <3>4 DEF To, UIRec, ScreenIds, x
        <3>6. /\ t.UIState = Game /\ t.cursorX = x.cursorX /\ t.cursorStage = x.cursorStage
              /\ t.cursorY = 0 /\ t.isInCraftingTable = x.isInCraftingTable
              /\ t.WorldOpenMode = x.WorldOpenMode
              /\ t.currentSelectedWorld = x.currentSelectedWorld
            BY <3>2, <3>4 DEF UIRec, To, x
        <3>7. w \in UIRec
            BY <3>3, <3>5 DEF UIRec
        <3>8. /\ w.UIState = Game /\ w.cursorX = x.cursorX /\ w.cursorStage = x.cursorStage
              /\ w.cursorY = 0 /\ w.isInCraftingTable = x.isInCraftingTable
              /\ w.WorldOpenMode = x.WorldOpenMode
              /\ w.currentSelectedWorld = x.currentSelectedWorld /\ w.inMemory = c
            BY <3>5, <3>6 DEF UIRec
        <3>. HIDE DEF w
        <3>9. x.cursorX = 0 /\ x.cursorStage = 0
            BY <3>2, ScreensAre DEF Ready, Good, ListCursor, Game, x
        <3>10. World(w, Game)
            BY <1>4, <3>2, <3>3, <3>8 DEF World, InPlay, Game, Selection, Creation, GameMenu, OpenMode,
              GameSettings, Conversion, Bag, Creative, ChestBag, TexturePacks, TitleSettings, Title, x
        <3>. QED
            BY <3>1, <3>7, <3>8, <3>9, <3>10, Goes
    <2>2. CASE v.cursorY = 7
        <3>1. OnExe(v, s) = Back(v, s)
            BY <1>4, <2>2, ExeIs DEF CreateWorld
        <3>. QED
            BY <1>4, <3>1, BackGoes DEF Selection, Title, Creation
    <2>3. CASE v.cursorY # 6 /\ v.cursorY # 7
        BY <1>1, <1>4, <2>3, ExeIs DEF CreateWorld
    <2>. QED
        BY <2>1, <2>2, <2>3
<1>5. CASE s = Conversion
    <2>1. CASE v.cursorY = 6
        <3>1. OnExe(v, s) = To(Saved(v), Selection)
            BY <1>5, <2>1, ExeIs DEF ConvertWorld
        <3>2. Ready(Saved(v), s) /\ World(Saved(v), s)
            BY SavedIsReady DEF Ready
        <3>3. World(Saved(v), Selection)
            BY <1>5, <3>2 DEF World, InPlay, Game, Selection, Creation, GameMenu, OpenMode,
              GameSettings, Conversion, Bag, Creative, ChestBag, TexturePacks, TitleSettings, Title
        <3>. QED
            BY <3>1, <3>2, <3>3, Leads DEF Lists
    <2>2. CASE v.cursorY = 7
        <3>1. OnExe(v, s) = Back(v, s)
            BY <1>5, <2>2, ExeIs DEF ConvertWorld
        <3>. QED
            BY <1>5, <3>1, BackGoes DEF Selection, Title, Conversion
    <2>3. CASE v.cursorY # 6 /\ v.cursorY # 7
        BY <1>1, <1>5, <2>3, ExeIs DEF ConvertWorld
    <2>. QED
        BY <2>1, <2>2, <2>3
<1>6. CASE s \in {TitleSettings, GameSettings}
    <2>. DEFINE t == To(v, TexturePacks)
                w == [t EXCEPT !.UIstateOld = s]
    <2>1. OnExe(v, s) = IF v.cursorY = 0 THEN Back(v, s) ELSE IF v.cursorY = 11 THEN w ELSE v
        BY <1>6, ExeIs DEF PressSettings
    <2>2. Good(w)
        <3>1. t \in UIRec
            BY <1>1 DEF To, UIRec, ScreenIds, Lists
        <3>2. /\ t.UIState = TexturePacks /\ t.cursorX = v.cursorX /\ t.cursorStage = v.cursorStage
              /\ t.cursorY = 0 /\ t.isInCraftingTable = v.isInCraftingTable
              /\ t.inMemory = v.inMemory /\ t.WorldOpenMode = v.WorldOpenMode
              /\ t.currentSelectedWorld = v.currentSelectedWorld
            BY <1>1 DEF UIRec, To
        <3>. HIDE DEF t
        <3>3. w \in UIRec
            BY <1>6, <3>1 DEF UIRec
        <3>4. /\ w.UIState = TexturePacks /\ w.cursorX = v.cursorX /\ w.cursorStage = v.cursorStage
              /\ w.cursorY = 0 /\ w.isInCraftingTable = v.isInCraftingTable
              /\ w.inMemory = v.inMemory /\ w.WorldOpenMode = v.WorldOpenMode
              /\ w.currentSelectedWorld = v.currentSelectedWorld /\ w.UIstateOld = s
            BY <3>1, <3>2 DEF UIRec
        <3>. HIDE DEF w
        <3>5. v.cursorX = 0 /\ v.cursorStage = 0
            BY ScreensAre DEF Ready, Good, ListCursor, Game
        <3>6. World(w, TexturePacks)
            BY <1>1, <1>6, <3>4 DEF World, InPlay, Game, Selection, Creation, GameMenu, OpenMode,
              GameSettings, Conversion, Bag, Creative, ChestBag, TexturePacks, TitleSettings, Title
        <3>. QED
            BY <3>3, <3>4, <3>5, <3>6, Goes DEF Lists
    <2>3. s \notin {Title, Selection}
        BY <1>6 DEF Selection, Title, TitleSettings, GameSettings
    <2>. HIDE DEF w
    <2>. QED
        BY <1>1, <2>1, <2>2, <2>3, BackGoes
<1>7. CASE s = GameMenu
    <2>1. OnExe(v, s) = CASE v.cursorY = 0 -> Back(v, s)
                          [] v.cursorY = 1 -> To(v, GameSettings)
                          [] v.cursorY = 2 -> Saved(v)
                          [] v.cursorY = 3 -> QuitToTitle(Saved(v))
                          [] OTHER -> QuitToTitle(v)
        BY <1>7, ExeIs DEF PressGameMenu
    <2>2. CASE v.cursorY = 0
        <3>1. OnExe(v, s) = Back(v, s)
            BY <2>1, <2>2
        <3>. QED
            BY <1>7, <3>1, BackGoes DEF Selection, Title, GameMenu
    <2>3. CASE v.cursorY = 1
        <3>1. OnExe(v, s) = To(v, GameSettings)
            BY <2>1, <2>3
        <3>2. World(v, GameSettings)
            BY <1>1, <1>7 DEF World, InPlay, Game, Selection, Creation, GameMenu, OpenMode,
              GameSettings, Conversion, Bag, Creative, ChestBag, TexturePacks, TitleSettings, Title
        <3>. QED
            BY <3>1, <3>2, Leads DEF Lists
    <2>4. CASE v.cursorY = 2
        BY <1>1, <2>1, <2>4, SavedIs
    <2>5. CASE v.cursorY = 3
        <3>1. OnExe(v, s) = QuitToTitle(Saved(v))
            BY <2>1, <2>5
        <3>. QED
            BY <1>7, <3>1, Quits, SavedIsReady
    <2>6. CASE v.cursorY \notin 0..3
        <3>1. OnExe(v, s) = QuitToTitle(v)
            BY <2>1, <2>6
        <3>. QED
            BY <1>7, <3>1, Quits
    <2>7. v.cursorY \in Nat
        BY <1>1 DEF UIRec
    <2>. QED
        BY <2>2, <2>3, <2>4, <2>5, <2>6, <2>7
<1>8. CASE s = TexturePacks
    <2>. DEFINE w == [v EXCEPT !.currentTexturePackIndex = v.cursorY]
    <2>1. OnExe(v, s) = IF v.cursorY = 5 THEN Back(v, s)
                        ELSE IF v.cursorY < maxTextureIndex THEN w ELSE v
        BY <1>8, ExeIs DEF PickTexturePack
    <2>2. CASE v.cursorY = 5
        <3>1. OnExe(v, s) = Back(v, s)
            BY <2>1, <2>2
        <3>. QED
            BY <1>8, <3>1, BackGoes DEF Selection, Title, TexturePacks
    <2>3. ASSUME v.cursorY < maxTextureIndex
          PROVE  Good(w)
        <3>1. v.cursorY \in 0..4
            BY <1>1, <2>3, Rows DEF UIRec
        <3>2. w \in UIRec
            BY <1>1, <3>1 DEF UIRec
        <3>3. /\ w.UIState = v.UIState /\ w.cursorX = v.cursorX /\ w.cursorY = v.cursorY
              /\ w.cursorStage = v.cursorStage /\ w.picked = v.picked
              /\ w.cursorTypeSelected = v.cursorTypeSelected /\ w.UIstateOld = v.UIstateOld
              /\ w.isInCraftingTable = v.isInCraftingTable
              /\ w.currentSelectedWorld = v.currentSelectedWorld /\ w.inMemory = v.inMemory
              /\ w.WorldOpenMode = v.WorldOpenMode
            BY <1>1 DEF UIRec
        <3>. HIDE DEF w
        <3>. QED
            BY <1>1, <3>2, <3>3, GoodKept
    <2>. HIDE DEF w
    <2>. QED
        BY <1>1, <2>1, <2>2, <2>3
<1>. QED
    BY <1>2, <1>3, <1>4, <1>5, <1>6, <1>7, <1>8 DEF Lists

LEMMA ExeIsGood ==
    ASSUME NEW v, NEW s \in Lists, Ready(v, s)
    PROVE  Good(OnList(v, s, "exe"))
<1>1. OnList(v, s, "exe") = OnExe(v, s)
    BY DEF OnList
<1>. QED
    BY <1>1, ExeOnLists

-----------------------------------------------------------------------------
(* Bags.                                                                   *)

\* A bag changes its cursor and what is picked.
LEMMA BagMoves ==
    ASSUME NEW v, NEW s \in BagScreens, At(v, s), NEW w \in UIRec,
           w.UIState = v.UIState, w.UIstateOld = v.UIstateOld,
           w.isInCraftingTable = v.isInCraftingTable,
           w.currentSelectedWorld = v.currentSelectedWorld, w.inMemory = v.inMemory,
           w.WorldOpenMode = v.WorldOpenMode,
           BagCursor(w), Picked(w)
    PROVE  At(w, s)
<1>1. v.UIState = s /\ World(v, s)
    BY DEF At, Good
<1>2. World(w, s)
    BY <1>1 DEF World
<1>3. ListCursor(w)
    BY <1>1, ScreensAre DEF ListCursor, Game
<1>. QED
    BY <1>1, <1>2, <1>3 DEF At, Good

\* The numbers of a bag's cursor.
LEMMA AtBag ==
    ASSUME NEW v, NEW s \in BagScreens, At(v, s)
    PROVE  /\ v \in UIRec /\ v.UIState = s /\ BagCursor(v) /\ Picked(v)
           /\ v.cursorY \in Nat /\ v.cursorYExtra \in Nat /\ v.cursorYExtra <= RecipeRows
           /\ v.cursorX \in Int /\ v.cursorStage \in {0, 1}
           /\ s = Bag => v.cursorX \in -3..(Columns - 1) /\ v.cursorY \in 0..3
           /\ s = ChestBag => v.cursorX \in 0..(Columns - 1) /\ v.cursorY \in 0..6
           /\ s = Creative => v.cursorX \in 0..(Columns - 1) /\ v.cursorY \in 0..2
<1>1. v \in UIRec /\ v.UIState = s /\ BagCursor(v) /\ Picked(v)
    BY DEF At, Good
<1>2. /\ v.cursorY \in Nat /\ v.cursorYExtra \in 0..RecipeRows
      /\ v.cursorX \in Int /\ v.cursorStage \in {0, 1}
    BY <1>1 DEF UIRec
<1>3. /\ s = Bag => v.cursorX \in -3..(Columns - 1) /\ v.cursorY \in 0..3
      /\ s = ChestBag => v.cursorX \in 0..(Columns - 1) /\ v.cursorY \in 0..6
      /\ s = Creative => v.cursorX \in 0..(Columns - 1) /\ v.cursorY \in 0..2
    BY <1>1 DEF BagCursor
<1>4. v.cursorYExtra \in Nat /\ v.cursorYExtra <= RecipeRows
    BY <1>2, Rows
<1>. QED
    BY <1>1, <1>2, <1>3, <1>4

\* Its row and the row its list begins at.
LEMMA RowSet ==
    ASSUME NEW v, NEW s \in BagScreens, At(v, s), NEW y \in Nat, NEW e \in 0..RecipeRows,
           s = Bag => y \in 0..3, s = ChestBag => y \in 0..6, s = Creative => y \in 0..2
    PROVE  At([v EXCEPT !.cursorY = y, !.cursorYExtra = e], s)
<1>. DEFINE x == [v EXCEPT !.cursorY = y]
            w == [v EXCEPT !.cursorY = y, !.cursorYExtra = e]
<1>1. v \in UIRec /\ v.UIState = s /\ BagCursor(v) /\ Picked(v)
    BY AtBag
<1>2. w \in UIRec
    <2>1. x \in UIRec
        BY <1>1 DEF UIRec
    <2>2. w = [x EXCEPT !.cursorYExtra = e]
        BY <1>1 DEF UIRec
    <2>. HIDE DEF x, w
    <2>. QED
        BY <2>1, <2>2 DEF UIRec
<1>3. /\ w.UIState = v.UIState /\ w.cursorX = v.cursorX /\ w.cursorY = y
      /\ w.cursorStage = v.cursorStage /\ w.picked = v.picked
      /\ w.cursorTypeSelected = v.cursorTypeSelected /\ w.UIstateOld = v.UIstateOld
      /\ w.isInCraftingTable = v.isInCraftingTable
      /\ w.currentSelectedWorld = v.currentSelectedWorld /\ w.inMemory = v.inMemory
      /\ w.WorldOpenMode = v.WorldOpenMode
    BY <1>1 DEF UIRec
<1>. HIDE DEF w
<1>4. BagCursor(w) /\ Picked(w)
    BY <1>1, <1>3 DEF BagCursor, Picked
<1>. QED
    BY <1>2, <1>3, <1>4, BagMoves DEF w

\* What a list of which some rows are shown does stays within its rows.
LEMMA Scrolls ==
    ASSUME NEW v, NEW s \in BagScreens, At(v, s), NEW rows \in {RecipeRows, ItemRows},
           NEW shown \in {3, 4}, v.cursorY < shown, s = Bag => shown = 4, s = Creative => shown = 3
    PROVE  At(ScrollUp(v, rows, shown), s) /\ At(ScrollDown(v, rows, shown), s)
<1>1. /\ v \in UIRec /\ v.cursorY \in Nat /\ v.cursorYExtra \in Nat
      /\ v.cursorYExtra <= RecipeRows /\ rows \in Nat /\ rows <= RecipeRows /\ RecipeRows \in Nat
    BY AtBag, Rows
<1>2. ASSUME NEW y \in Nat, y < shown, NEW e \in Nat, e <= RecipeRows
      PROVE  At([v EXCEPT !.cursorY = y, !.cursorYExtra = e], s)
    <2>1. y \in 0..3 /\ y \in 0..6 /\ (shown = 3 => y \in 0..2) /\ e \in 0..RecipeRows
        BY <1>1, <1>2
    <2>. QED
        BY <2>1, RowSet
<1>3. \E y \in Nat, e \in Nat : /\ y < shown /\ e <= RecipeRows
         /\ ScrollUp(v, rows, shown) = [v EXCEPT !.cursorY = y, !.cursorYExtra = e]
    <2>1. CASE v.cursorY > 0
        <3>1. v.cursorY - 1 \in Nat /\ v.cursorY - 1 < shown
            BY <1>1, <2>1
        <3>2. ScrollUp(v, rows, shown) = [v EXCEPT !.cursorY = v.cursorY - 1, !.cursorYExtra = v.cursorYExtra]
            BY <1>1, <2>1 DEF ScrollUp, UIRec
        <3>. QED
            BY <1>1, <3>1, <3>2
    <2>2. CASE ~(v.cursorY > 0) /\ v.cursorYExtra > 0
        <3>1. v.cursorYExtra - 1 \in Nat /\ v.cursorYExtra - 1 <= RecipeRows
            BY <1>1, <2>2
        <3>2. ScrollUp(v, rows, shown) = [v EXCEPT !.cursorY = v.cursorY, !.cursorYExtra = v.cursorYExtra - 1]
            BY <1>1, <2>2 DEF ScrollUp, UIRec
        <3>. QED
            BY <1>1, <3>1, <3>2
    <2>3. CASE ~(v.cursorY > 0) /\ ~(v.cursorYExtra > 0)
        <3>1. shown - 1 \in Nat /\ shown - 1 < shown
            OBVIOUS
        <3>2. ScrollUp(v, rows, shown) = [v EXCEPT !.cursorY = shown - 1, !.cursorYExtra = rows]
            BY <2>3 DEF ScrollUp
        <3>. QED
            BY <1>1, <3>1, <3>2
    <2>. QED
        BY <2>1, <2>2, <2>3
<1>4. \E y \in Nat, e \in Nat : /\ y < shown /\ e <= RecipeRows
         /\ ScrollDown(v, rows, shown) = [v EXCEPT !.cursorY = y, !.cursorYExtra = e]
    <2>. DEFINE C == v.cursorYExtra > rows \/ (v.cursorY = shown - 1 /\ v.cursorYExtra >= rows)
    <2>1. CASE C
        <3>1. ScrollDown(v, rows, shown) = [v EXCEPT !.cursorY = 0, !.cursorYExtra = 0]
            BY <2>1 DEF ScrollDown
        <3>2. 0 \in Nat /\ 0 < shown /\ 0 <= RecipeRows
            BY <1>1
        <3>. QED
            BY Zenon, <3>1, <3>2
    <2>2. CASE ~C /\ v.cursorY < shown - 1
        <3>1. v.cursorY + 1 \in Nat /\ v.cursorY + 1 < shown
            BY <1>1, <2>2
        <3>2. ScrollDown(v, rows, shown) = [v EXCEPT !.cursorY = v.cursorY + 1, !.cursorYExtra = v.cursorYExtra]
            BY <1>1, <2>2 DEF ScrollDown, UIRec
        <3>. QED
            BY <1>1, <3>1, <3>2
    <2>3. CASE ~C /\ ~(v.cursorY < shown - 1)
        <3>1. v.cursorYExtra + 1 \in Nat /\ v.cursorYExtra + 1 <= RecipeRows
            BY <1>1, <2>3
        <3>2. ScrollDown(v, rows, shown) = [v EXCEPT !.cursorY = v.cursorY, !.cursorYExtra = v.cursorYExtra + 1]
            BY <1>1, <2>3 DEF ScrollDown, UIRec
        <3>. QED
            BY <1>1, <3>1, <3>2
    <2>. HIDE DEF C
    <2>. QED
        BY <2>1, <2>2, <2>3
<1>5. At(ScrollUp(v, rows, shown), s)
    BY <1>2, <1>3, Zenon
<1>6. At(ScrollDown(v, rows, shown), s)
    BY <1>2, <1>4, Zenon
<1>. QED
    BY <1>5, <1>6

LEMMA Turns ==
    ASSUME NEW v, NEW s \in BagScreens, At(v, s), NEW rows \in {4, 7}, v.cursorY < rows,
           s = Bag => rows = 4, s # Creative
    PROVE  At(RowUp(v, rows), s) /\ At(RowDown(v, rows), s)
<1>1. v \in UIRec /\ v.cursorY \in Nat /\ v.cursorYExtra \in 0..RecipeRows
    BY AtBag, Rows
<1>2. ASSUME NEW y \in Nat, y < rows
      PROVE  At([v EXCEPT !.cursorY = y], s)
    <2>1. y \in 0..6 /\ (rows = 4 => y \in 0..3)
        BY <1>2
    <2>2. At([v EXCEPT !.cursorY = y, !.cursorYExtra = v.cursorYExtra], s)
        BY <1>1, <2>1, RowSet
    <2>3. [v EXCEPT !.cursorY = y, !.cursorYExtra = v.cursorYExtra] = [v EXCEPT !.cursorY = y]
        BY <1>1 DEF UIRec
    <2>. QED
        BY <2>2, <2>3
<1>3. \E y \in Nat : y < rows /\ RowUp(v, rows) = [v EXCEPT !.cursorY = y]
    <2>. DEFINE y == IF v.cursorY = 0 THEN rows - 1 ELSE v.cursorY - 1
    <2>1. y \in Nat /\ y < rows
        BY <1>1
    <2>2. RowUp(v, rows) = [v EXCEPT !.cursorY = y]
        BY DEF RowUp
    <2>. HIDE DEF y
    <2>. QED
        BY <2>1, <2>2
<1>4. \E y \in Nat : y < rows /\ RowDown(v, rows) = [v EXCEPT !.cursorY = y]
    <2>. DEFINE y == IF v.cursorY = rows - 1 THEN 0 ELSE v.cursorY + 1
    <2>1. y \in Nat /\ y < rows
        BY <1>1
    <2>2. RowDown(v, rows) = [v EXCEPT !.cursorY = y]
        BY DEF RowDown
    <2>. HIDE DEF y
    <2>. QED
        BY <2>1, <2>2
<1>. QED
    BY <1>2, <1>3, <1>4

\* What each key does in each bag.
LEMMA OnBagIs ==
    ASSUME NEW v, NEW s \in BagScreens
    PROVE  /\ OnBag(v, s, "menu") = CloseBag(v) /\ OnBag(v, s, "vars") = CloseBag(v)
           /\ OnBag(v, s, "right") = Right(v, s) /\ OnBag(v, s, "left") = Left(v, s)
           /\ OnBag(v, s, "up") =
                IF s = Bag THEN IF v.cursorX >= 0 THEN RowUp(v, 4) ELSE ScrollUp(v, RecipeRows, 4)
                ELSE IF s = ChestBag THEN RowUp(v, 7)
                ELSE IF v.cursorStage = 0 THEN ScrollUp(v, ItemRows, 3) ELSE v
           /\ OnBag(v, s, "down") =
                IF s = Bag THEN IF v.cursorX >= 0 THEN RowDown(v, 4) ELSE ScrollDown(v, RecipeRows, 4)
                ELSE IF s = ChestBag THEN RowDown(v, 7)
                ELSE IF v.cursorStage = 0 THEN ScrollDown(v, ItemRows, 3) ELSE v
           /\ OnBag(v, s, "exe") =
                IF s = Bag THEN IF v.cursorX >= 0 THEN PickUpOrSwap(v) ELSE v
                ELSE IF s = ChestBag THEN PickUpOrSwap(v)
                ELSE IF v.cursorX < 0 THEN v
                ELSE IF v.cursorStage = 0 THEN TakeItem(v)
                ELSE [v EXCEPT !.cursorStage = 0, !.cursorTypeSelected = 0]
<1>1. /\ s = Bag => s # ChestBag /\ s # Creative
      /\ s = ChestBag => s # Bag /\ s # Creative
      /\ s = Creative => s # Bag /\ s # ChestBag
      /\ s \in {Bag, ChestBag, Creative}
    BY DEF BagScreens, Bag, ChestBag, Creative
<1>2. /\ OnBag(v, s, "menu") = CloseBag(v) /\ OnBag(v, s, "vars") = CloseBag(v)
      /\ OnBag(v, s, "right") = Right(v, s) /\ OnBag(v, s, "left") = Left(v, s)
    BY Zenon DEF OnBag
<1>3. CASE s = Bag
    BY Zenon, <1>1, <1>2, <1>3 DEF OnBag
<1>4. CASE s = ChestBag
    BY Zenon, <1>1, <1>2, <1>4 DEF OnBag
<1>5. CASE s = Creative
    BY Zenon, <1>1, <1>2, <1>5 DEF OnBag
<1>. QED
    BY <1>1, <1>3, <1>4, <1>5

LEMMA RowKeysStay ==
    ASSUME NEW v, NEW s \in BagScreens, At(v, s)
    PROVE  At(OnBag(v, s, "up"), s) /\ At(OnBag(v, s, "down"), s)
<1>1. /\ s \in {Bag, ChestBag, Creative} /\ v.cursorY \in Nat
      /\ s = Bag => v.cursorY < 4 /\ s # Creative /\ s # ChestBag
      /\ s = ChestBag => v.cursorY < 7 /\ s # Creative /\ s # Bag
      /\ s = Creative => v.cursorY < 3 /\ s # Bag /\ s # ChestBag
    BY AtBag DEF BagScreens, Bag, ChestBag, Creative
<1>2. CASE s = Bag
    <2>1. At(RowUp(v, 4), s) /\ At(RowDown(v, 4), s)
        BY <1>1, <1>2, Turns
    <2>2. At(ScrollUp(v, RecipeRows, 4), s) /\ At(ScrollDown(v, RecipeRows, 4), s)
        BY <1>1, <1>2, Scrolls
    <2>. QED
        BY <1>2, <2>1, <2>2, OnBagIs
<1>3. CASE s = ChestBag
    <2>1. At(RowUp(v, 7), s) /\ At(RowDown(v, 7), s)
        BY <1>1, <1>3, Turns
    <2>. QED
        BY <1>1, <1>3, <2>1, OnBagIs
<1>4. CASE s = Creative
    <2>1. At(ScrollUp(v, ItemRows, 3), s) /\ At(ScrollDown(v, ItemRows, 3), s)
        BY <1>1, <1>4, Scrolls
    <2>. QED
        BY <1>1, <1>4, <2>1, OnBagIs
<1>. QED
    BY <1>1, <1>2, <1>3, <1>4

\* The column of the cursor.
LEMMA ColumnSet ==
    ASSUME NEW v \in UIRec, NEW s \in BagScreens, NEW x \in Int,
           At(v, s) => x \in (IF s = Bag THEN -3 ELSE 0)..(Columns - 1), NEW e \in 0..RecipeRows
    PROVE  LET w == [v EXCEPT !.cursorX = x, !.cursorYExtra = e]
           IN  w \in UIRec /\ (At(v, s) => At(w, s))
<1>. DEFINE z == [v EXCEPT !.cursorX = x]
            w == [v EXCEPT !.cursorX = x, !.cursorYExtra = e]
<1>1. w \in UIRec
    <2>1. z \in UIRec
        BY DEF UIRec
    <2>2. w = [z EXCEPT !.cursorYExtra = e]
        BY DEF UIRec
    <2>. HIDE DEF z, w
    <2>. QED
        BY <2>1, <2>2 DEF UIRec
<1>2. /\ w.UIState = v.UIState /\ w.cursorX = x /\ w.cursorY = v.cursorY
      /\ w.cursorStage = v.cursorStage /\ w.picked = v.picked
      /\ w.cursorTypeSelected = v.cursorTypeSelected /\ w.UIstateOld = v.UIstateOld
      /\ w.isInCraftingTable = v.isInCraftingTable
      /\ w.currentSelectedWorld = v.currentSelectedWorld /\ w.inMemory = v.inMemory
      /\ w.WorldOpenMode = v.WorldOpenMode
    BY DEF UIRec
<1>. HIDE DEF w
<1>3. ASSUME At(v, s)
      PROVE  At(w, s)
    <2>1. v.UIState = s /\ BagCursor(v) /\ Picked(v) /\ Columns \in Nat
        BY <1>3, AtBag, Rows
    <2>2. /\ s = Bag => x \in -3..(Columns - 1)
          /\ s = ChestBag => x \in 0..(Columns - 1)
          /\ s = Creative => x \in 0..(Columns - 1)
        BY <1>3, <2>1 DEF Bag, ChestBag, Creative
    <2>3. BagCursor(w) /\ Picked(w)
        BY <1>2, <2>1, <2>2 DEF BagCursor, Picked
    <2>. QED
        BY <1>1, <1>2, <1>3, <2>3, BagMoves
<1>. QED
    BY <1>1, <1>3 DEF w

LEMMA ColumnKeysStay ==
    ASSUME NEW v \in UIRec, NEW s \in BagScreens
    PROVE  /\ OnBag(v, s, "right") \in UIRec /\ (At(v, s) => At(OnBag(v, s, "right"), s))
           /\ OnBag(v, s, "left") \in UIRec /\ (At(v, s) => At(OnBag(v, s, "left"), s))
<1>1. /\ v.cursorX \in Int /\ v.cursorYExtra \in 0..RecipeRows /\ 0 \in 0..RecipeRows
      /\ Columns \in Nat \ {0}
    BY Rows DEF UIRec
<1>2. At(v, s) => v.cursorX \in (IF s = Bag THEN -3 ELSE 0)..(Columns - 1)
    BY AtBag DEF BagScreens
<1>. DEFINE x == IF v.cursorX + 1 = Columns THEN (IF s = Bag THEN -2 ELSE 0) ELSE v.cursorX + 1
            y == IF v.cursorX - 1 = (IF s = Bag THEN -4 ELSE -1) THEN Columns - 1
                 ELSE v.cursorX - 1
            e == IF s = Bag /\ x >= 0 THEN 0 ELSE v.cursorYExtra
            f == IF s = Bag /\ y >= 0 THEN 0 ELSE v.cursorYExtra
<1>3. OnBag(v, s, "right") = [v EXCEPT !.cursorX = x, !.cursorYExtra = e]
    BY OnBagIs DEF Right
<1>4. OnBag(v, s, "left") = [v EXCEPT !.cursorX = y, !.cursorYExtra = f]
    BY OnBagIs DEF Left
<1>5. x \in Int /\ e \in 0..RecipeRows /\ y \in Int /\ f \in 0..RecipeRows
    BY <1>1
<1>6. ASSUME At(v, s)
      PROVE  /\ x \in (IF s = Bag THEN -3 ELSE 0)..(Columns - 1)
             /\ y \in (IF s = Bag THEN -3 ELSE 0)..(Columns - 1)
    BY <1>1, <1>2, <1>6
<1>. HIDE DEF x, y, e, f
<1>. DEFINE w == [v EXCEPT !.cursorX = x, !.cursorYExtra = e]
            z == [v EXCEPT !.cursorX = y, !.cursorYExtra = f]
<1>7. w \in UIRec /\ (At(v, s) => At(w, s))
    BY <1>5, <1>6, ColumnSet
<1>8. z \in UIRec /\ (At(v, s) => At(z, s))
    BY <1>5, <1>6, ColumnSet
<1>. HIDE DEF w, z
<1>. QED
    BY <1>3, <1>4, <1>7, <1>8 DEF w, z

\* Types of the cursor's fields.
LEMMA FieldsSet ==
    ASSUME NEW v \in UIRec, NEW n \in Nat, n \in Int
    PROVE  /\ [v EXCEPT !.cursorX = n] \in UIRec /\ [v EXCEPT !.cursorTypeSelected = n] \in UIRec
           /\ [v EXCEPT !.cursorY = n] \in UIRec
           /\ [v EXCEPT !.picked = <<n, n>>] \in UIRec
<1>1. [v EXCEPT !.cursorX = n] \in UIRec
    BY DEF UIRec
<1>2. [v EXCEPT !.cursorTypeSelected = n] \in UIRec
    BY DEF UIRec
<1>3. [v EXCEPT !.cursorY = n] \in UIRec
    BY DEF UIRec
<1>4. [v EXCEPT !.picked = <<n, n>>] \in UIRec
    <2>. DEFINE p == <<n, n>>
    <2>1. p \in Int \X Int
        OBVIOUS
    <2>. HIDE DEF p
    <2>2. [v EXCEPT !.picked = p] \in UIRec
        BY <2>1 DEF UIRec
    <2>. QED
        BY <2>2 DEF p
<1>. QED
    BY <1>1, <1>2, <1>3, <1>4
LEMMA FieldsReset ==
    ASSUME NEW v \in UIRec
    PROVE  /\ [v EXCEPT !.cursorX = 0] \in UIRec /\ [v EXCEPT !.cursorTypeSelected = 0] \in UIRec
           /\ [v EXCEPT !.cursorY = 0] \in UIRec
           /\ [v EXCEPT !.picked = <<0, 0>>] \in UIRec
<1>. DEFINE n == 0
<1>1. n \in Nat /\ n \in Int
    OBVIOUS
<1>. HIDE DEF n
<1>2. /\ [v EXCEPT !.cursorX = n] \in UIRec /\ [v EXCEPT !.cursorTypeSelected = n] \in UIRec
      /\ [v EXCEPT !.cursorY = n] \in UIRec
      /\ [v EXCEPT !.picked = <<n, n>>] \in UIRec
    BY <1>1, FieldsSet
<1>. QED
    BY Zenon, <1>2 DEF n

\* A bag is left with everything put back.
LEMMA BagCloses ==
    ASSUME NEW v \in UIRec
    PROVE  /\ CloseBag(v) \in UIRec
           /\ \A s \in BagScreens \cup {Game} : At(v, s) => At(CloseBag(v), Game)
<1>. DEFINE a == [v EXCEPT !.isInCraftingTable = FALSE, !.UIState = Game]
            b == [a EXCEPT !.cursorStage = 0, !.cursorX = 0]
            c == [b EXCEPT !.cursorY = 0, !.picked = <<0, 0>>]
            w == CloseBag(v)
<1>1. a \in UIRec
    <2>. DEFINE x == [v EXCEPT !.isInCraftingTable = FALSE]
    <2>1. x \in UIRec
        BY DEF UIRec
    <2>2. a = [x EXCEPT !.UIState = Game]
        BY DEF UIRec
    <2>. HIDE DEF x, a
    <2>. QED
        BY <2>1, <2>2 DEF UIRec, ScreenIds
<1>2. b \in UIRec
    <2>. DEFINE x == [a EXCEPT !.cursorStage = 0]
    <2>. HIDE DEF a
    <2>1. x \in UIRec
        BY <1>1 DEF UIRec
    <2>2. b = [x EXCEPT !.cursorX = 0]
        BY <1>1 DEF UIRec
    <2>. HIDE DEF x, b
    <2>. QED
        BY <2>1, <2>2, FieldsReset, Zenon
<1>3. c \in UIRec
    <2>. DEFINE x == [b EXCEPT !.cursorY = 0]
    <2>. HIDE DEF b
    <2>1. x \in UIRec
        BY <1>2, FieldsReset, Zenon
    <2>2. c = [x EXCEPT !.picked = <<0, 0>>]
        BY <1>2 DEF UIRec
    <2>. HIDE DEF x, c
    <2>. QED
        BY <2>1, <2>2, FieldsReset, Zenon
<1>4. w = [c EXCEPT !.cursorTypeSelected = 0]
    BY DEF CloseBag, UIRec
<1>5. w \in UIRec
    <2>. HIDE DEF c, w
    <2>. QED
        BY <1>3, <1>4, FieldsReset, Zenon
<1>6. /\ w.UIState = Game /\ w.cursorX = 0 /\ w.cursorY = 0 /\ w.cursorStage = 0
      /\ w.UIstateOld = v.UIstateOld /\ w.isInCraftingTable = FALSE
      /\ w.currentSelectedWorld = v.currentSelectedWorld /\ w.inMemory = v.inMemory
      /\ w.WorldOpenMode = v.WorldOpenMode
    BY DEF UIRec, CloseBag
<1>. HIDE DEF w
<1>7. ASSUME NEW s \in BagScreens \cup {Game}, At(v, s)
      PROVE  At(w, Game)
    <2>1. World(v, s)
        BY <1>7 DEF At, Good
    <2>2. World(w, Game)
        BY <1>6, <2>1 DEF World, InPlay, Game, Selection, Creation, GameMenu, OpenMode, BagScreens,
              GameSettings, Conversion, Bag, Creative, ChestBag, TexturePacks, TitleSettings, Title
    <2>. QED
        BY <1>5, <1>6, <2>2, Goes DEF At
<1>. QED
    BY <1>5, <1>7 DEF w

LEMMA SwapStays ==
    ASSUME NEW v \in UIRec, NEW s \in BagScreens
    PROVE  /\ PickUpOrSwap(v) \in UIRec
           /\ At(v, s) /\ s # Creative /\ v.cursorX >= 0 => At(PickUpOrSwap(v), s)
<1>. DEFINE p == IF v.cursorStage = 0 THEN <<v.cursorX, v.cursorY>> ELSE <<0, 0>>
            n == IF v.cursorStage = 0 THEN 1 ELSE 0
            x == [v EXCEPT !.picked = p]
            w == [x EXCEPT !.cursorStage = n]
<1>1. v.cursorX \in Int /\ v.cursorY \in Nat /\ v.cursorStage \in {0, 1}
    BY DEF UIRec
<1>2. PickUpOrSwap(v) = w
    BY DEF PickUpOrSwap, UIRec
<1>3. p \in Int \X Int /\ n \in {0, 1}
    BY <1>1
<1>4. p[1] = (IF v.cursorStage = 0 THEN v.cursorX ELSE 0)
      /\ p[2] = (IF v.cursorStage = 0 THEN v.cursorY ELSE 0)
    OBVIOUS
<1>5. n = 1 => v.cursorStage = 0
    OBVIOUS
<1>. HIDE DEF p, n
<1>6. x \in UIRec
    BY <1>3 DEF UIRec
<1>7. /\ x.UIState = v.UIState /\ x.cursorX = v.cursorX /\ x.cursorY = v.cursorY
      /\ x.picked = p
      /\ x.cursorTypeSelected = v.cursorTypeSelected /\ x.UIstateOld = v.UIstateOld
      /\ x.isInCraftingTable = v.isInCraftingTable
      /\ x.currentSelectedWorld = v.currentSelectedWorld /\ x.inMemory = v.inMemory
      /\ x.WorldOpenMode = v.WorldOpenMode
    BY DEF UIRec
<1>. HIDE DEF x
<1>8. w \in UIRec
    BY <1>3, <1>6 DEF UIRec
<1>9. /\ w.UIState = v.UIState /\ w.cursorX = v.cursorX /\ w.cursorY = v.cursorY
      /\ w.picked = p /\ w.cursorStage = n
      /\ w.cursorTypeSelected = v.cursorTypeSelected /\ w.UIstateOld = v.UIstateOld
      /\ w.isInCraftingTable = v.isInCraftingTable
      /\ w.currentSelectedWorld = v.currentSelectedWorld /\ w.inMemory = v.inMemory
      /\ w.WorldOpenMode = v.WorldOpenMode
    BY <1>6, <1>7 DEF UIRec
<1>. HIDE DEF w
<1>10. ASSUME At(v, s), s # Creative, v.cursorX >= 0
       PROVE  At(w, s)
    <2>1. v.UIState = s /\ BagCursor(v) /\ Columns \in Nat /\ s \in {Bag, ChestBag}
        BY <1>10, AtBag, Rows DEF BagScreens
    <2>2. BagCursor(w)
        BY <1>9, <2>1 DEF BagCursor
    <2>3. v.cursorX \in 0..(Columns - 1) /\ v.cursorY \in 0..(IF s = Bag THEN 3 ELSE 6)
        BY <1>1, <1>10, <2>1 DEF BagCursor, Bag, ChestBag
    <2>4. Picked(w)
        BY <1>4, <1>5, <1>9, <1>10, <2>1, <2>3 DEF Picked
    <2>. QED
        BY <1>8, <1>9, <1>10, <2>2, <2>4, BagMoves
<1>. QED
    BY <1>2, <1>8, <1>10

LEMMA TakeStays ==
    ASSUME NEW v \in UIRec
    PROVE  TakeItem(v) \in UIRec /\ (At(v, Creative) => At(TakeItem(v), Creative))
<1>. DEFINE r == v.cursorY + v.cursorYExtra
            t == v.cursorX + r * Columns + 1
            x == [v EXCEPT !.cursorTypeSelected = t]
            w == [x EXCEPT !.cursorStage = 1]
<1>1. v.cursorX \in Int /\ r \in Nat /\ Columns \in Nat /\ itemAmount \in Nat
    BY Rows DEF UIRec
<1>2. r * Columns \in Nat /\ t \in Int
    <2>. HIDE DEF r
    <2>1. r * Columns \in Nat
        BY <1>1
    <2>. QED
        BY <1>1, <2>1
<1>3. TakeItem(v) = IF t < itemAmount THEN w ELSE v
    BY DEF TakeItem, UIRec
<1>4. At(v, Creative) /\ t < itemAmount => t \in 1..(itemAmount - 1)
    <2>1. ASSUME At(v, Creative), t < itemAmount
          PROVE  t \in 1..(itemAmount - 1)
        <3>1. v.cursorX >= 0 /\ v.cursorX \in Int
            BY <2>1, Rows, AtBag DEF BagScreens
        <3>. DEFINE m == r * Columns
        <3>2. m \in Nat /\ t = v.cursorX + m + 1 /\ t \in Int
            BY <1>2
        <3>. HIDE DEF m, t
        <3>. QED
            BY <1>1, <2>1, <3>1, <3>2
    <2>. QED
        BY <2>1
<1>. HIDE DEF t
<1>5. x \in UIRec
    BY <1>2 DEF UIRec
<1>6. /\ x.UIState = v.UIState /\ x.cursorX = v.cursorX /\ x.cursorY = v.cursorY
      /\ x.cursorTypeSelected = t /\ x.UIstateOld = v.UIstateOld
      /\ x.isInCraftingTable = v.isInCraftingTable
      /\ x.currentSelectedWorld = v.currentSelectedWorld /\ x.inMemory = v.inMemory
      /\ x.WorldOpenMode = v.WorldOpenMode
    BY DEF UIRec
<1>. HIDE DEF x
<1>7. w \in UIRec
    BY <1>5 DEF UIRec
<1>8. /\ w.UIState = v.UIState /\ w.cursorX = v.cursorX /\ w.cursorY = v.cursorY
      /\ w.cursorTypeSelected = t /\ w.UIstateOld = v.UIstateOld
      /\ w.isInCraftingTable = v.isInCraftingTable
      /\ w.currentSelectedWorld = v.currentSelectedWorld /\ w.inMemory = v.inMemory
      /\ w.WorldOpenMode = v.WorldOpenMode
    BY <1>5, <1>6 DEF UIRec
<1>. HIDE DEF w
<1>9. ASSUME At(v, Creative), t < itemAmount
      PROVE  At(w, Creative)
    <2>1. v.UIState = Creative /\ BagCursor(v)
        BY <1>9, AtBag DEF BagScreens
    <2>2. BagCursor(w)
        BY <1>8, <2>1 DEF BagCursor
    <2>3. Picked(w)
        BY <1>4, <1>8, <1>9, <2>1 DEF Picked
    <2>4. Creative \in BagScreens
        BY DEF BagScreens
    <2>. QED
        BY <1>7, <1>8, <1>9, <2>2, <2>3, <2>4, BagMoves
<1>. QED
    BY <1>3, <1>7, <1>9

LEMMA BagExeStays ==
    ASSUME NEW v \in UIRec, NEW s \in BagScreens
    PROVE  OnBag(v, s, "exe") \in UIRec /\ (At(v, s) => At(OnBag(v, s, "exe"), s))
<1>. DEFINE x == [v EXCEPT !.cursorStage = 0]
            w == [x EXCEPT !.cursorTypeSelected = 0]
<1>1. x \in UIRec
    BY DEF UIRec
<1>2. /\ x.UIState = v.UIState /\ x.cursorX = v.cursorX /\ x.cursorY = v.cursorY
      /\ x.cursorStage = 0 /\ x.UIstateOld = v.UIstateOld
      /\ x.isInCraftingTable = v.isInCraftingTable
      /\ x.currentSelectedWorld = v.currentSelectedWorld /\ x.inMemory = v.inMemory
      /\ x.WorldOpenMode = v.WorldOpenMode
    BY DEF UIRec
<1>3. [v EXCEPT !.cursorStage = 0, !.cursorTypeSelected = 0] = w
    BY DEF UIRec
<1>. HIDE DEF x
<1>4. w \in UIRec
    BY <1>1, FieldsReset, Zenon
<1>5. /\ w.UIState = v.UIState /\ w.cursorX = v.cursorX /\ w.cursorY = v.cursorY
      /\ w.cursorStage = 0 /\ w.UIstateOld = v.UIstateOld
      /\ w.isInCraftingTable = v.isInCraftingTable
      /\ w.currentSelectedWorld = v.currentSelectedWorld /\ w.inMemory = v.inMemory
      /\ w.WorldOpenMode = v.WorldOpenMode
    BY <1>1, <1>2 DEF UIRec
<1>. HIDE DEF w
<1>6. ASSUME At(v, s)
      PROVE  At(w, s)
    <2>1. BagCursor(v)
        BY <1>6, AtBag
    <2>2. BagCursor(w) /\ Picked(w)
        BY <1>5, <2>1 DEF BagCursor, Picked
    <2>. QED
        BY <1>4, <1>5, <1>6, <2>2, BagMoves
<1>7. s = Creative => s # Bag /\ s # ChestBag
    BY DEF Bag, ChestBag, Creative
<1>8. s \in {Bag, ChestBag, Creative}
    BY DEF BagScreens
<1>9. /\ s = ChestBag /\ At(v, s) => v.cursorX >= 0
      /\ s = ChestBag => s # Creative /\ s # Bag
      /\ s = Bag => s # Creative
    BY AtBag, Rows DEF Bag, ChestBag, Creative
<1>10. CASE s = Creative
    BY <1>3, <1>4, <1>6, <1>7, <1>10, OnBagIs, TakeStays
<1>11. CASE s = Bag
    BY <1>9, <1>11, OnBagIs, SwapStays
<1>12. CASE s = ChestBag
    BY <1>9, <1>12, OnBagIs, SwapStays
<1>. QED
    BY <1>8, <1>10, <1>11, <1>12

-----------------------------------------------------------------------------
(* Play.                                                                   *)

\* The screens that a key of play opens, their cursor as play left it.
Opened == {Game, GameMenu, Bag, Creative, ChestBag}
Open(v) ==
    /\ v \in UIRec /\ v.UIState \in Opened
    /\ v.cursorX = 0 /\ v.cursorY \in {0, 1} /\ v.cursorStage = 0
    /\ v.inMemory # 0 /\ v.currentSelectedWorld = v.inMemory /\ v.WorldOpenMode = OpenMode
    /\ v.isInCraftingTable => v.UIState = Bag

LEMMA OpenIsGood ==
    ASSUME NEW v, Open(v)
    PROVE  Good(v)
<1>1. v \in UIRec /\ v.UIState \in {0, 13, 16, 17, 18}
    BY DEF Open, Opened, Game, GameMenu, Bag, Creative, ChestBag
<1>2. GameMenu \in Lists /\ Buttonlength(GameMenu) = 5
    BY ButtonsAre DEF Lists
<1>3. ListCursor(v)
    <2>1. v.UIState \in Lists => v.UIState = GameMenu
        BY <1>1, ScreensAre DEF GameMenu
    <2>. QED
        BY <1>2, <2>1 DEF ListCursor, Open
<1>4. BagCursor(v)
    BY Rows DEF BagCursor, Open
<1>5. Picked(v)
    BY DEF Picked, Open
<1>6. World(v, v.UIState)
    BY <1>1 DEF World, Open, InPlay, Game, Selection, Creation, GameMenu, OpenMode, BagScreens,
       GameSettings, Conversion, Bag, Creative, ChestBag, TexturePacks, TitleSettings, Title
<1>. QED
    BY <1>1, <1>3, <1>4, <1>5, <1>6 DEF Good

LEMMA PlayIsOpen ==
    ASSUME NEW v, At(v, Game)
    PROVE  Open(v) /\ ~v.isInCraftingTable
<1>1. v \in UIRec /\ v.UIState = Game /\ ListCursor(v) /\ World(v, Game) /\ Game \notin BagScreens
    BY ScreensAre DEF At, Good, Game
<1>2. v.cursorX = 0 /\ v.cursorY \in {0, 1} /\ v.cursorStage = 0
    BY <1>1 DEF ListCursor
<1>3. /\ v.inMemory # 0 /\ v.currentSelectedWorld = v.inMemory /\ v.WorldOpenMode = OpenMode
      /\ ~v.isInCraftingTable
    BY <1>1 DEF World, InPlay, Game, Selection, Bag, UIRec
<1>. QED
    BY <1>1, <1>2, <1>3 DEF Open, Opened

\* A screen is opened and nothing else changed, but for the table.
LEMMA Opens ==
    ASSUME NEW v, Open(v), NEW d \in Opened, NEW t \in BOOLEAN, t => d = Bag
    PROVE  /\ Open([v EXCEPT !.isInCraftingTable = t, !.UIState = d])
           /\ Open([v EXCEPT !.ExitLoop = TRUE])
<1>. DEFINE x == [v EXCEPT !.isInCraftingTable = t]
            w == [v EXCEPT !.isInCraftingTable = t, !.UIState = d]
            y == [v EXCEPT !.ExitLoop = TRUE]
<1>1. v \in UIRec /\ d \in ScreenIds
    BY DEF Open, Opened, ScreenIds, BagScreens, Lists
<1>2. w \in UIRec
    <2>1. x \in UIRec
        BY <1>1 DEF UIRec
    <2>2. w = [x EXCEPT !.UIState = d]
        BY <1>1 DEF UIRec
    <2>. HIDE DEF x, w
    <2>. QED
        BY <1>1, <2>1, <2>2 DEF UIRec
<1>3. /\ w.UIState = d /\ w.cursorX = v.cursorX /\ w.cursorY = v.cursorY
      /\ w.cursorStage = v.cursorStage /\ w.isInCraftingTable = t
      /\ w.currentSelectedWorld = v.currentSelectedWorld /\ w.inMemory = v.inMemory
      /\ w.WorldOpenMode = v.WorldOpenMode
    BY <1>1 DEF UIRec
<1>. HIDE DEF w
<1>4. Open(w)
    BY <1>2, <1>3 DEF Open
<1>5. y \in UIRec
    BY <1>1 DEF UIRec
<1>6. /\ y.UIState = v.UIState /\ y.cursorX = v.cursorX /\ y.cursorY = v.cursorY
      /\ y.cursorStage = v.cursorStage /\ y.isInCraftingTable = v.isInCraftingTable
      /\ y.currentSelectedWorld = v.currentSelectedWorld /\ y.inMemory = v.inMemory
      /\ y.WorldOpenMode = v.WorldOpenMode
    BY <1>1 DEF UIRec
<1>. HIDE DEF y
<1>7. Open(y)
    BY <1>5, <1>6 DEF Open
<1>. QED
    BY <1>4, <1>7 DEF w, y

LEMMA PlayKeys ==
    ASSUME NEW v, Open(v), ~v.isInCraftingTable, NEW meets, NEW survival,
           NEW k \in {"exit", "menu", "vars", "9"}
    PROVE  LET w == OnGame(v, k, meets, survival)
           IN  Open(w) /\ (k # "9" => ~w.isInCraftingTable)
<1>. DEFINE w == OnGame(v, k, meets, survival)
<1>1. v \in UIRec /\ v.isInCraftingTable = FALSE
    BY DEF Open, UIRec
<1>2. ASSUME NEW d \in Opened
      PROVE  LET x == [v EXCEPT !.UIState = d] IN Open(x) /\ ~x.isInCraftingTable
    <2>. DEFINE x == [v EXCEPT !.UIState = d]
                y == [v EXCEPT !.isInCraftingTable = FALSE, !.UIState = d]
    <2>1. Open(y)
        BY Opens
    <2>2. x = y /\ ~x.isInCraftingTable
        BY <1>1 DEF UIRec
    <2>. HIDE DEF x, y
    <2>. QED
        BY <2>1, <2>2 DEF x
<1>3. /\ GameMenu \in Opened /\ Bag \in Opened /\ Creative \in Opened /\ ChestBag \in Opened
    BY DEF Opened
<1>4. CASE k = "exit"
    <2>. DEFINE x == [v EXCEPT !.ExitLoop = TRUE]
    <2>1. w = x
        BY <1>4, Zenon DEF OnGame
    <2>2. Open(x)
        BY <1>3, Opens
    <2>3. ~x.isInCraftingTable
        BY <1>1 DEF UIRec
    <2>. QED
        BY <2>1, <2>2, <2>3
<1>5. CASE k = "menu"
    <2>1. w = IF v.UIState = Game THEN [v EXCEPT !.UIState = GameMenu] ELSE v
        BY <1>5, Zenon DEF OnGame
    <2>. DEFINE x == [v EXCEPT !.UIState = GameMenu]
    <2>2. Open(x) /\ ~x.isInCraftingTable
        BY <1>2, <1>3
    <2>. HIDE DEF x
    <2>. QED
        BY <2>1, <2>2 DEF x
<1>6. CASE k = "vars"
    <2>. DEFINE d == IF survival THEN Bag ELSE Creative
    <2>1. w = IF v.UIState = Game THEN [v EXCEPT !.UIState = d] ELSE v
        BY <1>6, Zenon DEF OnGame
    <2>2. d \in Opened
        BY <1>3
    <2>. HIDE DEF d
    <2>. DEFINE x == [v EXCEPT !.UIState = d]
    <2>3. Open(x) /\ ~x.isInCraftingTable
        BY <1>2, <2>2
    <2>. HIDE DEF x
    <2>. QED
        BY <2>1, <2>3 DEF x
<1>7. CASE k = "9"
    <2>1. CASE meets = "table"
        <3>1. w = [v EXCEPT !.isInCraftingTable = TRUE, !.UIState = Bag]
            BY <1>7, <2>1, Zenon DEF OnGame
        <3>2. Open([v EXCEPT !.isInCraftingTable = TRUE, !.UIState = Bag])
            BY <1>3, Opens
        <3>. QED
            BY Zenon, <1>7, <3>1, <3>2
    <2>2. CASE meets = "chest"
        <3>1. w = [v EXCEPT !.UIState = ChestBag]
            BY <1>7, <2>2, Zenon DEF OnGame
        <3>. QED
            BY Zenon, <1>2, <1>3, <1>7, <3>1
    <2>3. CASE meets \notin {"table", "chest"}
        <3>1. w = v
            BY <1>7, <2>3, Zenon DEF OnGame
        <3>. QED
            BY <1>7, <3>1
    <2>. QED
        BY <2>1, <2>2, <2>3
<1>. QED
    BY <1>4, <1>5, <1>6, <1>7

-----------------------------------------------------------------------------
(* All the keys of a screen.                                               *)

LEMMA KeysAre ==
    ASSUME NEW s \in ScreenIds
    PROVE  /\ s = Game => KeysOf(s) = <<"exit", "menu", "vars", "9">>
           /\ s = Title => KeysOf(s) = <<"up", "down", "exe">>
           /\ s = Selection => KeysOf(s) = <<"up", "menu", "down", "shift", "exe">>
           /\ s \in BagScreens =>
                KeysOf(s) = <<"up", "down", "menu", "vars", "right", "left", "exe">>
           /\ s = TexturePacks => KeysOf(s) = <<"up", "down", "menu", "exe">>
           /\ s \in Lists \ {Title, Selection, TexturePacks} =>
                KeysOf(s) = <<"up", "menu", "down", "exe">>
<1>1. /\ s = Game => s \notin {Title, Selection, Bag, Creative, ChestBag, TexturePacks}
      /\ s = Title => s \notin {Game, Selection, Bag, Creative, ChestBag, TexturePacks}
      /\ s = Selection => s \notin {Game, Title, Bag, Creative, ChestBag, TexturePacks}
      /\ s \in {Bag, Creative, ChestBag} => s \notin {Game, Title, Selection, TexturePacks}
      /\ s = TexturePacks => s \notin {Game, Title, Selection, Bag, Creative, ChestBag}
      /\ s \in Lists => s \notin {Game, Bag, Creative, ChestBag}
    BY ScreensAre DEF Game, Title, Selection, Bag, Creative, ChestBag, TexturePacks
<1>2. s \in BagScreens => s \in {Bag, Creative, ChestBag}
    BY DEF BagScreens
<1>. QED
    BY Zenon, <1>1, <1>2 DEF KeysOf

\* A key handled by a list or by a bag, or not.
LEMMA StepIs ==
    ASSUME NEW v, NEW s \in ScreenIds, NEW i, NEW down, NEW meets, NEW survival
    PROVE  LET w == Step(v, s, i, down, meets, survival)
           IN  /\ w = v \/ (KeysOf(s)[i] \in down /\
                            w = IF s = Game THEN OnGame(v, KeysOf(s)[i], meets, survival)
                                ELSE IF s \in Lists THEN OnList(v, s, KeysOf(s)[i])
                                ELSE OnBag(v, s, KeysOf(s)[i]))
               /\ KeysOf(s)[i] \notin down => w = v
BY DEF Step, On

\* After menu a list is still shown, or left with its cursor put back.
Front(v, s) == At(v, s) \/ (Ready(v, s) /\ v.cursorY = 0)

LEMMA ListSteps ==
    ASSUME NEW v, NEW s \in Lists, NEW i, NEW down, NEW meets, NEW survival
    PROVE  LET w == Step(v, s, i, down, meets, survival)
           IN  /\ At(v, s) /\ KeysOf(s)[i] \in {"up", "down"} => At(w, s)
               /\ At(v, s) /\ KeysOf(s)[i] = "menu" /\ s # Title => Front(w, s)
               /\ Front(v, s) /\ KeysOf(s)[i] = "down" => Ready(w, s)
               /\ At(v, s) /\ KeysOf(s)[i] = "shift" /\ s = Selection => At(w, s)
               /\ Ready(v, s) /\ KeysOf(s)[i] = "exe" => Good(w)
               /\ Front(v, s) => Ready(v, s)
<1>. DEFINE w == Step(v, s, i, down, meets, survival)
            k == KeysOf(s)[i]
<1>1. s \in ScreenIds /\ s # Game
    BY ScreensAre DEF ScreenIds, Game
<1>2. w = v \/ w = OnList(v, s, k)
    BY <1>1, StepIs
<1>. HIDE DEF w, k
<1>3. At(v, s) /\ k = "up" => At(w, s)
    BY <1>2, UpIsAt
<1>4. At(v, s) /\ k = "down" => At(w, s)
    BY <1>2, DownIsAt
<1>5. At(v, s) /\ k = "menu" /\ s # Title => Front(w, s)
    BY <1>2, MenuGoes, AtIsReady DEF Front
<1>6. Ready(v, s) /\ v.cursorY = 0 /\ k = "down" => Ready(w, s)
    BY <1>2, DownIsReady
<1>7. At(w, s) => Ready(w, s)
    BY AtIsReady
<1>8. At(v, s) => Ready(v, s)
    BY AtIsReady
<1>9. At(v, s) /\ k = "shift" /\ s = Selection => At(w, s)
    BY <1>2, ShiftIsAt
<1>10. Ready(v, s) /\ k = "exe" => Good(w)
    BY <1>2, ExeIsGood DEF Ready
<1>. QED
    BY <1>3, <1>4, <1>5, <1>6, <1>7, <1>8, <1>9, <1>10 DEF Front, w, k

\* The lists that are left only with everything put back.
LEMMA ListHandled ==
    ASSUME NEW u, NEW s \in Lists, At(u, s), NEW down, NEW meets, NEW survival,
           s = Selection => ~({"menu", "shift"} \subseteq down)
    PROVE  Good(Done(u, s, down, meets, survival)[Len(KeysOf(s))])
<1>. DEFINE d == Done(u, s, down, meets, survival)
            Does(i) == d[i] = Step(d[i - 1], s, i, down, meets, survival)
<1>1. s \in ScreenIds
    BY DEF ScreenIds
<1>2. d[0] = u /\ \A i \in 1..Len(KeysOf(s)) : Does(i)
    BY <1>1, DoneIs
<1>. HIDE DEF d
<1>3. CASE s = Title
    <2>1. KeysOf(s) = <<"up", "down", "exe">>
        BY <1>1, <1>3, KeysAre
    <2>2. Len(KeysOf(s)) = 3 /\ Does(1) /\ Does(2) /\ Does(3)
        BY <1>2, <2>1
    <2>3. KeysOf(s)[1] = "up" /\ KeysOf(s)[2] = "down" /\ KeysOf(s)[3] = "exe"
        BY <2>1
    <2>4. At(d[1], s)
        BY <1>2, <2>2, <2>3, ListSteps
    <2>5. At(d[2], s)
        BY <2>2, <2>3, <2>4, ListSteps
    <2>6. Good(d[3])
        BY <2>2, <2>3, <2>5, ListSteps, AtIsReady
    <2>. QED
        BY <2>2, <2>6 DEF d
<1>4. CASE s = TexturePacks
    <2>1. KeysOf(s) = <<"up", "down", "menu", "exe">> /\ s # Title
        BY <1>1, <1>4, KeysAre DEF TexturePacks, Title
    <2>2. Len(KeysOf(s)) = 4 /\ Does(1) /\ Does(2) /\ Does(3) /\ Does(4)
        BY <1>2, <2>1
    <2>3. /\ KeysOf(s)[1] = "up" /\ KeysOf(s)[2] = "down" /\ KeysOf(s)[3] = "menu"
          /\ KeysOf(s)[4] = "exe"
        BY <2>1
    <2>4. At(d[1], s)
        BY <1>2, <2>2, <2>3, ListSteps
    <2>5. At(d[2], s)
        BY <2>2, <2>3, <2>4, ListSteps
    <2>6. Front(d[3], s)
        BY <2>1, <2>2, <2>3, <2>5, ListSteps
    <2>7. Ready(d[3], s)
        BY <2>6, ListSteps
    <2>8. Good(d[4])
        BY <2>2, <2>3, <2>7, ListSteps
    <2>. QED
        BY <2>2, <2>8 DEF d
<1>5. CASE s \notin {Title, Selection, TexturePacks}
    <2>1. KeysOf(s) = <<"up", "menu", "down", "exe">>
        BY <1>1, <1>5, KeysAre
    <2>2. Len(KeysOf(s)) = 4 /\ Does(1) /\ Does(2) /\ Does(3) /\ Does(4)
        BY <1>2, <2>1
    <2>3. /\ KeysOf(s)[1] = "up" /\ KeysOf(s)[2] = "menu" /\ KeysOf(s)[3] = "down"
          /\ KeysOf(s)[4] = "exe"
        BY <2>1
    <2>4. At(d[1], s)
        BY <1>2, <2>2, <2>3, ListSteps
    <2>5. Front(d[2], s)
        BY <1>5, <2>2, <2>3, <2>4, ListSteps
    <2>6. Ready(d[3], s)
        BY <2>2, <2>3, <2>5, ListSteps
    <2>7. Good(d[4])
        BY <2>2, <2>3, <2>6, ListSteps
    <2>. QED
        BY <2>2, <2>7 DEF d
<1>6. CASE s = Selection
    <2>1. KeysOf(s) = <<"up", "menu", "down", "shift", "exe">> /\ s # Title
        BY <1>1, <1>6, KeysAre DEF Selection, Title
    <2>2. Len(KeysOf(s)) = 5 /\ Does(1) /\ Does(2) /\ Does(3) /\ Does(4) /\ Does(5)
        BY <1>2, <2>1
    <2>3. /\ KeysOf(s)[1] = "up" /\ KeysOf(s)[2] = "menu" /\ KeysOf(s)[3] = "down"
          /\ KeysOf(s)[4] = "shift" /\ KeysOf(s)[5] = "exe"
        BY <2>1
    <2>4. At(d[1], s)
        BY <1>2, <2>2, <2>3, ListSteps
    <2>5. CASE "menu" \in down
        <3>1. Front(d[2], s)
            BY <2>1, <2>2, <2>3, <2>4, ListSteps
        <3>2. Ready(d[3], s)
            BY <2>2, <2>3, <3>1, ListSteps
        <3>3. d[4] = d[3]
            BY <1>1, <1>6, <2>2, <2>3, <2>5, StepIs
        <3>. QED
            BY <2>2, <2>3, <3>2, <3>3, ListSteps DEF d
    <2>6. CASE "menu" \notin down
        <3>1. d[2] = d[1]
            BY <1>1, <2>2, <2>3, <2>6, StepIs
        <3>2. At(d[3], s)
            BY <2>2, <2>3, <2>4, <3>1, ListSteps
        <3>3. At(d[4], s)
            BY <1>6, <2>2, <2>3, <3>2, ListSteps
        <3>. QED
            BY <2>2, <2>3, <3>3, ListSteps, AtIsReady DEF d
    <2>. QED
        BY <2>5, <2>6
<1>. QED
    BY <1>3, <1>4, <1>5, <1>6

\* With both menu and shift, the selection at least keeps its types.
LEMMA SelectionTyped ==
    ASSUME NEW v \in UIRec
    PROVE  OnList(v, Selection, "shift") \in UIRec /\ OnList(v, Selection, "exe") \in UIRec
<1>. DEFINE n == IF v.WorldOpenMode = EditMode THEN OpenMode ELSE v.WorldOpenMode + 1
            c == v.cursorY + 1
            e == v.worldExists[c]
<1>1. v.WorldOpenMode \in OpenMode..EditMode /\ v.cursorY \in Nat /\ Worlds \in Nat
    BY Rows DEF UIRec
<1>2. OnList(v, Selection, "shift") \in UIRec
    <2>1. n \in OpenMode..EditMode
        BY <1>1 DEF OpenMode, EditMode
    <2>2. OnList(v, Selection, "shift") = [v EXCEPT !.WorldOpenMode = n]
        BY DEF OnList, NextMode
    <2>. HIDE DEF n
    <2>. QED
        BY <2>1, <2>2 DEF UIRec
<1>3. OnList(v, Selection, "exe") = SelectWorld(v)
    <2>1. OnList(v, Selection, "exe") = OnExe(v, Selection) /\ Selection \in Lists
        BY DEF OnList, Lists
    <2>. QED
        BY <2>1, ExeIs
<1>4. ASSUME NEW r \in UIRec
      PROVE  [r EXCEPT !.WorldOpenMode = 0] \in UIRec
    <2>. DEFINE m == 0
    <2>1. m \in OpenMode..EditMode
        BY DEF OpenMode, EditMode
    <2>. HIDE DEF m
    <2>2. [r EXCEPT !.WorldOpenMode = m] \in UIRec
        BY <2>1 DEF UIRec
    <2>. QED
        BY Zenon, <2>2 DEF m
<1>5. ASSUME NEW s \in ScreenIds
      PROVE  To(v, s) \in UIRec
    BY <1>5 DEF To, UIRec
<1>6. {Title, Creation, Conversion, Game} \subseteq ScreenIds
    BY DEF ScreenIds, Lists
<1>7. LeaveSelection(v) \in UIRec
    BY <1>4, <1>5, <1>6 DEF LeaveSelection
<1>8. ASSUME c \in 1..Worlds, NEW s \in {Creation, Conversion, Game}
      PROVE  EnterWorld(v, c, s) \in UIRec /\ [EnterWorld(v, c, s) EXCEPT !.inMemory = c] \in UIRec
    <2>. DEFINE t == To(v, s)
                x == [t EXCEPT !.currentSelectedWorld = c]
                w == EnterWorld(v, c, s)
    <2>1. t \in UIRec /\ c \in 0..Worlds
        BY <1>1, <1>5, <1>6, <1>8
    <2>2. w = [t EXCEPT !.currentSelectedWorld = c, !.WorldOpenMode = 0]
        BY DEF EnterWorld
    <2>. HIDE DEF t, w, c
    <2>3. x \in UIRec
        BY <2>1 DEF UIRec
    <2>4. w = [x EXCEPT !.WorldOpenMode = 0]
        BY <2>1, <2>2 DEF UIRec
    <2>. HIDE DEF x
    <2>5. w \in UIRec
        BY Zenon, <1>4, <2>3, <2>4
    <2>6. [w EXCEPT !.inMemory = c] \in UIRec
        BY <2>1, <2>5 DEF UIRec
    <2>. QED
        BY <2>5, <2>6 DEF w
<1>9. ASSUME c \in 1..Worlds
      PROVE  [v EXCEPT !.worldExists[c] = FALSE, !.WorldOpenMode = 0] \in UIRec
    <2>. DEFINE f == [v.worldExists EXCEPT ![c] = FALSE]
                z == [v EXCEPT !.worldExists = f]
    <2>. HIDE DEF c
    <2>1. v.worldExists \in [1..Worlds -> BOOLEAN]
        BY DEF UIRec
    <2>2. f \in [1..Worlds -> BOOLEAN]
        BY <2>1
    <2>3. [v EXCEPT !.worldExists[c] = FALSE, !.WorldOpenMode = 0] = [z EXCEPT !.WorldOpenMode = 0]
        BY DEF UIRec
    <2>. HIDE DEF f
    <2>4. z \in UIRec
        BY <2>2 DEF UIRec
    <2>. HIDE DEF z
    <2>. QED
        BY <1>4, <2>3, <2>4, Zenon
<1>10. CASE c > Worlds
    <2>1. SelectWorld(v) = LeaveSelection(v)
        BY <1>1, <1>10 DEF SelectWorld
    <2>. QED
        BY <1>2, <1>3, <1>7, <2>1
<1>11. CASE ~(c > Worlds)
    <2>1. c \in 1..Worlds /\ c <= Worlds
        BY <1>1, <1>11
    <2>2. SelectWorld(v) \in {v, EnterWorld(v, c, Creation), EnterWorld(v, c, Conversion),
                              [EnterWorld(v, c, Game) EXCEPT !.inMemory = c],
                              [v EXCEPT !.worldExists[c] = FALSE, !.WorldOpenMode = 0]}
        BY <1>11, <2>1, Zenon DEF SelectWorld
    <2>. HIDE DEF c
    <2>. QED
        BY <1>2, <1>3, <1>8, <1>9, <2>1, <2>2
<1>. QED
    BY <1>10, <1>11

LEMMA TypesHandled ==
    ASSUME NEW u, At(u, Selection), NEW down, NEW meets, NEW survival
    PROVE  Done(u, Selection, down, meets, survival)[Len(KeysOf(Selection))] \in UIRec
<1>. DEFINE s == Selection
            d == Done(u, s, down, meets, survival)
            Does(i) == d[i] = Step(d[i - 1], s, i, down, meets, survival)
<1>1. s \in ScreenIds /\ s \in Lists /\ s # Title /\ s # Game
    BY DEF ScreenIds, Lists, Selection, Title, Game
<1>2. d[0] = u /\ \A i \in 1..Len(KeysOf(s)) : Does(i)
    BY <1>1, DoneIs
<1>3. KeysOf(s) = <<"up", "menu", "down", "shift", "exe">>
    BY <1>1, KeysAre
<1>. HIDE DEF d
<1>4. Len(KeysOf(s)) = 5 /\ Does(1) /\ Does(2) /\ Does(3) /\ Does(4) /\ Does(5)
    BY <1>2, <1>3
<1>5. /\ KeysOf(s)[1] = "up" /\ KeysOf(s)[2] = "menu" /\ KeysOf(s)[3] = "down"
      /\ KeysOf(s)[4] = "shift" /\ KeysOf(s)[5] = "exe"
    BY <1>3
<1>6. At(d[1], s)
    BY <1>1, <1>2, <1>4, <1>5, ListSteps
<1>7. Front(d[2], s)
    BY <1>1, <1>4, <1>5, <1>6, ListSteps
<1>8. Ready(d[3], s)
    BY <1>1, <1>4, <1>5, <1>7, ListSteps
<1>9. d[3] \in UIRec
    BY <1>8 DEF Ready, Good
<1>10. d[4] \in UIRec
    <2>1. d[4] = d[3] \/ d[4] = OnList(d[3], s, "shift")
        BY <1>1, <1>4, <1>5, StepIs
    <2>. QED
        BY <1>9, <2>1, SelectionTyped
<1>11. d[5] \in UIRec
    <2>1. d[5] = d[4] \/ d[5] = OnList(d[4], s, "exe")
        BY <1>1, <1>4, <1>5, StepIs
    <2>. QED
        BY <1>10, <2>1, SelectionTyped
<1>. QED
    BY <1>4, <1>11 DEF d

\* A bag that is closed stays closed, and one that is not moves its cursor.
LEMMA BagSteps ==
    ASSUME NEW v, NEW s \in BagScreens, NEW i, NEW down, NEW meets, NEW survival
    PROVE  LET w == Step(v, s, i, down, meets, survival)
               k == KeysOf(s)[i]
           IN  /\ At(v, s) /\ k \in {"up", "down"} => At(w, s)
               /\ At(v, s) /\ k \in {"right", "left", "exe"} => At(w, s)
               /\ (At(v, s) \/ At(v, Game)) /\ k \in {"menu", "vars"} => At(w, s) \/ At(w, Game)
               /\ v \in UIRec /\ k \in {"menu", "vars", "right", "left", "exe"} => w \in UIRec
               /\ At(v, s) \/ At(v, Game) => Good(v) /\ v \in UIRec
<1>. DEFINE w == Step(v, s, i, down, meets, survival)
            k == KeysOf(s)[i]
<1>1. s \in ScreenIds /\ s # Game /\ s \notin Lists
    BY ScreensAre DEF ScreenIds, Game
<1>2. w = v \/ w = OnBag(v, s, k)
    BY <1>1, StepIs
<1>. HIDE DEF w, k
<1>3. At(v, s) \/ At(v, Game) => Good(v) /\ v \in UIRec
    BY DEF At, Good
<1>4. At(v, s) /\ k \in {"up", "down"} => At(w, s)
    BY <1>2, RowKeysStay
<1>5. At(v, s) /\ k \in {"right", "left"} => At(w, s)
    BY <1>2, <1>3, ColumnKeysStay
<1>6. At(v, s) /\ k = "exe" => At(w, s)
    BY <1>2, <1>3, BagExeStays
<1>14. k \in {"menu", "vars"} => w = v \/ w = CloseBag(v)
    BY <1>2, OnBagIs
<1>15. s \in BagScreens \cup {Game} /\ Game \in BagScreens \cup {Game}
    OBVIOUS
<1>16. v \in UIRec => /\ CloseBag(v) \in UIRec
                      /\ At(v, s) \/ At(v, Game) => At(CloseBag(v), Game)
    BY Zenon, BagCloses, <1>15
<1>7. (At(v, s) \/ At(v, Game)) /\ k \in {"menu", "vars"} => At(w, s) \/ At(w, Game)
    BY <1>3, <1>14, <1>16
<1>8. v \in UIRec /\ k \in {"right", "left"} => w \in UIRec
    BY <1>2, ColumnKeysStay
<1>9. v \in UIRec /\ k \in {"menu", "vars"} => w \in UIRec
    BY <1>14, <1>16
<1>10. v \in UIRec /\ k = "exe" => w \in UIRec
    BY <1>2, BagExeStays
<1>. QED
    BY <1>3, <1>4, <1>5, <1>6, <1>7, <1>8, <1>9, <1>10 DEF w, k

LEMMA BagHandled ==
    ASSUME NEW u, NEW s \in BagScreens, At(u, s), NEW down, NEW meets, NEW survival
    PROVE  LET last == Done(u, s, down, meets, survival)[Len(KeysOf(s))]
           IN  /\ last \in UIRec
               /\ \/ {"menu", "vars"} \cap down = {}
                  \/ {"right", "left", "exe"} \cap down = {}
                  => Good(last)
<1>. DEFINE d == Done(u, s, down, meets, survival)
            Does(i) == d[i] = Step(d[i - 1], s, i, down, meets, survival)
<1>1. s \in ScreenIds
    BY DEF ScreenIds
<1>2. d[0] = u /\ \A i \in 1..Len(KeysOf(s)) : Does(i)
    BY <1>1, DoneIs
<1>3. KeysOf(s) = <<"up", "down", "menu", "vars", "right", "left", "exe">>
    BY <1>1, KeysAre
<1>. HIDE DEF d
<1>4. /\ Len(KeysOf(s)) = 7 /\ Does(1) /\ Does(2) /\ Does(3) /\ Does(4) /\ Does(5)
      /\ Does(6) /\ Does(7)
    BY <1>2, <1>3
<1>5. /\ KeysOf(s)[1] = "up" /\ KeysOf(s)[2] = "down" /\ KeysOf(s)[3] = "menu"
      /\ KeysOf(s)[4] = "vars" /\ KeysOf(s)[5] = "right" /\ KeysOf(s)[6] = "left"
      /\ KeysOf(s)[7] = "exe"
    BY <1>3
<1>6. At(d[1], s)
    BY <1>2, <1>4, <1>5, BagSteps
<1>7. At(d[2], s)
    BY <1>4, <1>5, <1>6, BagSteps
<1>8. At(d[3], s) \/ At(d[3], Game)
    BY <1>4, <1>5, <1>7, BagSteps
<1>9. At(d[4], s) \/ At(d[4], Game)
    BY <1>4, <1>5, <1>8, BagSteps
<1>10. d[4] \in UIRec
    BY <1>9, BagSteps
<1>11. d[5] \in UIRec
    <2>1. KeysOf(s)[5] = "right" /\ d[5] = Step(d[4], s, 5, down, meets, survival)
        BY <1>4, <1>5
    <2>. QED
        BY <1>10, <2>1, BagSteps
<1>12. d[6] \in UIRec
    BY <1>4, <1>5, <1>11, BagSteps
<1>13. d[7] \in UIRec
    BY <1>4, <1>5, <1>12, BagSteps
<1>14. ASSUME "menu" \notin down, "vars" \notin down
       PROVE  Good(d[7])
    <2>1. d[3] = d[2] /\ d[4] = d[3]
        BY <1>1, <1>4, <1>5, <1>14, StepIs
    <2>2. At(d[4], s)
        BY <1>7, <2>1
    <2>3. At(d[5], s)
        BY <1>4, <1>5, <2>2, BagSteps
    <2>4. At(d[6], s)
        BY <1>4, <1>5, <2>3, BagSteps
    <2>5. At(d[7], s)
        BY <1>4, <1>5, <2>4, BagSteps
    <2>. QED
        BY <2>5 DEF At
<1>15. ASSUME "right" \notin down, "left" \notin down, "exe" \notin down
       PROVE  Good(d[7])
    <2>1. d[5] = d[4] /\ d[6] = d[5] /\ d[7] = d[6]
        BY <1>1, <1>4, <1>5, <1>15, StepIs
    <2>. QED
        BY <1>9, <2>1 DEF At
<1>. QED
    BY <1>4, <1>13, <1>14, <1>15 DEF d

LEMMA PlayHandled ==
    ASSUME NEW u, At(u, Game), NEW down, NEW meets, NEW survival
    PROVE  Good(Done(u, Game, down, meets, survival)[Len(KeysOf(Game))])
<1>. DEFINE s == Game
            d == Done(u, s, down, meets, survival)
            Does(i) == d[i] = Step(d[i - 1], s, i, down, meets, survival)
            Play0(v) == Open(v) /\ ~v.isInCraftingTable
<1>1. s \in ScreenIds
    BY DEF ScreenIds
<1>2. d[0] = u /\ \A i \in 1..Len(KeysOf(s)) : Does(i)
    BY <1>1, DoneIs
<1>3. KeysOf(s) = <<"exit", "menu", "vars", "9">>
    BY <1>1, KeysAre
<1>. HIDE DEF d
<1>4. Len(KeysOf(s)) = 4 /\ Does(1) /\ Does(2) /\ Does(3) /\ Does(4)
    BY <1>2, <1>3
<1>5. /\ KeysOf(s)[1] = "exit" /\ KeysOf(s)[2] = "menu" /\ KeysOf(s)[3] = "vars"
      /\ KeysOf(s)[4] = "9"
    BY <1>3
<1>6. d[1] = d[0] \/ d[1] = OnGame(d[0], "exit", meets, survival)
    BY <1>1, <1>4, <1>5, StepIs
<1>7. d[2] = d[1] \/ d[2] = OnGame(d[1], "menu", meets, survival)
    BY <1>1, <1>4, <1>5, StepIs
<1>8. d[3] = d[2] \/ d[3] = OnGame(d[2], "vars", meets, survival)
    BY <1>1, <1>4, <1>5, StepIs
<1>9. d[4] = d[3] \/ d[4] = OnGame(d[3], "9", meets, survival)
    BY <1>1, <1>4, <1>5, StepIs
<1>10. Play0(d[0])
    BY <1>2, PlayIsOpen
<1>11. Play0(d[1])
    BY <1>6, <1>10, PlayKeys
<1>12. Play0(d[2])
    BY <1>7, <1>11, PlayKeys
<1>13. Play0(d[3])
    BY <1>8, <1>12, PlayKeys
<1>14. Open(d[4])
    BY <1>9, <1>13, PlayKeys
<1>. QED
    BY <1>4, <1>14, OpenIsGood DEF d

\* What a screen makes of the keys that went down: the types are kept, and
\* unless it strays everything is put back for the screen that is next.
LEMMA HandledSound ==
    ASSUME NEW u, Good(u), NEW down, NEW meets, NEW survival, NEW found
    PROVE  LET w == Handled(u, u.UIState, down, meets, survival, found)
           IN  /\ w \in UIRec
               /\ ~Strays(u.UIState, down, found) => Good(w)
<1>. DEFINE s == u.UIState
            last == Done(u, s, down, meets, survival)[Len(KeysOf(s))]
            w == Handled(u, s, down, meets, survival, found)
<1>1. s \in ScreenIds /\ At(u, s)
    BY DEF At, Good, UIRec
<1>2. /\ s = ChestBag /\ ~found => w = [last EXCEPT !.UIState = Game]
      /\ ~(s = ChestBag /\ ~found) => w = last
    BY <1>1, HandledIs
<1>. HIDE DEF last, w
<1>3. last \in UIRec
    <2>1. CASE s \in Lists
        <3>1. CASE s = Selection
            BY <1>1, <3>1, TypesHandled DEF last
        <3>2. CASE s # Selection
            BY <1>1, <2>1, <3>2, ListHandled DEF last, Good
        <3>. QED
            BY <3>1, <3>2
    <2>2. CASE s \in BagScreens
        BY <1>1, <2>2, BagHandled DEF last
    <2>3. CASE s = Game
        BY <1>1, <2>3, PlayHandled DEF last, Good
    <2>. QED
        BY <1>1, <2>1, <2>2, <2>3 DEF ScreenIds
<1>4. w \in UIRec
    <2>1. Game \in ScreenIds
        BY DEF ScreenIds
    <2>2. [last EXCEPT !.UIState = Game] \in UIRec
        BY <1>3, <2>1 DEF UIRec
    <2>. QED
        BY <1>2, <1>3, <2>2
<1>5. ASSUME ~Strays(s, down, found)
      PROVE  Good(w)
    <2>1. w = last
        BY <1>2, <1>5 DEF Strays
    <2>2. CASE s \in Lists
        <3>1. s = Selection => ~({"menu", "shift"} \subseteq down)
            BY <1>5 DEF Strays
        <3>. QED
            BY <1>1, <2>1, <2>2, <3>1, ListHandled DEF last
    <2>3. CASE s \in BagScreens
        <3>1. {"menu", "vars"} \cap down = {} \/ {"right", "left", "exe"} \cap down = {}
            BY <1>5, <2>3 DEF Strays, BagScreens
        <3>. QED
            BY <1>1, <2>1, <2>3, <3>1, BagHandled DEF last
    <2>4. CASE s = Game
        BY <1>1, <2>1, <2>4, PlayHandled DEF last
    <2>. QED
        BY <1>1, <2>2, <2>3, <2>4 DEF ScreenIds
<1>. QED
    BY <1>4, <1>5 DEF w

\* No key, no change.
LEMMA NothingHandled ==
    ASSUME NEW u, NEW s \in ScreenIds, NEW meets, NEW survival, NEW found,
           ~Strays(s, {}, found)
    PROVE  Handled(u, s, {}, meets, survival, found) = u
<1>. DEFINE d == Done(u, s, {}, meets, survival)
            n == Len(KeysOf(s))
            Q == {m \in Nat : m <= n => d[m] = u}
<1>1. n \in Nat
    BY KeysCounted
<1>2. d[0] = u /\ \A i \in 1..n : d[i] = Step(d[i - 1], s, i, {}, meets, survival)
    BY DoneIs
<1>. HIDE DEF d, n
<1>3. 0 \in Q
    BY <1>2
<1>4. ASSUME NEW m \in Nat, m \in Q
      PROVE  m + 1 \in Q
    <2>1. ASSUME m + 1 <= n
          PROVE  d[m + 1] = u
        <3>1. m + 1 \in 1..n /\ (m + 1) - 1 = m /\ d[m] = u
            BY <1>1, <1>4, <2>1
        <3>2. d[m + 1] = Step(d[(m + 1) - 1], s, m + 1, {}, meets, survival)
            BY <1>2, <3>1
        <3>3. d[m + 1] = Step(u, s, m + 1, {}, meets, survival)
            BY <3>1, <3>2
        <3>. QED
            BY <3>3 DEF Step
    <2>. QED
        BY <2>1
<1>5. n \in Q
    <2>. HIDE DEF Q
    <2>. QED  BY <1>1, <1>3, <1>4, NumberInduction
<1>6. d[n] = u
    BY <1>1, <1>5
<1>. QED
    BY <1>6, HandledIs DEF d, n, Strays

-----------------------------------------------------------------------------
(* The frames.                                                             *)

ScreensInv ==
    /\ ui \in UIRec /\ (~strayed => Good(ui))
    /\ pressed \subseteq lastkey /\ lastkey \subseteq Keys
    /\ block \in 0..(Len(Blocks) + 1)

\* A game that has just been started is in order, whatever worlds there are.
LEMMA StartedIsGood ==
    ASSUME NEW e \in [1..Worlds -> BOOLEAN], NEW p \in 0..4
    PROVE  Good(Started(e, p))
<1>. DEFINE v == Started(e, p)
<1>1. /\ 0 \in 0..RecipeRows /\ 0 \in 0..Worlds /\ Title \in ScreenIds
      /\ 0 \in OpenMode..EditMode
    BY Rows DEF ScreenIds, Lists, OpenMode, EditMode
<1>2. v \in UIRec
    BY <1>1 DEF Started, UIRec
<1>3. /\ v.UIState = Title /\ v.cursorX = 0 /\ v.cursorY = 0 /\ v.cursorStage = 0
      /\ v.WorldOpenMode = 0 /\ v.inMemory = 0 /\ v.isInCraftingTable = FALSE
    BY DEF Started
<1>. HIDE DEF v
<1>4. World(v, Title)
    BY <1>3 DEF World, InPlay, Game, Selection, Creation, GameMenu, OpenMode,
       GameSettings, Conversion, Bag, Creative, ChestBag, TexturePacks, TitleSettings, Title
<1>. QED
    BY <1>2, <1>3, <1>4, Goes DEF Lists, v

LEMMA ScreensInit == Init => ScreensInv
<1>. SUFFICES ASSUME Init PROVE ScreensInv
    OBVIOUS
<1>1. [w \in 1..Worlds |-> FALSE] \in [1..Worlds -> BOOLEAN] /\ 0 \in 0..4
    OBVIOUS
<1>2. Good(ui)
    BY <1>1, StartedIsGood DEF Init
<1>3. Len(Blocks) = 11
    BY DEF Blocks
<1>. QED
    BY <1>2, <1>3 DEF Init, ScreensInv, Good

LEMMA ScreensStep == ScreensInv /\ [Next]_vars => ScreensInv'
<1>. SUFFICES ASSUME ScreensInv, [Next]_vars PROVE ScreensInv'
    OBVIOUS
<1>0. Len(Blocks) = 11
    BY DEF Blocks
<1>1. ASSUME NEW meets, NEW survival, NEW found, NEW s, s = ui.UIState, ~strayed,
             Handle(s, meets, survival, found), block' \in 0..(Len(Blocks) + 1)
      PROVE  ScreensInv'
    <2>1. /\ ui' = Handled(ui, s, pressed', meets, survival, found)
          /\ strayed' = Strays(s, pressed', found) /\ Good(ui)
        BY <1>1 DEF Handle, ScreensInv
    <2>2. ui' \in UIRec /\ (~strayed' => Good(ui'))
        BY <1>1, <2>1, HandledSound
    <2>3. pressed' \subseteq lastkey' /\ lastkey' \subseteq Keys
        BY <1>1, KeySetsAssumption DEF Handle, keyupdate
    <2>. QED
        BY <1>1, <2>2, <2>3 DEF ScreensInv, Good
<1>2. ASSUME NEW meets \in {"table", "chest", "other"}, NEW survival \in BOOLEAN,
             Play(meets, survival)
      PROVE  ScreensInv'
    <2>1. /\ Game = ui.UIState /\ ~strayed /\ Handle(Game, meets, survival, TRUE)
          /\ block' = 1
        BY <1>2, Zenon DEF Play
    <2>2. block' \in 0..(Len(Blocks) + 1)
        BY <1>0, <2>1
    <2>. QED
        BY Zenon, <1>1, <2>1, <2>2
<1>3. ASSUME NEW found \in BOOLEAN, Screen(found)
      PROVE  ScreensInv'
    <2>1. (CHOOSE j \in Ahead : TRUE) \in Ahead
        BY <1>3 DEF Screen
    <2>2. block' \in 0..(Len(Blocks) + 1)
        BY <1>0, <1>3, <2>1 DEF Screen, Ahead
    <2>. QED
        BY <1>1, <1>3, <2>2 DEF Screen
<1>4. ASSUME EndFrame
      PROVE  ScreensInv'
    <2>1. /\ ui \in UIRec /\ Good(ui) /\ block' \in 0..(Len(Blocks) + 1)
          /\ pressed' = {} /\ lastkey' \in {{}, lastkey} /\ lastkey \subseteq Keys
        BY <1>0, <1>4 DEF EndFrame, ScreensInv
    <2>2. CASE ui.ExitLoop
        <3>1. ui.worldExists \in [1..Worlds -> BOOLEAN] /\ ui.currentTexturePackIndex \in 0..4
            BY <2>1 DEF UIRec
        <3>2. ui' = Started(ui.worldExists, ui.currentTexturePackIndex)
            BY <1>4, <2>2 DEF EndFrame
        <3>3. Good(ui')
            BY <3>1, <3>2, StartedIsGood
        <3>. QED
            BY <2>1, <3>3 DEF ScreensInv, Good
    <2>3. CASE ~ui.ExitLoop
        <3>. DEFINE x == [ui EXCEPT !.UIState = TexturePacks]
        <3>1. ui' = (IF "plus" \in pressed THEN x ELSE ui)
              /\ strayed' = ("plus" \in pressed /\ ui.UIState # TexturePacks)
            BY <1>4, <2>3 DEF EndFrame
        <3>2. x \in UIRec
            BY <2>1 DEF UIRec, ScreenIds, Lists
        <3>3. ui.UIState = TexturePacks => x = ui
            BY <2>1 DEF UIRec
        <3>. HIDE DEF x
        <3>4. ui' \in UIRec /\ (~strayed' => Good(ui'))
            BY <2>1, <3>1, <3>2, <3>3
        <3>. QED
            BY <2>1, <3>4 DEF ScreensInv, Good
    <2>. QED
        BY <2>2, <2>3
<1>5. CASE UNCHANGED vars
    <2>1. /\ ui' = ui /\ strayed' = strayed /\ lastkey' = lastkey /\ pressed' = pressed
          /\ block' = block
        BY <1>5 DEF vars
    <2>2. ~strayed' => Good(ui')
        BY <2>1 DEF ScreensInv
    <2>. QED
        BY <2>1, <2>2 DEF ScreensInv, Good
<1>. QED
    BY <1>2, <1>3, <1>4, <1>5 DEF Next

LEMMA ScreensAlways == Spec => []ScreensInv
<1>. QED
    BY ScreensInit, ScreensStep, PTL DEF Spec

LEMMA InvIsSound == ScreensInv => BagsSound /\ WorldsSound
<1>. SUFFICES ASSUME ScreensInv PROVE BagsSound /\ WorldsSound
    OBVIOUS
<1>1. TypeOK
    <2>1. /\ ui.UIState \in ScreenIds /\ ui.cursorX \in Int /\ ui.cursorY \in Nat
          /\ ui.cursorYExtra \in 0..RecipeRows /\ ui.cursorStage \in {0, 1}
          /\ ui.UIstateOld \in {0, TitleSettings, GameSettings}
          /\ ui.WorldOpenMode \in OpenMode..EditMode /\ ui.currentSelectedWorld \in 0..Worlds
          /\ ui.inMemory \in 0..Worlds /\ ui.worldExists \in [1..Worlds -> BOOLEAN]
          /\ ui.currentTexturePackIndex \in 0..4
        BY DEF ScreensInv, UIRec
    <2>2. ui.UIState \in {Game, Bag, Creative, ChestBag} \cup Lists
        BY <2>1 DEF ScreenIds, BagScreens
    <2>. QED
        BY <2>1, <2>2 DEF TypeOK, ScreensInv
<1>2. CursorInScreen
    <2>1. SUFFICES ASSUME ~strayed PROVE CursorInScreen
        BY DEF CursorInScreen
    <2>2. Good(ui) /\ ListCursor(ui) /\ BagCursor(ui) /\ ui \in UIRec
        BY <2>1 DEF ScreensInv, Good
    <2>3. ASSUME ui.UIState = Bag
          PROVE  3 * (ui.cursorY + ui.cursorYExtra) <= craftingRecipeAmount
        <3>1. ui.cursorY \in 0..3
            BY <2>2, <2>3 DEF BagCursor
        <3>2. ui.cursorYExtra \in 0..RecipeRows
            BY <2>2 DEF UIRec
        <3>. DEFINE y == ui.cursorY
                    e == ui.cursorYExtra
                    r == RecipeRows
        <3>3. y \in 0..3 /\ e \in 0..r /\ r \in Nat /\ 3 * (3 + r) <= craftingRecipeAmount
              /\ craftingRecipeAmount \in Nat
            BY <3>1, <3>2, Rows
        <3>. HIDE DEF y, e, r
        <3>4. 3 * (y + e) <= craftingRecipeAmount
            BY <3>3
        <3>. QED
            BY <3>4 DEF y, e
    <2>. QED
        BY <2>2, <2>3 DEF CursorInScreen, ListCursor, BagCursor
<1>3. SwapsWithinBag
    <2>1. SUFFICES ASSUME ~strayed PROVE SwapsWithinBag
        BY DEF SwapsWithinBag
    <2>2. Good(ui) /\ ListCursor(ui) /\ Picked(ui)
        BY <2>1 DEF ScreensInv, Good
    <2>3. ui.cursorStage = 1 => ui.UIState \in BagScreens
        BY <2>2 DEF ListCursor
    <2>. QED
        BY <2>2, <2>3 DEF SwapsWithinBag, Picked, BagScreens
<1>4. ASSUME ~strayed
      PROVE  World(ui, ui.UIState)
    BY <1>4 DEF ScreensInv, Good
<1>5. TableOnlyWhileOpen
    BY <1>4 DEF TableOnlyWhileOpen, World
<1>6. PlayHasAWorld
    BY <1>4 DEF PlayHasAWorld, World
<1>7. SavesToItsSlot /\ ModeOnlyInSelection
    BY <1>4 DEF SavesToItsSlot, ModeOnlyInSelection, World
<1>. QED
    BY <1>1, <1>2, <1>3, <1>5, <1>6, <1>7 DEF BagsSound, WorldsSound

\* Whatever keys are down together, until a screen is left in one of the ways
\* that Strays lists, the cursor is on a button or in a cell of the screen that
\* is shown, a swap stays within its bag, and the crafting table's recipes end
\* with its bag (makeUI 23124-25492).
THEOREM BagsCorrect == Spec => []BagsSound
<1>. QED
    BY ScreensAlways, InvIsSound, PTL

\* And the screens of play are those with a world in memory, which is saved to
\* the slot it came from and deleted only in the selection.
THEOREM WorldsCorrect == Spec => []WorldsSound
<1>. QED
    BY ScreensAlways, InvIsSound, PTL

\* The keyboard is sampled for every screen of a frame (keyupdate, controls.c),
\* and no sample without a key that went down changes anything.
THEOREM KeysCorrect == Spec => HeldKeysDoNothing
<1>. DEFINE A == lastkey' \subseteq lastkey /\ ~strayed' /\ ~ui.ExitLoop => ui' = ui
<1>1. ScreensInv /\ [Next]_vars => [A]_vars
    <2>. SUFFICES ASSUME ScreensInv, Next, lastkey' \subseteq lastkey, ~strayed', ~ui.ExitLoop
                  PROVE  ui' = ui
        OBVIOUS
    <2>1. ui \in UIRec /\ ui.UIState \in ScreenIds
        BY DEF ScreensInv, UIRec
    <2>2. ASSUME NEW meets, NEW survival, NEW found, NEW s, s = ui.UIState,
                 Handle(s, meets, survival, found)
          PROVE  ui' = ui
        <3>1. pressed' = {}
            BY <2>2 DEF Handle, keyupdate
        <3>2. ui' = Handled(ui, s, {}, meets, survival, found) /\ ~Strays(s, {}, found)
            BY <2>2, <3>1 DEF Handle
        <3>. QED
            BY <2>1, <2>2, <3>2, NothingHandled
    <2>3. ASSUME NEW meets \in {"table", "chest", "other"}, NEW survival \in BOOLEAN,
                 Play(meets, survival)
          PROVE  ui' = ui
        BY <2>2, <2>3 DEF Play
    <2>4. ASSUME NEW found \in BOOLEAN, Screen(found)
          PROVE  ui' = ui
        BY <2>2, <2>4 DEF Screen
    <2>5. ASSUME EndFrame
          PROVE  ui' = ui
        <3>1. ui' = (IF "plus" \in pressed THEN [ui EXCEPT !.UIState = TexturePacks] ELSE ui)
              /\ ~("plus" \in pressed /\ ui.UIState # TexturePacks)
            BY <2>5 DEF EndFrame
        <3>2. ui.UIState = TexturePacks => [ui EXCEPT !.UIState = TexturePacks] = ui
            BY <2>1 DEF UIRec
        <3>. QED
            BY <3>1, <3>2
    <2>. QED
        BY <2>3, <2>4, <2>5 DEF Next
<1>. QED
    BY <1>1, ScreensAlways, PTL DEF Spec, HeldKeysDoNothing
=============================================================================
