------------------------------- MODULE Screens -------------------------------
(***************************************************************************)
(* The screens of the game and the keys that work them (makeUI, src/src/   *)
(* eninge.c 23124-25492, the keys of play 28413-28667, controls.c).        *)
(*                                                                         *)
(* A frame goes once through the screens, in the order of their code.  The *)
(* screen that UIState names samples the keyboard and handles the keys     *)
(* that are down and were not at the sample before; it may make a later    *)
(* screen the current one, which is then reached in the same frame.  All   *)
(* screens share one cursor.  What a screen shows and what a swap or a     *)
(* recipe does with the items is in Inventory, the files in WorldFiles.    *)
(***************************************************************************)
EXTENDS Integers, Sequences

CONSTANTS Columns,              \* of a bag (code: 9)
          craftingRecipeAmount, \* (code: 57), shown in rows of 3
          itemAmount,           \* (code: 100), shown in rows of Columns
          Worlds,               \* slots (code: 5)
          maxTextureIndex,      \* texture packs found (code: 0 to 5)
          KeySets               \* keys that may be down together

ASSUME ScreensAssumption ==
    /\ {Columns, Worlds} \subseteq Nat \ {0}
    /\ {itemAmount, craftingRecipeAmount} \subseteq Nat
    /\ maxTextureIndex \in 0..5
    /\ itemAmount \div Columns \in Nat \ {0, 1}
    /\ craftingRecipeAmount \div 3 - 3 >= itemAmount \div Columns - 2

VARIABLES
    ui,       \* the screens' variables: UIState, cursorX, cursorY, cursorYExtra,
              \* cursorStage, picked (cursorXSelected, cursorYSelected),
              \* cursorTypeSelected, UIstateOld, WorldOpenMode, isInCraftingTable,
              \* currentSelectedWorld, worldExists, currentTexturePackIndex,
              \* ExitLoop, and
              \* inMemory: the slot whose world is in memory, 0 for none
    lastkey,  \* keys down at the last sample
    pressed,  \* of them, those that were not down at the sample before
    block,    \* screens of the frame that are behind
    strayed   \* ghost: a screen was left that did not put the cursor back
vars == <<ui, lastkey, pressed, block, strayed>>

Game == 0
Title == 9
Selection == 10
Creation == 11
TitleSettings == 12
GameMenu == 13
GameSettings == 14
Conversion == 15
Bag == 16
Creative == 17
ChestBag == 18
TexturePacks == 19

\* The screens in the order of makeUI.
Blocks == <<Title, Selection, Creation, Conversion, TitleSettings, GameMenu,
            GameSettings, Bag, Creative, ChestBag, TexturePacks>>
\* The keys each handles, in the order it asks for them.
KeysOf(s) ==
    CASE s = Game -> <<"exit", "menu", "vars", "9">>
      [] s = Title -> <<"up", "down", "exe">>
      [] s = Selection -> <<"up", "menu", "down", "shift", "exe">>
      [] s \in {Bag, Creative, ChestBag} ->
             <<"up", "down", "menu", "vars", "right", "left", "exe">>
      [] s = TexturePacks -> <<"up", "down", "menu", "exe">>
      [] OTHER -> <<"up", "menu", "down", "exe">>
Keys == {"up", "down", "left", "right", "menu", "exe", "shift", "vars", "plus", "9", "exit"}

ASSUME KeySetsAssumption == KeySets \subseteq SUBSET Keys

-----------------------------------------------------------------------------
(* Lists of buttons.                                                       *)

Buttonlength(s) ==
    CASE s = Title -> 3
      [] s = Selection -> Worlds + 1
      [] s \in {Creation, Conversion} -> 8
      [] s \in {TitleSettings, GameSettings} -> 12
      [] s = GameMenu -> 5
      [] s = TexturePacks -> 6
Lists == {Title, Selection, Creation, Conversion, TitleSettings, GameSettings, GameMenu,
          TexturePacks}
Up(u, n) == [u EXCEPT !.cursorY = IF @ # 0 THEN @ - 1 ELSE n - 1]
Down(u, n) == [u EXCEPT !.cursorY = IF @ # n - 1 THEN @ + 1 ELSE 0]
To(u, s) == [u EXCEPT !.UIState = s, !.cursorY = 0]

\* Where menu leads, and the last button of most lists.
Back(u, s) ==
    CASE s \in {Creation, Conversion} -> To(u, Selection)
      [] s = TitleSettings -> To(u, Title)
      [] s = GameMenu -> To(u, Game)
      [] s = GameSettings -> To(u, GameMenu)
      [] s = TexturePacks -> To(u, u.UIstateOld)
LeaveSelection(u) == [To(u, Title) EXCEPT !.WorldOpenMode = 0]

\* What enter does to the world under the cursor: create or load, delete,
\* recover, edit.
OpenMode == 0
DeleteMode == 1
RecoverMode == 2
EditMode == 3
NextMode(u) == [u EXCEPT !.WorldOpenMode = IF @ = EditMode THEN OpenMode ELSE @ + 1]
\* Mutant: the slot is taken for the number of the world.
EnterWorldBefore(u, w, s) ==
    [To(u, s) EXCEPT !.currentSelectedWorld = w - 1, !.WorldOpenMode = 0]
EnterWorld(u, w, s) == [To(u, s) EXCEPT !.currentSelectedWorld = w, !.WorldOpenMode = 0]
SelectWorld(u) ==
    LET w == u.cursorY + 1
        exists == u.worldExists[w]
    IN  CASE w > Worlds -> LeaveSelection(u)
          [] w <= Worlds /\ ~exists /\ u.WorldOpenMode = OpenMode -> EnterWorld(u, w, Creation)
          [] w <= Worlds /\ exists /\ u.WorldOpenMode = OpenMode ->
                 [EnterWorld(u, w, Game) EXCEPT !.inMemory = w]
          [] w <= Worlds /\ u.WorldOpenMode = DeleteMode ->
                 [u EXCEPT !.worldExists[w] = FALSE, !.WorldOpenMode = 0]
          [] w <= Worlds /\ ~exists /\ u.WorldOpenMode = RecoverMode ->
                 EnterWorld(u, w, Conversion)
          [] w <= Worlds /\ exists /\ u.WorldOpenMode = EditMode ->
                 EnterWorld(u, w, Conversion)
          [] OTHER -> u

Saved(u) == [u EXCEPT !.worldExists[u.currentSelectedWorld] = TRUE]
\* Both quits clear the chunks, the entities and the blocks.
QuitToTitle(u) == [To(u, Title) EXCEPT !.inMemory = 0]

\* What enter does on the buttons of the other lists.
PressTitle(u) ==
    IF u.cursorY = 0 THEN To(u, Selection)
    ELSE IF u.cursorY = 1 THEN To(u, TitleSettings)
    ELSE [u EXCEPT !.ExitLoop = TRUE]
CreateWorld(u) ==
    IF u.cursorY = 6 THEN [To(Saved(u), Game) EXCEPT !.inMemory = u.currentSelectedWorld]
    ELSE IF u.cursorY = 7 THEN Back(u, Creation) ELSE u
ConvertWorld(u) ==
    IF u.cursorY = 6 THEN To(Saved(u), Selection)
    ELSE IF u.cursorY = 7 THEN Back(u, Conversion) ELSE u
PressSettings(u, s) ==
    IF u.cursorY = 0 THEN Back(u, s)
    ELSE IF u.cursorY = 11 THEN [To(u, TexturePacks) EXCEPT !.UIstateOld = s] ELSE u
PressGameMenu(u) ==
    CASE u.cursorY = 0 -> Back(u, GameMenu)
      [] u.cursorY = 1 -> To(u, GameSettings)
      [] u.cursorY = 2 -> Saved(u)
      [] u.cursorY = 3 -> QuitToTitle(Saved(u))
      [] OTHER -> QuitToTitle(u)
PickTexturePack(u) ==
    IF u.cursorY = 5 THEN Back(u, TexturePacks)
    ELSE IF u.cursorY < maxTextureIndex
    THEN [u EXCEPT !.currentTexturePackIndex = u.cursorY] ELSE u
OnExe(u, s) ==
    CASE s = Title -> PressTitle(u)
      [] s = Selection -> SelectWorld(u)
      [] s = Creation -> CreateWorld(u)
      [] s = Conversion -> ConvertWorld(u)
      [] s \in {TitleSettings, GameSettings} -> PressSettings(u, s)
      [] s = GameMenu -> PressGameMenu(u)
      [] s = TexturePacks -> PickTexturePack(u)

OnList(u, s, k) ==
    CASE k = "up" -> Up(u, Buttonlength(s))
      [] k = "down" -> Down(u, Buttonlength(s))
      [] k = "menu" -> IF s = Selection THEN LeaveSelection(u) ELSE Back(u, s)
      [] k = "shift" -> NextMode(u)
      [] k = "exe" -> OnExe(u, s)

-----------------------------------------------------------------------------
(* Bags.  A column less than 0 is one of the three of the crafting list.   *)
(* What was picked is kept while cursorStage is 1, and not read otherwise. *)

RecipeRows == craftingRecipeAmount \div 3 - 3
ItemRows == itemAmount \div Columns - 2
\* A list of which "shown" rows are seen, beginning at row cursorYExtra.
ScrollUp(u, rows, shown) ==
    IF u.cursorY > 0 THEN [u EXCEPT !.cursorY = @ - 1]
    ELSE IF u.cursorYExtra > 0 THEN [u EXCEPT !.cursorYExtra = @ - 1]
    ELSE [u EXCEPT !.cursorY = shown - 1, !.cursorYExtra = rows]
ScrollDown(u, rows, shown) ==
    IF u.cursorYExtra > rows \/ (u.cursorY = shown - 1 /\ u.cursorYExtra >= rows)
    THEN [u EXCEPT !.cursorY = 0, !.cursorYExtra = 0]
    ELSE IF u.cursorY < shown - 1 THEN [u EXCEPT !.cursorY = @ + 1]
    ELSE [u EXCEPT !.cursorYExtra = @ + 1]
RowUp(u, rows)   == [u EXCEPT !.cursorY = IF @ = 0 THEN rows - 1 ELSE @ - 1]
RowDown(u, rows) == [u EXCEPT !.cursorY = IF @ = rows - 1 THEN 0 ELSE @ + 1]
\* Mutant: a bag closed, its cursor where it was.
CloseBagOnly(u) == [u EXCEPT !.isInCraftingTable = FALSE, !.UIState = Game]
CloseBag(u) ==
    [u EXCEPT !.isInCraftingTable = FALSE, !.UIState = Game, !.cursorStage = 0,
              !.cursorX = 0, !.cursorY = 0, !.picked = <<0, 0>>, !.cursorTypeSelected = 0]

\* From the last column right to the second of the crafting list (24657), from
\* its first column left to the last.
Right(u, s) ==
    LET x == IF u.cursorX + 1 = Columns THEN (IF s = Bag THEN -2 ELSE 0) ELSE u.cursorX + 1
    IN  [u EXCEPT !.cursorX = x, !.cursorYExtra = IF s = Bag /\ x >= 0 THEN 0 ELSE @]
Left(u, s) ==
    LET x == IF u.cursorX - 1 = (IF s = Bag THEN -4 ELSE -1) THEN Columns - 1
             ELSE u.cursorX - 1
    IN  [u EXCEPT !.cursorX = x, !.cursorYExtra = IF s = Bag /\ x >= 0 THEN 0 ELSE @]

PickUpOrSwap(u) ==
    IF u.cursorStage = 0 THEN [u EXCEPT !.picked = <<u.cursorX, u.cursorY>>, !.cursorStage = 1]
    ELSE [u EXCEPT !.cursorStage = 0, !.picked = <<0, 0>>]
TakeItem(u) ==
    LET type == u.cursorX + (u.cursorY + u.cursorYExtra) * Columns + 1
    IN  IF type < itemAmount THEN [u EXCEPT !.cursorTypeSelected = type, !.cursorStage = 1] ELSE u

OnBag(u, s, k) ==
    CASE k \in {"menu", "vars"} -> CloseBag(u)
      [] k = "right" -> Right(u, s)
      [] k = "left" -> Left(u, s)
      [] k = "up" /\ s = Bag -> IF u.cursorX >= 0 THEN RowUp(u, 4) ELSE ScrollUp(u, RecipeRows, 4)
      [] k = "down" /\ s = Bag ->
             IF u.cursorX >= 0 THEN RowDown(u, 4) ELSE ScrollDown(u, RecipeRows, 4)
      [] k = "up" /\ s = ChestBag -> RowUp(u, 7)
      [] k = "down" /\ s = ChestBag -> RowDown(u, 7)
      [] k = "up" /\ s = Creative ->
             IF u.cursorStage = 0 THEN ScrollUp(u, ItemRows, 3) ELSE u
      [] k = "down" /\ s = Creative ->
             IF u.cursorStage = 0 THEN ScrollDown(u, ItemRows, 3) ELSE u
      [] k = "exe" /\ s = Creative ->
             IF u.cursorX < 0 THEN u
             ELSE IF u.cursorStage = 0 THEN TakeItem(u)
             ELSE [u EXCEPT !.cursorStage = 0, !.cursorTypeSelected = 0]
      [] k = "exe" /\ s = Bag -> IF u.cursorX >= 0 THEN PickUpOrSwap(u) ELSE u
      [] k = "exe" /\ s = ChestBag -> PickUpOrSwap(u)

-----------------------------------------------------------------------------
(* The keys of play.  "meets" is what key 9 meets, "survival" the mode the  *)
(* world is played in, and "found" says whether the chest of an open bag   *)
(* is still before the player and has a record.                            *)

OnGame(u, k, meets, survival) ==
    CASE k = "exit" -> [u EXCEPT !.ExitLoop = TRUE]
      [] k = "menu" -> IF u.UIState = Game THEN [u EXCEPT !.UIState = GameMenu] ELSE u
      [] k = "vars" -> IF u.UIState = Game
                       THEN [u EXCEPT !.UIState = IF survival THEN Bag ELSE Creative] ELSE u
      [] k = "9" /\ meets = "table" ->
             [u EXCEPT !.isInCraftingTable = TRUE, !.UIState = Bag]
      [] k = "9" /\ meets = "chest" -> [u EXCEPT !.UIState = ChestBag]
      [] OTHER -> u

On(u, s, k, meets, survival) ==
    IF u.ExitLoop THEN u
    ELSE IF s = Game THEN OnGame(u, k, meets, survival)
    ELSE IF s \in Lists THEN OnList(u, s, k)
    ELSE OnBag(u, s, k)

\* The screen goes on with its keys though one of them has left it.
Handled(u, s, down, meets, survival, found) ==
    LET asked[i \in 0..Len(KeysOf(s))] ==
            IF i = 0 THEN u
            ELSE IF KeysOf(s)[i] \in down THEN On(asked[i - 1], s, KeysOf(s)[i], meets, survival)
            ELSE asked[i - 1]
        after == asked[Len(KeysOf(s))]
    IN  IF s = ChestBag /\ ~found THEN [after EXCEPT !.UIState = Game]
        ELSE after

\* What leaves the cursor or the mode where the next screen does not expect it:
\* a chest lost from sight while its bag is open (25183), and a key that leaves
\* a screen together with one that the screen still handles.
Strays(s, down, found) ==
    \/ s = ChestBag /\ ~found
    \/ s \in {Bag, Creative, ChestBag} /\ {"menu", "vars"} \cap down # {}
       /\ {"right", "left", "exe"} \cap down # {}
    \/ s = Selection /\ {"menu", "shift"} \subseteq down

-----------------------------------------------------------------------------
(* A frame.                                                                *)

Started(exists, pack) ==
    [UIState |-> Title, cursorX |-> 0, cursorY |-> 0, cursorYExtra |-> 0, cursorStage |-> 0,
     picked |-> <<0, 0>>, cursorTypeSelected |-> 0, UIstateOld |-> 0, WorldOpenMode |-> 0,
     isInCraftingTable |-> FALSE, currentSelectedWorld |-> 0,
     worldExists |-> exists, currentTexturePackIndex |-> pack, ExitLoop |-> FALSE,
     inMemory |-> 0]
Init ==
    /\ ui = Started([w \in 1..Worlds |-> FALSE], 0)
    /\ lastkey = {} /\ pressed = {} /\ block = 0
    /\ strayed = FALSE

\* Mutant: the keys of the sample before are forgotten.
KeyupdateAnew(down) == lastkey' = down /\ pressed' = down
keyupdate(down) == lastkey' = down /\ pressed' = down \ lastkey

Handle(s, meets, survival, found) ==
    /\ \E down \in KeySets : keyupdate(down)
    /\ ui' = Handled(ui, s, pressed', meets, survival, found)
    /\ strayed' = Strays(s, pressed', found)

Play(meets, survival) ==
    /\ ~strayed /\ block = 0 /\ ui.UIState = Game
    /\ Handle(Game, meets, survival, TRUE)
    /\ block' = 1

Ahead == {j \in 1..Len(Blocks) : j > block - 1 /\ Blocks[j] = ui.UIState}
Screen(found) ==
    /\ ~strayed /\ ~ui.ExitLoop
    /\ Ahead # {} /\ (found \/ ui.UIState = ChestBag)
    /\ Handle(ui.UIState, "other", TRUE, found)
    /\ block' = (CHOOSE j \in Ahead : TRUE) + 1

\* After the screens, plus shows the texture packs, from wherever (25488).
EndFrame ==
    /\ ~strayed
    /\ Ahead = {} \/ ui.ExitLoop
    /\ block > 0
    /\ block' = 0 /\ pressed' = {}
    /\ IF ui.ExitLoop
       THEN /\ ui' = Started(ui.worldExists, ui.currentTexturePackIndex)
            /\ lastkey' = {} /\ strayed' = FALSE
       ELSE /\ ui' = IF "plus" \in pressed THEN [ui EXCEPT !.UIState = TexturePacks] ELSE ui
            /\ strayed' = ("plus" \in pressed /\ ui.UIState # TexturePacks)
            /\ UNCHANGED lastkey

Next == \/ \E meets \in {"table", "chest", "other"}, survival \in BOOLEAN : Play(meets, survival)
        \/ \E found \in BOOLEAN : Screen(found)
        \/ EndFrame
Spec == Init /\ [][Next]_vars

-----------------------------------------------------------------------------
(* Properties.  A screen is left with the cursor, the mode and the picked  *)
(* cell put back for whichever screen is next, all of which share them:    *)
(* that is what these say, until something strays.                         *)

InPlay == {Game, GameMenu, GameSettings, Bag, Creative, ChestBag}
TypeOK ==
    /\ ui.UIState \in {Game, Bag, Creative, ChestBag} \cup Lists
    /\ {ui.cursorX, ui.cursorY} \subseteq Int /\ ui.cursorStage \in {0, 1}
    /\ ui.cursorYExtra \in 0..RecipeRows
    /\ ui.UIstateOld \in {0, TitleSettings, GameSettings}
    /\ ui.WorldOpenMode \in OpenMode..EditMode
    /\ {ui.currentSelectedWorld, ui.inMemory} \subseteq 0..Worlds
    /\ ui.worldExists \in [1..Worlds -> BOOLEAN]
    /\ ui.currentTexturePackIndex \in 0..4
    /\ pressed \subseteq lastkey /\ lastkey \subseteq Keys
    /\ block \in 0..(Len(Blocks) + 1)

\* The cursor is on a button or in a cell of the screen it is shown on,
\* whatever screen it comes from.  In the crafting list it may be on the row
\* after the last, where there is no recipe (24619, 24696).
CursorInScreen ==
    ~strayed =>
        /\ ui.UIState \in Lists => ui.cursorY \in 0..(Buttonlength(ui.UIState) - 1)
        /\ ui.UIState = Bag =>
               /\ ui.cursorX \in -3..(Columns - 1) /\ ui.cursorY \in 0..3
               /\ 3 * (ui.cursorY + ui.cursorYExtra) <= craftingRecipeAmount
        /\ ui.UIState = ChestBag => ui.cursorX \in 0..(Columns - 1) /\ ui.cursorY \in 0..6
        /\ ui.UIState = Creative => ui.cursorX \in 0..(Columns - 1) /\ ui.cursorY \in 0..2

\* What a swap exchanges with the cell under the cursor is a cell of the same
\* screen, and what the creative bag puts into the hotbar is an item: a bag
\* opens with nothing picked (24666, 25036, 25143).
SwapsWithinBag ==
    ~strayed =>
        /\ ui.cursorStage = 1 => ui.UIState \in {Bag, Creative, ChestBag}
        /\ ui.cursorStage = 1 /\ ui.UIState # Creative =>
               /\ ui.picked[1] \in 0..(Columns - 1)
               /\ ui.picked[2] \in 0..(IF ui.UIState = Bag THEN 3 ELSE 6)
        /\ ui.cursorStage = 1 /\ ui.UIState = Creative =>
               ui.cursorTypeSelected \in 1..(itemAmount - 1)

\* The screens of play, and only they, have a world in memory: no path of
\* screens leaves a world without clearing it or plays where there is none.
PlayHasAWorld ==
    ~strayed =>
        (ui.inMemory # 0 <=> \/ ui.UIState \in InPlay
                             \/ ui.UIState = TexturePacks /\ ui.UIstateOld = GameSettings)

\* A world is saved to the slot it was loaded from or created in (24161, 24170).
SavesToItsSlot == ~strayed /\ ui.inMemory # 0 => ui.currentSelectedWorld = ui.inMemory

\* Enter deletes a world only after shift was pressed in this visit of the
\* selection: the mode never outlives it (23278, 23312).
ModeOnlyInSelection == ~strayed /\ ui.WorldOpenMode # OpenMode => ui.UIState = Selection

\* Recipes of the crafting table can be made only while it is open (24702).
TableOnlyWhileOpen == ~strayed /\ ui.isInCraftingTable => ui.UIState = Bag

\* The cursor, what it has picked and the table fit the screen.
BagsSound == TypeOK /\ CursorInScreen /\ SwapsWithinBag /\ TableOnlyWhileOpen

\* The screens keep the right world open, saved and out of danger.
WorldsSound == PlayHasAWorld /\ SavesToItsSlot /\ ModeOnlyInSelection

\* A key does what it does once, when it goes down: though a frame may sample
\* the keyboard for several screens, nothing happens while no key goes down.
HeldKeysDoNothing ==
    [][lastkey' \subseteq lastkey /\ ~strayed' /\ ~ui.ExitLoop => ui' = ui]_vars
=============================================================================
