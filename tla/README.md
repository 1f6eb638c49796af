# cpcraft in TLA+

cpcraft is a block game for Casio fx-CG calculators: one program, one thread,
one main loop, nearly all of it in `src/src/eninge.c`. The hard part of such a
program is not concurrency. It is that every piece of state exists several
times (an item in a slot and in `blockSelected`, the time of day and the
brightness counted from it, an entity and the buffers of its object, a world in
memory and in its files), that every handler refreshes the copies by hand, and
that sequences of legal key presses, seconds and screens reach combinations
nobody tried. The modules here model those pairs and state what must stay true
between them.

File references are to `src/src/eninge.c` unless another file is named.

## 1. The system

### Control flow

`renderObject` (28176) is the main loop. Every round it measures the time, and
unless one of the four title screens is open (`UIState` 9 to 12, line 28205) it
updates the blocks (`updateMap`), once a second counts the clock, checks for
death, and moves the player. `update` moves the entities and streams the chunks.
Keys of play are read when `UIState` is 0, keys of menus in `makeUI`. There are
no threads and no interrupts that touch game state; what interleaves is what
the loop does by itself (seconds, entities, death) with what the player does, on
any screen: the world goes on while the inventory, a chest, the game menu and
even the screen that edits another world's settings are open.

### Components

| component | state | operations | modules |
|---|---|---|---|
| Inventory, hotbar, chest contents, crafting | `hotbarBlock*[9]`, `inventoryBlock*[27]` (types, amounts, hp), `allchest[].chestBlock*`, `currentSlot`, `blockSelected` | add, remove, swap, craft, put (creative), wear, eat, feed, shear, smelt, place, pick up, select, die, quit | `Inventory`, `InventoryProofs` |
| Day and night | `dayTime`, `dayTimeChange`, `skyBrightness`, `dayNightCycle`, the same in each `worldData` file | a second, bed, F4/F5, create, open, edit, save, leave, delete, recover | `DayNight`, `DayNightProofs` |
| Entities and their buffers | `entityList[128]`, `allObj[100..227]`, `usedEntitys`, the heap | make, load, free sheep, pig, item; clear all; save, load | `EntityPool`, `Herd`, `EntityPoolProofs` |
| World files | `gameData`, and per world `worldData`, `playerData`, `chestData`, `entityData`, 64 chunk files; `worldExists`, `worldVersion` | create, save, load with two conversions, delete, recover, edit | `WorldFiles`, `WorldFilesProofs` |
| Chunk streaming | `chunk2DActive[64]`, `chunk2DReset`, `currentChunkUpdated`, `renderDistance`, the chunk meshes, the counters of vertices and triangles | one step of the cycle, load all, clear all, reset all | `Chunks`, `ChunksProofs` |
| Block updates | `blocks`, `blockData`, the marks of a pass | redstone, water, lava, plants, farmland, using, placing, breaking | `BlockMap`, `Redstone`, `Fluids`, `Plants`, `UpdateMap`, `UpdateMapProofs` |
| Lighting and what of it a mesh shows | `lightmap`, the light of a mesh | whole map, one chunk, one block, a refresh | `Lighting` |
| Screens, cursors, keyboard | `UIState`, `cursorX`, `cursorY`, `cursorYExtra`, `cursorStage`, `WorldOpenMode`, `lastkey`, `holdkey` | keys on each screen | `Screens`, `ScreensProofs` |
| Rasteriser | `ZBuffer`, the screen, `transQuads`, `waterQuads` | draw a face (20 triangle routines), sky, cracks, screenshot, clear | `Raster` |
| Items, blocks, recipes; world generation | `allItem[100]`, `allBlock`, `craftingRecipes[57]`, `furnaceRecipes[6]` | break, craft, smelt, place, hoe, shear, hunt; make a world | `Items`, `Survival` |
| Chest records | `allchest[32]` | create, find by position, save, load | their file in `WorldFiles`, no module of their own |
| Mobs | `state`, `moveTimer`, `isFed`, `hasFur`, `health` | breed, shear, graze, die; walk and flee | `EntityPool` (not walking) |
| Player, compression, screen transfer, platform, vendored TLSF and LZ4 | - | - | not modelled (section 6) |

How they meet: pick-ups bring entities into slots; `Screens` decides which of
the operations of `Inventory`, `WorldFiles` and `DayNight` a key is; leaving a
world clears entities, chunks and blocks; block updates mark chunks for light
and meshes; and everything that is saved goes through the files. The modules
are composed where two components write the same state: `UpdateMap` extends
`Redstone`, `Fluids` and `Plants`, which share `BlockMap`; `Survival` extends
`Items`; `EntityPool` implements `Herd`. Elsewhere the neighbour is a free
choice that covers whatever it may do.

### What is hard here

`PROJECT.json` lists the hazards at their lines. The kinds that matter:

- **stale copies**: `blockSelected` after eating or after a pick-up;
  `skyBrightness` after the edit screen; the mesh of a chunk after its neighbour
  changed; what a file did not bring stays from the world before;
- **long legal sequences**: a slot half cleared by breaking shears meets a
  pick-up three screens later; a cursor left by one screen indexes another;
- **order**: signals, fluids and plants are updated in place in scan order;
  faces with holes and water are drawn after the rest over the same depths;
- **limits**: stacks of 64, 128 entities, 32 chests, 16 sky colours, the edge of
  the map, of a mesh and of the screen;
- **half-done operations**: a craft that takes and cannot give, a world whose
  list entry is written before its files, a conversion that deletes first;
- **liveness**: nights end, chunks get loaded, circuits settle, every item of
  the tables can be had.

## 2. The modules

### `Inventory`

The nine hotbar slots, the 27 behind them and the 27 of the open chest are one
function `slots` from *places* to `[type, amount, hp]`. Places are numbered in
the order in which the code scans: hotbar, inventory, chest. That turns the
sixteen loops over parallel arrays into four ideas:

| code | model |
|---|---|
| `addItemToHotbarInventory` | `PlaceFor` (which of the four passes finds a slot, and which), `Added` (what it becomes; hp only when the slot counted 0) |
| `removeItemFromInventoryHotbar` | `Left` (what remains to take at each place, a recursive function), `Consumed` |
| `swapItems`, `swapItemsChest` | `Swapped`, on the places `Reach` gives to the screen |
| `useBlock`'s chain of `if`s | `UseItem`: `Shear`, `Feed`, `Eat`, `Hatch`, `PlaceBlock` composed in this order, each acting on what the previous one left, as the code re-reads `blockSelected` after each |
| `useBlock` on a furnace, on grass | `UseFurnace`, `UseHoe` |
| `destroyBlock` in survival | `DestroyBlock` |
| entity pick-up and drops | `PickUp`, `MobDies`, `Dropped` on `ground`, the entity slots items take; `Harvested` for wheat's two seeds |
| screens | `OpenScreen`, `CloseScreen`, `ChooseSlot`, `SwapSlots`, `Craft`, `ChooseItem`, `PutItem` |
| death, leaving, a new world | `Die`, `Quit`, `CreateWorld` |

`blockSelected` is refreshed exactly where the code does, and left stale where
the code leaves it. `allItem[-1]`, which `useBlock` reads with empty hands, is
a constant of its own, `toolType[NoItem]`; the memory before the table is not
known, so the configurations give it a value that no stage reacts to. Whether a
sheep stands in front, has fur, and whether a block may be placed are free
choices. Pick-ups and death happen on every screen of a world, as in the loop.

Bounds: `HpDebt` and `AmountDebt` stop the two counters that the code lets go
below zero; `Pool` is the entity slots. `RecipesAssumption`: no recipe takes
what it makes, which `Items` asks of the table of the code
(`NoRecipeTakesItsOutput`).

Properties:

- `StackLimitHolds`: no stack passes 64 in any of the four passes.
- `SelectionNeverForeign`: `blockSelected` may name an item that is gone, never
  a different one. All of `useBlock` and `destroyBlock` rests on it.
- `HpBound`, `NoLeftoverHp`: no tool is ever better than new, although quitting,
  eating and breaking leave hp behind in slots other items then take.
- `CraftIsExact`, `PickUpKeepsTheItem`, `SwapOnlyRearranges`: nothing is
  duplicated or lost. They are stated over whole totals and multisets of slots,
  not over the operation that ran. The output of a craft may be missing only when
  no slot the player carries takes it whole (`TakesWhole`), which is the one case
  of `CraftGivesOutput` in section 3; a craft that gives nothing although there
  is room violates `CraftIsExact`.
- `NothingRepairsATool`; `JunkOnlyFromKnownSites` (a slot that is half cleared
  can only come from shears breaking or from using an item already gone).

### `DayNight`

The clock and the brightness, with every way they are set or read back. A world
has a file (`worldData[w]`) with the five values `saveWorldData` writes that
matter here; `gameData` is `worldExists`. `UIState` keeps four screens: the list
of worlds with its menus, the creation screen (11), the edit screen (15) and a
world (0 and its menus). `days` is a history variable: the days begun since the
sky was last set, saved with the world, so that drift can be bounded.

`Tick` is lines 28254-28301, with dawn and dusk as `Dawn(t)` and `Dusk(t)` and
the shared counter `dayTimeChange`; `TickWithoutCycle` the other branch; `Sleep`
the bed; `Brighter` and `Darker` the keys F4 and F5; the others one action per
entry of a menu. The history variable `used` remembers whether the edit screen
and the keys F4 and F5 were used, and a property names in its hypothesis what it
does not survive.

- `SkyKept` is `SkyInTable` (`skyColors[skyBrightness-1]` is never read outside
  its entries; nothing in the code clamps it) and `SkyFollowsClock` (although
  only counted, the brightness agrees with the time of day).
- `DaylightWithoutCycle`, `NewWorldsStartAtHalf`: one world's sky does not leak
  into another through `worldData`, the creation screen, or a switch of cycle;
  the first survives the edit screen, the second the keys.
- `NightEnds` (liveness): every night of a world that stays open ends.

### `EntityPool` and `Herd`

The 128 slots of `entityList`, and for each slot the six buffers of its mesh in
`allObj`, which is `heap[slot][buffer]`: `"null"`, `"live"` or `"freed"`. A slot
is drawn, moved and coloured through these pointers, an item through five of
them, a mob through six; nothing but the code's own order of events keeps them
alive. A sheep takes a second slot, type 255 (`Shorn`), tied to it by
`extraEntity`.

| code | model |
|---|---|
| the searches for an inactive slot in every `make...` | `FirstFree(D, n)`: what n searches find |
| `makeItem`, `makePig`, `makeSheep2` | the same names |
| `loadEntityData`, `loadAllEntitys` with `makeSheep2Load`, `makePigLoad`, `makeItemLoad` | the same names, one step per slot |
| `saveEntityData` | `EntityData`, written by `EnterNewWorld`, `Save`, `SaveAndQuit` |
| `clearAllEntitys` | the same name, in `SaveAndQuit` and `Quit` |
| the main loop: `updateEntityReach`, `updateMap`, `updateEntitys`, keys | `phase` goes `"reach"`, `"mobs"`, `"keys"` in this order; `updateEntitys` is one step per slot (`at`), its search for mates a loop within (`"mating"`, `mate`) |
| `updateEntitys` | `Graze`, `LookForMates`, `Breed`, `NoMate`, `MatingDone`, `SheepDies`, `PigDies`, `PickUp`, `Pass` |
| `useBlock`, `destroyBlock` | `ShearKey`, `FeedKey`, `MakeKey` on the `target` found in the first phase |

The update is kept slot by slot because what it makes in free slots is updated
by the same loop if the slot comes later, and searched by the same search for
mates. Who is near, looked at, hungry for grass, hit or picked up is a free
choice. One key acts per frame, except that a mined block may leave several
items.

Left out: `locationOnAllObj` (it is 100 + slot wherever it is read), positions,
the two counters of vertices and triangles, worlds older than version 4, and the
converting of those; allocation never fails.

`Herd` is what a player may expect: places with a creature or none, a herd as
it is and a herd as it was kept. `ImplementsHerd` maps the pool to it by hiding
second meshes, buffers and the order of loading (a slot the file fills counts at
once). It says that a step brings, shears, regrows or takes one creature and
leaves items behind only in empty places, that a world is left empty, and that
it comes back as it was kept, fleeces included.

Properties:

- `BuffersHeld`, `NoDoubleFree`, `SheepPaired`: every entity has all its buffers,
  none is freed twice, and sheep and second meshes are matched one to one.
- `OnlyKnownLeftovers`: a free slot keeps only the two buffers of a mob that
  `clearAllEntitys` forgets.
- `CountTrue`: `usedEntitys`, kept by hand, is the number of slots in use.
- `FoodForEveryBirth`: young and fed mobs together never exceed the feedings,
  although a slot's `isFed` outlives its mob.

### `WorldFiles`

The files of every slot (`disk`), the list of worlds (`gameData` and its copy in
memory) and what the game keeps in memory (`mem`). A handler puts its file
operations into `todo` in the order of the code, `Work` does the first, and
`Crash` is a reset between any two: memory and `todo` are gone, the files stay.
The content of a part (blocks, what the player carries) is a *stamp*: the world
it was made for, the moment, and whether its old water has been replaced; a
mixture or a misreading of formats shows as a stamp that belongs elsewhere. A
file has the size it was created with, and `grows` leaves open whether a write
past its end extends it. The world found at the first boot may be of any version,
a newer one included, whose files are of the form `newer`.

| code | model |
|---|---|
| `saveAllChunk`, `saveWorldData`, `savePlayerData`, `saveChestData`, `saveEntityData`, `savegameData` | sequences of `create`, `delete`, `fit` and `write` of the same names |
| `saveCompressedChunk` over an existing file | `Fit`: deleted and made again if the content needs another size |
| `loadAllChunk` with its two conversions and its refusal of newer worlds | `loadAllChunk(version)`, `ConvertTo4`, `ConvertTo5`, `deleteOldWorld` |
| `loadPlayerDataV4`, `loadChestDataV4`, `loadChunk` | `LoadOld`: the extra part keeps what was in memory |
| buttons of the selection, creation, edit and game menus | `OpenWorld`, `CreateWorld`, `DeleteWorld`, `RecoverWorld`, `EditWorld`, `ConfirmEdit`, `SaveWorld(quit)`, `QuitWorld` |

`WorldChunks` is the number of chunks of a world (64 in the code); `ForChunks`
repeats the operations of the loops over them. Two ghosts: `saved[w]`, the
contents that the files of a world may hold, and `begun[w]`, the saves of it
begun since the last that ended.

- `DiskSound`: at every moment, also in the middle of a save and after a reset,
  no more files of a world disagree with every content that may be there than
  saves of it were cut off since the last that ended (`SavingRisksOneFile`: a
  reset costs one file), a file is cut short only where a creation or a
  conversion wrote over an old one (`SaveMendsChunks`), and chunks are written in
  the format the list says (`SavesInCurrentForm`).
- `LoadsWhatWasSaved`: opening a world reads what the last finished save,
  creation or conversion put there, but for as many files.
- `NothingFromAnotherWorld`: player, mobs and blocks of one world never reach the
  files of another, though all go through the same memory.

A world of a newer version is refused (18318): of its files nothing is read, but
the player enters it all the same (23304), with what is in memory, and a save there
writes over its files and lists it as version 5. `saved` of such a world is empty
until that save is done, so what is promised of it is that the program leaves it
alone before, and that it is a world like any other after.

What these leave out on purpose, because the code does not keep it: chest
records, block data and the hp of the hotbar are not cleared between worlds and
do reach the next one; a missing `worldData` keeps the info of the world before
(17213); a creation interrupted after the list of worlds was written (23514), and
a conversion interrupted after its deletions (18364), lose the world. `saved` is
empty there. Recovering marks any world as version 0 (23708), so a present one
is misread; editing marks an unconverted one as 5. The writers of raw chunks are
never reached. A single write is taken to be atomic.

### `Chunks`

Which chunks have a mesh, around a player who walks, edits, changes the settings,
and enters and leaves worlds. `update` is one slice of the timer: the turn of
chunk `currentChunkUpdated` (`Visit`, with `Unload` and `Load`), `loadInChunks`
the loading of the spawn area, `LeaveWorld` `clearAllChunks`, `Edit`
`updateChunkV2`. `Vertices` and `Triangles` are the sizes of a mesh by its faces. A
mesh is its two sizes and the state of its buffers; `MobMade` and `MobGone` add to and take from the counters the mobs share.

- `MeshesSound`: no live mesh is overwritten and none freed twice
  (`HeapCareful`); the vertex and triangle counters, of which unloading subtracts
  each from the *other* (28128), keep the right sum (`SumOfCounters`);
  `activeChunks` is right (`ActiveChunksCounted`).
- `StaleOnlyIfMarked`: a mesh shows the blocks as they are or is marked.
- `RangeIsShownAtLast` (liveness): once the player stays, exactly the chunks in
  range have a mesh, and each shows its blocks.

The ghosts `stray` and `outside` name the two cases in which this fails: editing
or updating a chunk without a mesh frees twice (20139), and frames on screens 15
and 19 outside a world (28205) make empty meshes that the next world counts
again and may keep. `compressVertices` switched in the title's settings marks
nothing, which is harmless because no chunk is loaded then.

### `BlockMap`, `Redstone`, `Fluids`, `Plants`, `UpdateMap`

`updateMap` (20852-22344). `BlockMap` has the blocks, the data byte (bit 7
`strong`, bit 6 `weak`, the value) and what a pass marks; the next three have one
action per kind of block; `UpdateMap` composes them into the round: `StartChunk`
(the next chunk in range), `Scan` (one block, from the top down, as the blocks
are *now*), `Store` (the marks), `UpdateWires` (one sweep of up to sixteen),
`Redraw` (the fluids, then the mesh of this chunk only). Between rounds the
player uses levers and buttons, breaks and places. Random growth and decay may
happen or not; a tree has one height and wheat two stages.

- `MapSound`: a quarter second visits each chunk in range once
  (`RoundVisitsRange`); at every block of every pass the two halves of a door are
  there, agree, and stand as they were built or a quarter further (`DoorWhole`);
  and between updates the meshes show the blocks, but for cells another chunk's
  update changed or a blast put back (`ShownAtRest`). Two things part a door, so
  `DoorWhole` leaves them out: tnt whose ball holds one half only, and a fluid
  that dries above the door, which raises the upper half's data when its low
  four bits are 0 (21618), that is, when the door is shut at rotation 0.
- `ComesToRest` (liveness): fluids, plants and circuits come to rest, and each
  part of a circuit ends as its neighbours demand (`SignalsSettle`, with the wire
  levels against their definition as the only solution).
- `LavaMoves` (liveness).
- `NoCropLost`: wheat goes only where the player broke the soil below it
  (`broken`), where tnt that was there at the start reaches it or its soil
  (`Mined`), or where a sapling below it may grow.

A world of the run, and of the theorems, is one a player can have built
(`SoundLayout`): wires at level 15 or less, both halves of every door with the
same data, crops on soil. A range that reaches beyond the last column makes the
code take a chunk of the next row for the column that is not there (20891); then
`RangeCovered` asks for a world of air, in which such a pass updates nothing. So
the rounds are checked and proved at every edge, and the updates wherever the
range ends on the map; what a pass over the wrong chunk does to blocks is not.

Found while modelling, and kept in the actions: a pressed button never comes out
(20994 counts down, 21007 stores the old value; `ButtonReleases`); a lamp that
burns stays weak for ever when the wire above dies (22296); grass below a block
is set to grass (22028); the seed of lost wheat appears at a tenth of its place
(21974); tnt looks for its wire in chunk 0 (21513); a dried fluid raises the data
of whatever is below (21618, 21700, 21777, 21870); the signal a dead torch takes
back is stored without its mark (21099); two levers on a block overwrite each
other; breaking a wire frees the block below only if it is grass (18980); a
torch or repeater that turned before it was blown up in the same pass is stored
after the blast and so comes back, where the mesh shows air (20824, 22137); a
block placed into a source keeps its bit; explosions keep data and, near the
bottom, write at negative indices (20823); a fluid that flows into a neighbouring
chunk does not redraw it; an update with new textures only goes by the faces the
mesh had (20541, 20612); a render distance of two or more beside the last column
visits a column 8 (20879-20890); lava is starved where the number of chunks in
range shares a factor with six (21559). Blocks in row and column 0 are not seen
by most rules; the worlds of the run keep off the edge.

### `Lighting`

The light of the whole map (`loadLighting2`, level by level), of one chunk
(`updateChunkLighting2`, over the light of the others), and the meshes: which
faces a scan finds, in its order, each with the light of the cell before it
(`Built`), and a refresh that writes the i-th face it finds into the i-th place
(`Refreshed`). Actions: `PlaceBlock`, `DestroyBlock`, `MakeExplosion`,
`UpdateLamp`, `SkyMoves`, `ToggleLighting`, `Unload`, `Build`.

- `LightSound`: a mesh lists the faces its blocks have now (`MeshIsItsBlocks`);
  no chunk has less light than its own sky and torches give (`OwnLight`); without
  lighting all faces are as bright as the sky (`FlatWithoutLighting`).
- `WritesWithinMesh`: a refresh stays inside the mesh it writes to.
- `LightFollows`: after a new sky the light is the reference definition
  (`LoadIsExact`) and reaches every mesh (`ShowsAllLight`).

The ghosts name what fails: a block broken or blasted at the border of a chunk
does not rebuild the neighbour (`strained`), leaving a hole, and the next refresh
there writes more entries than the mesh has (20638ff); explosions refresh chunks
they have yet to build (20829-20850, excepted in `WritesWithinMesh`); a block
placed in the far corner of a chunk (offsets summing to 16 or more, 22705) does
not light its own chunk (`behind`). Light of several chunks relit in turn is lost
at their borders, and at night a lamp's 16 spreads only `skyBrightness - 2`
levels (22537), which is why `OwnLight` compares with the chunk's own light and
`LoadIsExact` has the sky in it.

### `Screens`

Twelve screens, one cursor. A frame goes through the screens in the order of
`makeUI`; the screen `UIState` names samples the keyboard (`keyupdate`) and
handles the keys that went down, and may make a later screen current in the same
frame. `ui` is a record because a handler passes it from key to key
(`Handled` folds `OnGame`, `OnList` or `OnBag` over the keys of the sample).
`KeySets` is the sets of keys that may be down at once; the run takes some pairs,
the proofs any sets (`KeySetsAssumption`).

- `BagsSound`: the cursor is in the screen (`CursorInScreen`), a swap exchanges
  two cells of the same screen (`SwapsWithinBag`), and table recipes are only for
  an open table (`TableOnlyWhileOpen`).
- `WorldsSound`: exactly the screens of play have a world in memory, it is saved
  to its own slot, and the delete mode does not outlive the selection.
- `HeldKeysDoNothing`: no key acts unless it goes down, however often a frame
  samples.

`strayed` ends a behaviour where the code loses track: KEY_PLUS opens the texture
packs from anywhere with a stale way back (25488), which can lead to the game
menu without a world and a save of empty blocks over the last one; a chest lost
from sight returns to play with a picked slot (24666, 25183); MENU with LEFT,
RIGHT or EXE in one sample moves the cursor after the bag closed; MENU with SHIFT
keeps the mode. The crafting cursor may stand on the row after the last, where
the code reads recipes 57 to 59 (24696); `CursorInScreen` allows just that row.
The keys 2 and 3 of the controls document do not exist; mode 1 deletes though its
comment says overwrite (22923).

### `Raster`

A frame: faces of chunks, of mobs, faces with holes, water, and cracks, drawn
through a z-buffer that is cleared behind the frame. `PlainCells` and
`TexturedCells` are the two families of triangle routines, with the exchanges,
the 14-bit edges, the rounding and the clipping of the code. A textured triangle
without an area is left out; `renderTriangleTexturedNBPX2T` alone takes the area
from shorts (`crossVec2S`, `ShortCells`). The twenty routines
are compositions of them with `Solid`, `BlackTrans` and `Trans`, in whole pixels
or squares of two. Screenshots and settings change between frames.

- `FaceWhole`: the two triangles of a face cover exactly a reference definition
  of the face, and share no cell.
- `NearestShown`: every cell shows the nearest face in its own light behind the
  water that is nearer, whichever loop drew it and in every setting.
- `DepthsSound`: depths are clear before a frame (`DepthsStartClear`), and nothing
  is drawn outside the screen but one row below it (`OutsideOnlyBelow`).

Kept and named in the model: a screenshot builds its bitmap in the z-buffer
(18646; `shot`); squares leave a row that is not cleared when `pixelSize` goes
back to 1 (`switched`); textured routines never draw row and column 0; a face
whose corners are all beyond one side of the screen, or on both sides of it, is
dropped; cracks go over nearer water; faces with holes are drawn from behind too.
The shorts of `crossVec2S` wrap when corners lie more than 3276 pixels apart, and
the area may then come out as 0 where it is not: the triangle is missing, and
`FaceWhole` does not hold (the face with corners (-3000, 0), (3554, 1), (-2998, 5),
(-2999, 3) is one). The corners of the run stay below that; that the area of the
other routines wraps beyond 2^31 is left out.
`transQuads` and `waterQuads` have no bound check (28866-28873, 28909).
Projection is an input, a texture is the set of columns where it is empty, the
sky covers the screen, and overflow of texture coordinates is left out.

### `Items` and `Survival`

`Items` is the tables: items with their tool and block, blocks with the tool and
level they ask for and what they drop, recipes. `Survival` is what handlers make
of them: `DestroyBlock`, `Craft`, `UseFurnace`, `PlaceBlock`, `UseHoe`, `Shear`,
`MobDies`, `UpdateMap`, in a world that `loadPerlin` made from its terrain and
heights. What was had once can be had again, so amounts and places are left out,
and the state is the set of things had and the set of blocks that stood.

- `LadderSound`: a player has nothing a step earlier than the ladder written down
  by hand in the module says (`OnlyTheLadder`), and not without the tool in
  between (`LadderInOrder`).
- `EverythingAtLast` (liveness): a player who goes on comes to have everything
  the world holds the means for.

Noted on the way: item 26, the diamond pickaxe, is named an axe (9842); a lever
costs cobblestone and a stick, not a plank as in `doc/recipes.txt` (12119); items
that are no blocks can be placed and vanish; glass never comes back; a flat
survival world gives dirt and grass only.

## 3. The runs

| run | bounds | shows |
|---|---|---|
| `inventory_craft` | 2 hotbar slots, 1 behind, 1 in the chest, stacks of 2, one entity slot | types, stacks, exact crafts, pick-ups kept, swaps only rearrange, nothing repairs a tool |
| `inventory_use` | 2 hotbar slots; hoe, shears, wheat, food, eggs, furnace | selection, hp, where half-cleared slots come from |
| `daynight_worlds` | a day of 12 s, 1 world, 2 days, all actions | types; table and clock over saves, loads and new worlds; daylight without the cycle; new worlds start at half; nights end |
| `entitypool_worlds` | 3 slots, sheep and items, any number of worlds | buffers, pairs, leftovers, counter, and that the pool implements a herd |
| `entitypool_pigs` | 3 slots, pigs and their meat, 2 feedings | food for every birth |
| `worldfiles` | 2 slots, 2 chunks, a first world of version 0, 3, 4, 5, 6 or none, 2 contents, 1 reset | the medium is readable at every moment, loads read what was saved, worlds stay apart |
| `chunks` | 4 chunks, distance 0 or 1, 1 face, 4 steps of the player | meshes, counters, marks, and that the range is shown at last |
| `updatemap` | sixteen worlds on 3 x 3 chunks of 2 x 2 x 4, and empty ones with the player at each edge, ranges beyond the last column included | doors, rounds, meshes; circuits, fluids and plants come to rest; lava; crops |
| `lighting` | 2 x 2 chunks of 3 x 3 x 3, light of 5 levels, 3 changes, two worlds | meshes, light, refreshes |
| `screens` | 3 columns, 15 recipes, 11 items, 2 worlds, 2 texture packs, one or two keys at once | cursor, swaps, worlds, keys |
| `raster` | a screen of 6 x 4, up to three faces out of nine in any order, a mob, cracks; all quads over a grid of corners in and around the screen | cells of a face, nearest face, depths |
| `survival` | every maximal wish of items; flat, old, drowned, hilly worlds, and a full one with each sought thing lacking | the ladder, and that all of it can be climbed |

Every property has a mutated definition beside the one it mutates (the comment
`Mutant:`): a plausible slip under which TLC finds the property violated.

Properties that state several things are conjunctions of named parts
(`PoolSound`, `DiskSound`, `MapSound`, ...), with `TypeOK` among them; TLC can be
asked for a part alone by naming it in the configuration.

Why the bounds suffice.

- Every inventory operation touches at most two slots besides the slot in hand,
  and scans in order; two hotbar slots and one behind give each pass of
  `addItemToHotbarInventory` a first and a later candidate. Stacks of two reach
  the limit in a few pick-ups; tools last one or two uses.
- A scaled day keeps the order of dawn, dusk and night, the dawn one second
  shorter than the dusk, and the brightness reaching both ends of its table; so
  the drift of the shared counter appears after as many days as a step has
  seconds, which is the bound on `days`. With the real numbers that is ten days.
- Three entity slots hold a sheep and one thing more, so that its two slots can
  be apart, in either order, and the pool can be full. `Made` divides the kinds of
  entities between the two runs. `LastSlotSheep` FALSE leaves out the sheep that
  finds one slot and not two; that no loaded sheep meets that case is what the
  deadlock check of `entitypool_worlds` shows.
- Two slots of worlds are one that is played and one it could be confused with;
  two chunks are one written and one not yet; two contents are an old and a new
  one. A second reset only repeats the first, as the files are all that is left.
- Four chunks with distance one are a chunk in range, one that leaves it and one
  that enters it; a face or none is a mesh that has buffers or not.
- The worlds of `updatemap` have one kind of interaction each, across a border of
  chunks. Chunks of two by two make the order of the scan and of the chunks
  matter as in large ones. Those of `lighting` put a roof, a lamp and a far corner
  where chunks meet.
- Three columns and fifteen recipes keep both sides of the bag and two rows to
  scroll; two worlds a right and a wrong slot. Pairs of keys are those that one
  sample can bring to two handlers.
- The corners of `raster` include every side beyond the screen and both parities
  of rows; three faces are one behind, one before and one between.

`CHECK_DEADLOCK FALSE` stands where a behaviour really ends: when the bound on
changes is used up and everything is loaded (`MCChunks`, `MCLighting`), when no
chunk is in range (`MCUpdateMap`, distance 0), when the player has all he wants
(`MCSurvival`), and where `Screens` stops following a screen that was left with
a stray cursor (`MCScreens`).

### Fairness

- `DayNight`: `WF_vars(Second)` in `FairSpec` (`Second` is `Tick` with the
  history unchanged). The main loop calls the branch whenever a second has passed
  (28203, 28254) and nothing in a world's screens blocks the loop.
- `Chunks`: `WF_vars(update)` and `WF_vars(loadInChunks)`; every frame of a world
  comes to `update`, and entering a world calls `loadInChunks` (28102-28174).
- `UpdateMap`: `WF_vars(Update)`; the timer of the quarter second (20852) never
  stops while a world is open.
- `Survival`: `WF_vars(Next)`; every step brings something new, so this is an
  assumption about a player who goes on as long as there is something new to be
  had, and about the random updates of the map, which happen at last.

Elsewhere nothing is assumed: the other modules state safety only, and of the
player nothing is assumed outside `Survival`.

### Statements that do not hold

The modules state more that a reader of the code or its documentation would
expect. Each of these is false; TLC shows it when the statement is added to the
configuration named here.

- `SmeltingCostsOneInput`, in `MCInventory_use.cfg` (27803, 27816): the furnace
  chooses by `blockSelected` and pays from the slot in hand; eating does not
  refresh `blockSelected`, so the last raw pork can be eaten and then smelted.
  `doc/recipes.txt` says one raw pork for a cooked one.
- `CraftGivesOutput`, in `MCInventory_craft.cfg` (24710): ingredients are removed
  first; if no slot takes the whole output, it is dropped silently. `CraftIsExact`
  shows that this is the only way to lose it.
- `ToolLastsBreaksIn`, in `MCInventory_use.cfg` with `Items = {hoe, plank}` and
  `InitiallySelected = plank` (27841, 18916): one place breaks a tool *before* use
  at 0 hp, the other *after* decrementing to 0. Mixed, a hoe skips 0 and never
  breaks.
- `SkyInTable`, in `DayNight_worlds.cfg` with `MaxDays = 3` (28266, 28284): 138
  seconds brighten, 139 darken, and they share a counter; on the eleventh real day
  the sky is a step too dark and its index is -1. Sleep and leaving reset it.
- `EditKeepsSkyInTable`, in `DayNight_worlds.cfg` (23697): switching the cycle on
  resets the time to the moment of half brightness and keeps full brightness.
  `doc/new features.txt:28` reports this as fixed.
- `NothingLost`, in `EntityPool_pigs.cfg` (22420): `clearAllEntitys` frees four of
  a mob's six buffers. `doc/new features.txt:17` reports a leak with mobs as
  removed.
- `PoolSound`, in `EntityPool_worlds.cfg` with `LastSlotSheep = TRUE` (27153):
  `extraEntity` is written only if a second slot was found. The death of that
  sheep frees the buffers of the slot it names, which are freed again when their
  owner goes and trip the assertion at `src/src/tlsf.c:1189`.
- `KeysActOnTheLiving`, in `EntityPool_worlds.cfg` with `MaxFeeds = 1` (28207,
  27972): the mob the player looks at is found before the mobs are updated; a
  sheep that dies in the frame can give its fleece twice.
- `SheepFoundFirst`, in `EntityPool_worlds.cfg` (27447): on loading, a second mesh
  takes the first free slot, which may be before its sheep's; `updateEntityReach`
  then finds the mesh, which can be neither fed, sheared nor hit.
- `FurDropsWool`, in `EntityPool_worlds.cfg` (26375): in a full pool the fleece of
  a dying sheep finds no slot. `doc/new features.txt:19` says it is dropped.
- `ButtonReleases`, in `MCUpdateMap.cfg` with `Layouts <- TheButton` (21007): a
  pressed button stays pressed.

## 4. What is proved

All theorems hold for every value of the constants that satisfies the named
assumptions of the module (`SizesAssumption`, `ItemsAssumption`,
`RecipesAssumption`, `SpentItemsAssumption`, `ClockAssumption`, `PoolAssumption`,
`ChunksAssumption`, `ScreensAssumption`, `KeySetsAssumption`,
`WorldFilesAssumption`, `MapAssumption`, `LevelAssumption`, `TreeAssumption`,
`WorldsAssumption`): every inventory size, stack limit, item table and recipe
table; every length of the day, of dawn and of dusk, any set of worlds; every
number of entity slots; every size of the map and every render distance; every
number of columns, every number of texture packs the program finds (0 to 5), any
keys down together; any number of slots for
worlds, of chunks, contents and resets; every set of worlds a player can have
built, and every size of blast and of tree. Where a theorem needs more, its `ASSUME`
says so.

`Sums` has what the others need of sums over finite sets. The library's
induction theorems take an operator as a parameter, which no installed prover
can instantiate; `SubsetInduction` and `NumberInduction` state the same with a
*set* in its place (a set of subsets that has the empty one and grows by
elements has every finite one; a set of numbers that has 0 and every successor
has all), and rest on the minimum that a well-founded order has (`WFMin`). With
them: a sum does not depend on the order, a step changes it by what its
summands change, a recursive function on numbers equals its unfolding.

`InventoryProofs`:

- `TypeCorrect`, `StackLimitCorrect`, `SelectionCorrect`, `HpCorrect`.
- *Argument.* The operators come first: `MinIsMember` and `PlaceForFits` say that
  a place that was found has room, `AddedType` what `Added` keeps, `ConsumedType`
  that a slot is only shrunk or emptied, whatever `Left` computes (so nothing
  about the recursive function is needed). `StackLimitHolds` is then inductive
  with `TypeOK`. The selection and hp theorems need a strengthening. A slot's hp
  is bounded by what a *new* tool of its type has, but the type can vanish
  (eaten, broken, quit) and another can come; and which item the program takes
  hp from is decided by `blockSelected`, not by the slot. So `IInv` is
  `Sound(slots)`: every slot's hp is within its type's, and a slot without a type
  that still counts items holds none; and `Tied(slot in hand, blockSelected)`:
  the slot in hand holds what `blockSelected` names, or has just lost it and
  holds no more hp than that item. Each stage of `UseItem` preserves the pair,
  hence their composition does.
- `SpentItemsAssumption` (what furnaces and mobs take is no tool) is needed:
  without it the furnace could empty a slot with hp left.

About what one step may do, from `TypeCorrect`:

- `RearrangeCorrect`: swapping two places is a bijection of the places that hold
  a given stack before and after (`SwapCounts`), so no stack is lost or copied,
  whatever the sizes; every other step on the chest screen leaves the slots alone
  or is the player's death.
- `JunkCorrect`: `TidyPut` says when one slot may be replaced, `WornIsTidy`,
  `OneLessIsTidy` and `EmptiedIsTidy` what the program replaces it by, and
  `ShearTidy`, `FeedTidy`, `RestTidy` carry tidiness through the stages of
  `UseItem` in their order: feeding decides by `blockSelected`, which shearing has
  just refreshed, or which the hypothesis `~EmptyHandUsed` ties to the slot.
- `PickUpCorrect`: a pick-up changes one summand of the total of an item, and by
  the amount that left the ground.
- `CraftCorrect`: `Left` is unfolded by `NumberInduction`: what is left to take
  at a place is what was asked less what the places before it hold, or 0; so
  taking an item changes its total by exactly the amount (`ConsumedTotals`), and
  the totals of the others not at all. Needs `RecipesAssumption`, without which
  one total would show neither what was taken nor what was made.
- `WearCorrect`: `NothingRepairsATool`; a slot from which nothing is taken is the
  same slot, which again needs `Left`, and what a recipe makes never lands on a
  slot the recipe takes from, which needs `RecipesAssumption`.

`DayNightProofs`:

- `TypeCorrect`.
- `DaylightCorrect`: inductive with "the creation screen stands at `DayLength`";
  `used` only grows, so the hypothesis about the keys, once false, stays false.
- `NewWorldsCorrect`: an action property, from the invariant that outside a
  world the sky is the one a world starts with - which is exactly what the edit
  screen breaks, hence the hypothesis on `used`.
- `SkyCorrect`: `SkyKept` under `RealClock`, that is with the numbers of the
  program (a day of 1200 seconds, dawn from 1140 to 80, dusk from 520 to 660, a
  step every 10 seconds, 16 brightnesses) and at most ten days without sleep or
  leaving, as long as no world was edited and no debug key used; on the eleventh
  day the property fails (`SkyInTable` above).
- *Argument.* Dawn has 138 seconds and dusk 139, and they share a counter, which
  so loses 3 a day. `NoonSky`, `NoonChange`, `NightSky` and `NightChange` give
  brightness and counter of every noon and night of the ten days; `Counted` says
  that between them brightness and counter together count the seconds of the
  phase, `SecondCounted` that a second keeps this, and `SkyInv` says it of the
  world in memory and of every file.

`EntityPoolProofs`, for every number of slots (`PoolAssumption`):

- `TypeCorrect`.
- `PoolSafe`: `PoolSound`, that is `BuffersHeld`, `NoDoubleFree`, `SheepPaired`
  and `OnlyKnownLeftovers` together, under the hypothesis `~LastSlotSheep`; the
  sheep without a second slot (above) shows that it is needed.
- *Argument.* None of the four is inductive alone: that a dying sheep frees no
  buffer twice needs its second mesh to be its own and to have its buffers; that
  a picked up item leaves nothing behind needs that its sixth buffer was not
  live when it was made. `Sound(B)` states them together for a set `B` of
  entities that are built, and `IInv` takes `B` to be all of them, or, while a
  world is being loaded, those the loop has come to; it adds that a menu has no
  entities and that a file holds no second meshes. `TwoFree` says what two
  searches find, `OneMade` and `TwoMade` that slots outside `B` can be taken,
  `DepartedSound` that entities can go if sheep go with their meshes,
  `ClearedSound` what leaving does, `LoadGoesOn` how `B` grows. Each action is an
  instance of one of them.

The second part of `EntityPoolProofs` rests on it:

- `HerdImplemented`: the pool implements `Herd`, under `~LastSlotSheep`. The
  mapping shows a slot as what stands in it; `Stutters`, `Appears`, `Departs` and
  `Shears` say which changes of the slots are which step of a herd, and every
  action is an instance of one of them. `IInv` is needed where two slots change
  at once, a sheep and its second mesh, and for the file, in which no second
  meshes may stand.
- `FoodCorrect`: births and fed mobs together never exceed the feedings. The
  strengthening counts the mobs that are still fed: mating takes from it, and so
  do death and the reuse of a slot.
- `CountCorrect`: `usedEntitys` is the number of slots in use, also while a world
  is being loaded, where it counts those the loop has come to.

`ChunksProofs`, for every size of the map, every render distance and any number
of faces:

- `StaleCorrect`, and `MeshesCorrect` for `MeshesSound`, with its parts
  `HeapCorrect` for the buffers and `CountCorrect` for `activeChunks`.
- *Argument.* `UpdateCases` says that a visit of the cycle to a chunk does
  nothing, unloads it, loads it, or renews its mesh. `IInv` relates for each
  chunk the four things that say whether it has a mesh: `chunk2DActive`, the
  mesh's own flag, its sizes and its pointer (`HeapInv`), and counts them
  (`Counted`); `UpToDate` is the property, with that no chunk is active
  while no world is open, and `NoWorld` says that outside a world no block shows a
  face, so that a frame that runs there makes empty meshes without buffers.
- The counters (`CountersInv`): their sum is the sum over the active meshes
  (`Sums`). Unloading takes the triangles from the vertices and the vertices from
  the triangles, so only the sum of both can be kept, and only because the chunk
  unloaded is one that had been added (`Careful`); loading adds everything up
  anew.

`ScreensProofs`, for any numbers of columns, items, recipes and worlds that fit
`ScreensAssumption` (at least two rows of items, and recipes that scroll as far
as they do), and for any set of keys down together:

- `BagsCorrect`, `WorldsCorrect`, `KeysCorrect` for `BagsSound`, `WorldsSound`
  and `HeldKeysDoNothing`.
- *Argument.* A frame is a chain of handlers over one record `ui`. Its types
  (`UIRec`) are kept even after a screen has strayed, so they come first. `At`
  says that screen `s` is shown with cursor, picked cell and world in order,
  `Ready`, `Front` and `Open` what a screen that was left makes of them for the
  next. The keys of a sample are handled one after the other, each on what those
  before it have done (`Done`), so the three are carried along this sequence, for
  any set of keys. A screen leaves them only in the ways `Strays` lists: each is
  one of the places named under `Screens` above, and from there on nothing but
  the types is promised.

`WorldFilesProofs`, for any number of slots and of chunks, any number of contents
and resets, and whatever version the first world has, be it newer than the
program's:

- `TypesHold`, `WorldsStayApart`, `FilesStaySound` and `OpensWhatWasSaved`, that is
  `TypeOK`, `NothingFromAnotherWorld`, `DiskSound` and `LoadsWhatWasSaved`.
- *Argument.* What is on the medium in the middle of a handler is only right
  because of what the handler will still do. So the invariant speaks of `todo`,
  and since that has no bounded length, only through four words about sequences:
  `Has` (an operation is there), `Then` (each of these is followed by one of
  those), `First` (each is preceded by one) and `Never` (none follows). The
  lemmas about them say what they are of a tail and of two sequences joined;
  everything after goes by them, and `ForChunks` is opened twice only, for one
  operation and for two. `IInv` has, beside the types:
  - `Script`: the rest of every handler is in order. A change of the version is
    followed by the saving of the list, a conversion reads nothing and ends with
    its promise, what is deleted is written again;
  - `Listing`: the list in memory is that of the medium or about to be saved; the
    world in play is on it, at version 5 or about to be, or it was refused and is
    left alone or being saved; no chunk is written before the version;
  - `NewerThere`: a world at a newer version has its file of entities, so that only
    entering it, and not a missing file, leaves them unread;
  - `Apart`: what leaving clears and loading fills (player, mobs, blocks) is
    blank or of the world in play;
  - `Kept`, for each world: the snapshots in `saved` and the list agree on the
    formats, every file but a chunk holds what one of them says, and of the
    chunks no more are lost than saves were cut off, the chunk that a running
    save is busy with not counted (it may be deleted and not yet written);
  - `Writing`: a write finds its file; what a promise will say of a file is
    already there or still to be written; a save has its snapshot in `saved`
    before it starts and only writes chunks to files made for them; nothing is
    changed while a world is still being read;
  - `Reading`: while a world is loaded, what is not read yet will be, by the
    reader for its version, and what is read is in memory.

  Each part is needed for another: `Kept` at a promise rests on `Writing`, the
  latter on the order in `Script`, `Reading` on `Kept` for the formats. TLC checked
  `IInv` on the instance of the run and on one with a single world before any of
  it was proved. The hypotheses are those of the module alone.

`UpdateMapProofs`, for every size of map, chunk, blast and tree, every world that
is sound (`SoundLayout`), and every place and render distance of the player that
`RangeCovered` allows in it:

- `MapStaysSound` and `NoCropIsLost`, that is `MapSound` and `NoCropLost`, from
  `MapInvariant`.
- *Argument.* What a pass marks is stored later, over whatever then lies there,
  so an invariant about the blocks has to speak of the marks. `MapInv` has,
  beside the types:
  - `NoneNew`: doors, wires, tnt and saplings are where they were at the start,
    soil is where there was soil, and without a fluid at the start there is none.
    Nothing turns into a door or into tnt, so what is safe at the start (`Mined`,
    `DoorSafe`, `CropSafe`) stays safe;
  - `Marks`: no mark lies on a block that lasts, so `Store` and `Redraw` replace
    no door, crop, soil or wire; a mark is of the chunk of the pass, is what a
    torch or repeater turns into or a fluid, and what it needs drawn is already
    in `redraw`. It is kept because each block is visited as it is *now*, and a
    block that has been marked can only turn to air before its mark is stored;
  - `Showing`: what a mesh does not show is in `foreign` or will be drawn at the
    end of this pass (`WillShow`): in full, or with new textures if its shape is
    the one the mesh has. Every kind of update has to ask for the right one;
  - `WireLevels`, `SweepLevels`: a wire holds at most 15, and a sweep has a level
    for each wire of its chunk. A sweep reads the new levels of the wires before
    and the old ones of those after it; that there is such a function at all is
    shown wire by wire in the order of the scan (`SweepExists`, by the
    `NumberInduction` of `Sums`);
  - `CropsStand`: a safe crop stands on soil that nobody broke. Soil turns to dirt
    only where no crop is above it, in the same pass that would lose the crop;
  - `DoorWhole` itself: a door turns and turns back by both halves at once, from
    its own data (`Turned`, `TurnedBack`);
  - `Rounds`: the chunks of this quarter second are those of the range that lie,
    counted row by row around the map, from the first to the last visited, each
    visited once. When their number is that of the range nothing is left out, and
    the next round starts anew.

  TLC checked `MapInv` on the sixteen worlds before it was proved; the attempt
  itself found the two ways a door comes apart, the torch a blast puts back, and
  the sapling below a crop, which the worlds of the run did not have then
  (`BlastWorld` and `DripWorld` of `MCUpdateMap` do now).

### Only model-checked

- Liveness (`NightEnds`, `RangeIsShownAtLast`, `ComesToRest`, `LavaMoves`,
  `EverythingAtLast`) is out of the prover's reach and stays with TLC.
- `LightSound`, `WritesWithinMesh` and `LightFollows`: a flood of light over the
  map and scans that make sequences of faces, whose lengths and order depend on
  every block. `MeshIsItsBlocks` is the part a proof could reach first.
- `FaceWhole`, `NearestShown` and `DepthsSound`: arithmetic with rounding over
  edges and cells, which the SMT backend does not decide with variable slopes,
  and which the run enumerates over a grid of corners instead.
- `LadderSound` is about one table, and false for others: its proof would be a
  case for each of 57 recipes and a hundred blocks. The run walks every way to
  every item through that table; what a proof would add is any mixture of
  heights in a world.

## 5. Plan

Done: all modules of section 2, with proofs of `Inventory`, `DayNight`,
`EntityPool`, `Herd`, `Chunks`, `Screens`, `WorldFiles` and the block updates.
Left, in order:

1. A proof of `MeshIsItsBlocks` of `Lighting`.
2. `ChestStore`: records against chest blocks, the first match, the limit of 32.
3. `Codec` (`compression.c`) as functions checked against the identity.
4. Mobs that walk and flee, on a grid instead of floating-point places.

## 6. Not modelled, and why

- *Player movement and mob walking*: floating-point positions, velocities and
  collisions; no discrete state worth checking is kept. What they decide (who is
  near, what is looked at, who dies) is a free choice in the modules.
- *Chest records*: left to the plan; the open chest is in `Inventory`, the file in
  `WorldFiles`, the chest that is lost from sight in `Screens`.
- *Projection, sprites, text and layout of menus*: pixels without state.
- *Perlin noise, the course of caves, the places of trees*: numeric; `Survival`
  takes the heights as given and every chance as taken or not.
- *Coordinates and textures of faces*: data of the meshes.
- *Compression, TLSF, LZ4*: a wrapper and two vendored libraries; `WorldFiles`
  keeps the one thing that matters of compression, that a chunk may need another
  size; `EntityPool` and `Chunks` the state of what was allocated.
- *Screen transfer, platform layer, texture packs and settings files*: hardware
  registers, system calls, parsing.
- Failing allocations: `tlsf_malloc` may return NULL on a full heap and the
  makers write through the pointer without asking (27094); the models let
  allocation succeed.

## 7. Running

    tlc -config MCInventory_craft.cfg MCInventory
    tlc -config MCInventory_use.cfg MCInventory
    tlc -config DayNight_worlds.cfg DayNight
    tlc -config EntityPool_worlds.cfg EntityPool
    tlc -config EntityPool_pigs.cfg EntityPool

and `tlc -config X.cfg X` for `MCWorldFiles`, `MCChunks`, `MCUpdateMap`,
`MCLighting`, `MCScreens`, `MCRaster` and `MCSurvival`. Each takes at most a few
minutes. The proofs:

    tlapm InventoryProofs.tla
    tlapm DayNightProofs.tla
    tlapm EntityPoolProofs.tla
    tlapm ChunksProofs.tla
    tlapm Sums.tla
    tlapm ScreensProofs.tla
    tlapm WorldFilesProofs.tla
    tlapm UpdateMapProofs.tla
