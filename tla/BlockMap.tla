------------------------------ MODULE BlockMap ------------------------------
(***************************************************************************)
(* The blocks of a world and their data byte, as updateMap                 *)
(* (src/src/eninge.c 20852-22344) sees them while it goes through a chunk: *)
(* what Redstone, Fluids and Plants share.                                 *)
(*                                                                         *)
(* A cell is <<x, y, z>>.  A data byte is a record: its bit 7 is strong    *)
(* (a block driven by a signal, or the source of a fluid), its bit 6 weak  *)
(* (a block below a live wire), v the bits below, packed as in the code:   *)
(*   lever   on + 2 * side              button  on + 2 * side + 16 * time  *)
(*   repeater and door  rotation (+ 4 * open)       wire, fluid  the level *)
(* The maps of the runs keep their blocks off the edge, where the code     *)
(* indexes the neighbour chunk or another row; beyond it is air here.      *)
(***************************************************************************)
EXTENDS Integers, Sequences, FiniteSets

CONSTANTS width,            \* of a chunk (code: 12)
          height,           \* of the map (code: 40)
          totalChunkWidth,  \* chunks in a row (code: 8)
          BlastRadius,      \* half the size of an explosion (code: 5)
          Reach             \* how far water wets farmland (code: 5)

ASSUME MapAssumption ==
    /\ {width, height, totalChunkWidth} \subseteq Nat \ {0}
    /\ {BlastRadius, Reach} \subseteq Nat

Pos   == (0..(width * totalChunkWidth - 1)) \X (0..(height - 1))
             \X (0..(width * totalChunkWidth - 1))
Chunk == (0..(totalChunkWidth - 1)) \X (0..(totalChunkWidth - 1))
ChunkOf(c) == <<c[1] \div width, c[3] \div width>>

Full == {"grass", "dirt", "stone", "leaves", "obsidian", "cobblestone", "tnt",
         "lampOff"}                                        \* blockType 1
Kinds == Full \cup {"air", "log", "water", "lava", "flower", "sapling",
                    "farmland", "wetFarmland", "wheat", "ripeWheat", "wire",
                    "torchOn", "torchOff", "repeaterOff", "repeaterOn",
                    "doorBottom", "doorTop", "lampOn", "lever", "button"}
canTransferRedstoneSignal(k) == k \in Full \cup {"log", "lampOn"}
canHoldRedstoneSignal(k) ==
    canTransferRedstoneSignal(k)
    \/ k \in {"wire", "torchOn", "torchOff", "lever", "button"}
canHaveGrassBelow(k) ==
    ~canTransferRedstoneSignal(k)
    /\ k \notin {"farmland", "wetFarmland", "wheat", "ripeWheat"}
Crop == {"wheat", "ripeWheat"}
Farmland == {"farmland", "wetFarmland"}

Bytes == [strong : BOOLEAN, weak : BOOLEAN, v : 0..63]
Byte(strong, v) == [strong |-> strong, weak |-> FALSE, v |-> v]
Zero == Byte(FALSE, 0)

VARIABLES
    blocks, blockData,
    chunk, at,            \* the chunk and the cell of it the pass is at
    redstoneData, updateRedstoneData,      \* data to be stored after the pass
    redstoneBlockData, waterMovementChunk, \* blocks to be stored after it
    redraw,               \* what of the mesh is to be updated: subset of
                          \* {"textures", "light", "full"}
    drops,                \* items the pass has thrown out
    drawn,                \* the blocks the meshes show
    foreign               \* ghost: cells changed by the pass of another chunk, or
                          \* put back after a blast, since their own was drawn

pending == <<redstoneData, updateRedstoneData, redstoneBlockData, waterMovementChunk>>

Plus(c, d)  == <<c[1] + d[1], c[2] + d[2], c[3] + d[3]>>
Minus(c, d) == <<c[1] - d[1], c[2] - d[2], c[3] - d[3]>>
Up   == <<0, 1, 0>>
Down == <<0, -1, 0>>
Straight == {<<1, 0, 0>>, <<-1, 0, 0>>, <<0, 0, 1>>, <<0, 0, -1>>}
AllSides == Straight \cup {Up, Down}
sidesRepeater == <<<<1, 0, 0>>, <<0, 0, -1>>, <<-1, 0, 0>>, <<0, 0, 1>>>>
allSidesLeverButton ==
    <<<<-1, 0, 0>>, <<0, 0, -1>>, <<1, 0, 0>>, <<0, 0, 1>>, Down, Up>>

K(c) == IF c \in Pos THEN blocks[c] ELSE "air"
D(c) == IF c \in Pos THEN blockData[c] ELSE Zero
\* Most of the code looks only at cells off the first row and column.
Seen(c)      == c \in Pos /\ c[1] > 0 /\ c[3] > 0
SeenAbove(c) == Seen(c) /\ c[2] > 0
Here == ChunkOf(at) = chunk
Near(c, d, r) == \A i \in 1..3 : c[i] - d[i] \in (-r)..r

Set(f, c, v) == [f EXCEPT ![c] = v]
\* Marks are functions on the cells that are marked.
MarkAll(marks, cells, v) ==
    [c \in DOMAIN marks \cup cells |-> IF c \in cells THEN v ELSE marks[c]]
Mark(marks, c, v) == MarkAll(marks, {c}, v)
Applied(marks, f) == [c \in Pos |-> IF c \in DOMAIN marks THEN marks[c] ELSE f[c]]
Draw(what) == redraw' = redraw \cup what
\* Cells the pass of this chunk changes in another.
Abroad(cells) == foreign' = foreign \cup {c \in cells : ChunkOf(c) # chunk}
=============================================================================
