----------------------------- MODULE UpdateMap -----------------------------
(***************************************************************************)
(* The blocks that change by themselves (src/src/eninge.c 20852-22344):    *)
(* four times a second every chunk within redstoneRenderDistance of the    *)
(* player is gone through, from the top down, each block by the rules of   *)
(* Redstone, Fluids and Plants; then what was marked is stored, the wires  *)
(* find their levels, and the mesh of the chunk is updated.  One step is   *)
(* one block, one sweep over the wires, or what follows them.              *)
(*                                                                         *)
(* Between the passes the player uses levers and buttons and breaks        *)
(* blocks.                                                                 *)
(***************************************************************************)
EXTENDS Redstone, Fluids, Plants

CONSTANTS Layouts,   \* the worlds to start in: [blocks, data, player, distance, ...]
          MaxSweeps  \* code: 16

\* The range ends on the map, or nothing is beyond its last column: a pass
\* there is over a chunk of the next row (20891), at positions off the map,
\* which does nothing where all is air.
RangeCovered(l) ==
    \/ l.player[1] + l.distance - 1 < totalChunkWidth
    \/ /\ \A c \in Pos : l.blocks[c] = "air"
       /\ l.uses = 0
       /\ l.player[1] + l.player[2] + l.distance < 2 * totalChunkWidth

\* A world as the player leaves it: wires, doors and crops as they are placed.
SoundLayout(l) ==
    /\ l.blocks \in [Pos -> Kinds] /\ l.data \in [Pos -> Bytes]
    /\ l.player \in Chunk /\ l.distance \in Nat /\ l.uses \in Nat
    /\ RangeCovered(l)
    /\ \A c \in Pos : l.blocks[c] = "wire" => l.data[c].v <= 15
    /\ \A c \in Pos : l.blocks[c] = "doorBottom" =>
          /\ Plus(c, Up) \in Pos /\ l.blocks[Plus(c, Up)] = "doorTop"
          /\ l.data[Plus(c, Up)].v = l.data[c].v
    /\ \A c \in Pos : l.blocks[c] = "doorTop" =>
          Plus(c, Down) \in Pos /\ l.blocks[Plus(c, Down)] = "doorBottom"
    /\ \A c \in Pos : l.blocks[c] \in Crop /\ c[2] > 0 => l.blocks[Plus(c, Down)] \in Farmland
ASSUME WorldsAssumption ==
    MaxSweeps \in Nat /\ \A l \in Layouts : SoundLayout(l)

VARIABLES
    layout,                                \* the world it started in
    chunkXMapRedstone, chunkZMapRedstone,  \* where the round through the chunks is
    currentRedstoneChunk,                  \* updates done in this quarter second
    cycle,                                 \* updates so far, modulo 6
    phase,         \* "rest", "scan", "store", "wires" or "draw"
    level, sweeps, \* of the wires in this pass
    uses,          \* bound: what the player may still do
    broken,        \* ghost: the cells the player broke
    visited        \* ghost: the chunks updated in this quarter second
vars == <<blocks, blockData, chunk, at, redstoneData, updateRedstoneData,
          redstoneBlockData, waterMovementChunk, redraw, drops, foreign, updated,
          layout, chunkXMapRedstone, chunkZMapRedstone, currentRedstoneChunk,
          cycle, phase, level, sweeps, drawn, uses, broken, visited>>
round   == <<chunkXMapRedstone, chunkZMapRedstone, currentRedstoneChunk, cycle, visited>>
shown   == <<drawn, foreign>>
outside == <<layout, updated, uses, broken>>

abs_int(n) == IF n < 0 THEN -n ELSE n
InRange(x, z) == abs_int(x - layout.player[1]) + abs_int(z - layout.player[2])
                     <= layout.distance - 1
chunksToUpdate == Cardinality(updated)

-----------------------------------------------------------------------------
(* The round through the chunks.                                           *)

\* Mutant: the round starts anew with every update.
NextChunkAnew(p) == CHOOSE q \in updated : TRUE
\* The next column the round comes to (20879-20890): only a skipped column is
\* wrapped, so that the column after the last is not skipped if it is in range.
NextChunk(p) ==
    LET i == IF p[1] < totalChunkWidth THEN p[2] * totalChunkWidth + p[1]
             ELSE (p[2] + 1) * totalChunkWidth
        cell(n) == <<(i + n) % totalChunkWidth, ((i + n) \div totalChunkWidth) % totalChunkWidth>>
        found(n) == InRange(cell(n)[1], cell(n)[2])
    IN  IF InRange(p[1], p[2]) THEN p
        ELSE cell(CHOOSE n \in 0..(totalChunkWidth * totalChunkWidth) :
                      found(n) /\ \A m \in 0..(n - 1) : ~found(m))

Index(c) == ((height - 1 - c[2]) * width + (c[3] % width)) * width + (c[1] % width)
Left(ch, bs, i) == {c \in Pos : ChunkOf(c) = ch /\ bs[c] # "air" /\ Index(c) > i}
\* To the next block that is not air, as the blocks are now.
GoOn(ch, bs, i) ==
    IF Left(ch, bs, i) = {} THEN phase' = "store" /\ at' = <<-1, -1, -1>>
    ELSE /\ phase' = "scan"
         /\ at' = CHOOSE c \in Left(ch, bs, i) :
                     \A d \in Left(ch, bs, i) : Index(c) <= Index(d)

\* The timer has come to the next update.  In a column beyond the map (NextChunk)
\* the code finds a chunk of the next row, all of air here (RangeCovered).
StartChunk ==
    /\ phase = "rest" /\ updated # {}
    /\ LET next == NextChunk(<<chunkXMapRedstone, chunkZMapRedstone>>)
       IN  /\ chunkXMapRedstone' = next[1] + 1 /\ chunkZMapRedstone' = next[2]
           /\ cycle' = (cycle + 1) % 6
           /\ currentRedstoneChunk' = (currentRedstoneChunk + 1) % chunksToUpdate
           /\ visited' = IF currentRedstoneChunk = 0 THEN <<next>> ELSE Append(visited, next)
           /\ IF next \in Chunk
              THEN chunk' = next /\ GoOn(next, blocks, -1)
              ELSE UNCHANGED <<chunk, phase, at>>
    /\ updateRedstoneData' = {} /\ redraw' = {}
    /\ redstoneBlockData' = <<>> /\ waterMovementChunk' = <<>>
    /\ UNCHANGED <<blocks, blockData, redstoneData, drops, shown, level, sweeps, outside>>

\* Blocks with no rule of their own.
Idle == {"stone", "log", "obsidian", "cobblestone", "ripeWheat", "wire", "doorTop"}
UpdateNothing ==
    /\ K(at) \in Idle
    /\ UNCHANGED <<blocks, blockData, pending, redraw, drops, foreign>>

\* The lava turn: in every sixth update, whichever chunk that is (21559).
UpdateBlock ==
    \/ UpdateTnt
    \/ /\ \/ UpdateLever \/ UpdateButtonOn \/ UpdateButtonOff
          \/ UpdateTorchOn \/ UpdateTorchOff \/ UpdateRepeaterOff \/ UpdateRepeaterOn
          \/ UpdateDoor \/ UpdateLamp
          \/ UpdateWater \/ UpdateLava(cycle = 0)
          \/ UpdateLeaves \/ UpdateSapling \/ UpdateFlower \/ UpdateWheat \/ UpdateDirt
          \/ UpdateGrass \/ UpdateFarmland \/ UpdateWetFarmland
          \/ UpdateNothing
       /\ drawn' = drawn
Scan ==
    /\ phase = "scan"
    /\ UpdateBlock
    /\ GoOn(chunk, blocks', Index(at))
    /\ UNCHANGED <<chunk, level, sweeps, round, outside>>

-----------------------------------------------------------------------------
(* After the blocks.                                                       *)

\* What was marked is stored: a torch or repeater that turned before it was
\* blown up in the same pass is put back, where the mesh shows air.
Store ==
    /\ phase = "store"
    /\ blocks' = Applied(redstoneBlockData, blocks)
    /\ blockData' = [c \in Pos |-> IF c \in updateRedstoneData THEN redstoneData[c]
                                   ELSE blockData[c]]
    /\ redstoneData' = <<>> /\ updateRedstoneData' = {}
    /\ level' = [c \in {c \in Pos : ChunkOf(c) = chunk /\ blocks'[c] = "wire"} |-> 0]
    /\ sweeps' = 0 /\ phase' = "wires"
    /\ foreign' = foreign \cup {c \in DOMAIN redstoneBlockData : blocks[c] = "air"}
    /\ UNCHANGED <<at, chunk, redstoneBlockData, waterMovementChunk,
                   redraw, drops, drawn, round, outside>>

\* Up to sixteen sweeps; then the levels are stored.
UpdateWires ==
    /\ phase = "wires"
    /\ IF sweeps < MaxSweeps /\ Sweep(level) # level
       THEN /\ level' = Sweep(level) /\ sweeps' = sweeps + 1
            /\ UNCHANGED <<blockData, redraw, phase>>
       ELSE /\ blockData' = Stored(level)
            /\ redraw' = IF blockData' # blockData THEN redraw \cup {"textures"} ELSE redraw
            /\ level' = <<>> /\ sweeps' = 0 /\ phase' = "draw"
    /\ UNCHANGED <<blocks, at, chunk, pending, drops, shown, round, outside>>

\* The fluids flow, and the mesh of this chunk -- of no other -- is updated:
\* built anew, or only given other textures, which goes by the faces it was
\* built with.
Shape(k) == CASE k \in Full \cup {"lampOn"} -> "block"
              [] k \in {"torchOn", "torchOff"} -> "torch"
              [] k \in {"repeaterOn", "repeaterOff"} -> "repeater"
              [] k \in Farmland -> "farmland"
              [] k \in Crop -> "crop"
              [] OTHER -> k
Redraw ==
    /\ phase = "draw"
    /\ blocks' = Applied(waterMovementChunk, blocks)
    /\ LET mine == {c \in Pos : ChunkOf(c) = chunk}
           redrawn == {c \in mine : \/ "full" \in redraw
                                    \/ redraw # {} /\ Shape(drawn[c]) = Shape(blocks'[c])}
       IN  /\ drawn' = [c \in Pos |-> IF c \in redrawn THEN blocks'[c] ELSE drawn[c]]
           /\ foreign' = foreign \ redrawn
    /\ waterMovementChunk' = <<>> /\ redstoneBlockData' = <<>>
    /\ redstoneData' = <<>> /\ updateRedstoneData' = {}
    /\ redraw' = {} /\ drops' = {}
    /\ phase' = "rest"
    /\ UNCHANGED <<blockData, at, chunk, level, sweeps, round, layout, updated, uses, broken>>

-----------------------------------------------------------------------------
(* The player, between the updates.  The chunk he changes is drawn anew.   *)
Use == phase = "rest" /\ uses > 0 /\ uses' = uses - 1
Quiet == UNCHANGED <<at, chunk, pending, redraw, drops, phase, level, sweeps, round,
                     layout, updated>>
DrawnAnew(ch) ==
    /\ drawn' = [c \in Pos |-> IF ChunkOf(c) = ch THEN blocks'[c] ELSE drawn[c]]
    /\ foreign' = {c \in foreign : ChunkOf(c) # ch}

UseBlock(c) == /\ Use /\ (UseLever(c) \/ UseButton(c))
               /\ blocks' = blocks /\ DrawnAnew(ChunkOf(c))
               /\ broken' = broken /\ Quiet

\* What destroyBlock takes back of the signals of the block at c.  Whether a
\* block below a wire is freed is looked up under the number of the block
\* instead of its type (18980): of the blocks here only grass is found.
Quenched(c) ==
    LET k == K(c)
        ended == CASE k = "torchOn" -> {Plus(c, Up)}
                   [] k = "repeaterOn" -> {Minus(c, repeaterSide(D(c)))}
                   [] k \in {"lever", "button"} -> {Plus(c, leverSide(D(c)))}
                   [] OTHER -> {}
        ends(d) == d \in ended /\ (k = "torchOn" \/ canTransferRedstoneSignal(K(d)))
        freed(d) == k = "wire" /\ d = Plus(c, Down) /\ K(d) = "grass"
    IN  [d \in Pos |-> IF ends(d) THEN Weak(D(d))
                       ELSE IF freed(d) THEN [D(d) EXCEPT !.weak = FALSE] ELSE D(d)]
\* A door goes with its other half.
Halves(c) == CASE K(c) = "doorBottom" -> {c, Plus(c, Up)}
               [] K(c) = "doorTop" -> {c, Plus(c, Down)}
               [] OTHER -> {c}
destroyBlock(c) ==
    /\ Use /\ c \in layout.breakable /\ K(c) \notin {"air"} \cup Fluid
    /\ blockData' = [d \in Pos |-> IF d \in Halves(c) THEN Zero ELSE Quenched(c)[d]]
    /\ blocks' = [d \in Pos |-> IF d \in Halves(c) THEN "air" ELSE blocks[d]]
    /\ DrawnAnew(ChunkOf(c))
    /\ broken' = broken \cup {c} /\ Quiet

\* A block is put into air or a fluid; a plain block keeps the data of what
\* was there.
placeBlock(c) ==
    /\ Use /\ c \in layout.placeable /\ K(c) \in {"air"} \cup Fluid
    /\ blocks' = Set(blocks, c, "stone") /\ blockData' = blockData
    /\ DrawnAnew(ChunkOf(c))
    /\ broken' = broken /\ Quiet

Init ==
    /\ layout \in Layouts
    /\ blocks = layout.blocks /\ blockData = layout.data /\ drawn = layout.blocks
    /\ updated = {c \in Chunk : InRange(c[1], c[2])}
    /\ chunk = <<0, 0>> /\ at = <<-1, -1, -1>> /\ phase = "rest"
    /\ redstoneData = <<>> /\ updateRedstoneData = {}
    /\ redstoneBlockData = <<>> /\ waterMovementChunk = <<>>
    /\ redraw = {} /\ drops = {} /\ foreign = {} /\ broken = {}
    /\ chunkXMapRedstone = 0 /\ chunkZMapRedstone = 0
    /\ currentRedstoneChunk = 0 /\ cycle = 0 /\ visited = <<>>
    /\ level = <<>> /\ sweeps = 0 /\ uses = layout.uses

Update == StartChunk \/ Scan \/ Store \/ UpdateWires \/ Redraw
Player == \E c \in Pos : UseBlock(c) \/ destroyBlock(c) \/ placeBlock(c)
Next == Update \/ Player

\* The timer never stops while a world is open.
Spec == Init /\ [][Next]_vars /\ WF_vars(Update)

-----------------------------------------------------------------------------
TypeOK ==
    /\ blocks \in [Pos -> Kinds] /\ drawn \in [Pos -> Kinds]
    /\ blockData \in [Pos -> Bytes]
    /\ chunk \in Chunk /\ phase \in {"rest", "scan", "store", "wires", "draw"}
    /\ (phase = "scan") <=> (at \in Pos)
    /\ phase = "scan" => (ChunkOf(at) = chunk /\ K(at) # "air")
    /\ updateRedstoneData \subseteq DOMAIN redstoneData
    /\ \A c \in DOMAIN redstoneData : redstoneData[c] \in Bytes
    /\ \A c \in DOMAIN redstoneBlockData : redstoneBlockData[c] \in Kinds
    /\ \A c \in DOMAIN waterMovementChunk : waterMovementChunk[c] \in Fluid
    /\ redraw \subseteq {"textures", "light", "full"}
    /\ foreign \subseteq Pos /\ uses \in 0..layout.uses
    /\ chunkXMapRedstone \in 0..(totalChunkWidth + layout.distance) /\ cycle \in 0..5
    /\ \A c \in DOMAIN level : level[c] \in 0..15
    /\ sweeps \in 0..MaxSweeps

\* A quarter second updates every chunk in range, each once -- unless the
\* range reaches beyond the last column, which 20879-20890 does not skip.
OnMap == layout.player[1] + layout.distance - 1 < totalChunkWidth
RoundVisitsRange ==
    OnMap /\ currentRedstoneChunk = 0 /\ visited # <<>> =>
        {visited[i] : i \in DOMAIN visited} = updated

\* The level a wire should have: only the distance to a source fits all of them.
Expected(c) == IF WireSource(c) THEN 15
               ELSE Highest({1} \cup {D(n).v : n \in Feeds(c)}) - 1

\* Everything shows what its neighbours give it.  A block below a wire is weak
\* while the wire is live -- but a lamp, which is another kind of block once it
\* burns (22296), stays weak for ever, and so may the block below a broken wire.
Settled ==
    /\ \A c \in Pos : K(c) = "wire" => D(c).v = Expected(c)
    /\ \A c \in Pos :
          /\ K(c) \in {"lampOn", "lampOff"} => (K(c) = "lampOn" <=> LampBurns(c))
          /\ K(c) = "doorBottom" => (Open(D(c)) <=> DoorOpens(c))
          /\ K(c) \in {"torchOn", "torchOff"} => (K(c) = "torchOn" <=> ~Live(D(Plus(c, Down))))
          /\ K(c) \in {"repeaterOn", "repeaterOff"} => (K(c) = "repeaterOn" <=> Hears(c))
          /\ K(c) = "lever" /\ canTransferRedstoneSignal(K(Plus(c, leverSide(D(c))))) =>
                (D(Plus(c, leverSide(D(c)))).strong <=> D(c).v % 2 = 1)
          /\ K(c) \in Full \ {"lampOff"} /\ Plus(c, Up) \notin broken =>
                (D(c).weak <=> K(Plus(c, Up)) = "wire" /\ D(Plus(c, Up)).v > 0)

\* Once the player leaves a circuit alone that drives no block twice and has
\* no loop, it comes to rest, across all the chunks it lies in, and each part
\* is as its neighbours demand.
SignalsSettle == layout.settles => <>[](phase = "rest" => Settled)

\* Blown up, if the tnt that was there at the start goes off.
Mined(c) == \E d \in Pos : layout.blocks[d] = "tnt" /\ c \in Blown(d)

\* However often it is opened and shut, both halves of a door are there and
\* agree, and it stands where it stood or a quarter further.  But tnt may take
\* one half, and the upper half of one that stands at rotation 0 is turned by
\* a fluid that dries above it (Dry).
shutRotation(d) == IF Open(d) THEN (rotation(d) + 3) % 4 ELSE rotation(d)
DoorSafe(c) ==
    /\ ~Mined(c) /\ ~Mined(Plus(c, Up))
    /\ shutRotation(layout.data[c]) = 0 => \A d \in Pos : layout.blocks[d] \notin Fluid
DoorWhole ==
    \A c \in Pos : K(c) = "doorBottom" /\ DoorSafe(c) =>
        /\ K(Plus(c, Up)) = "doorTop" /\ D(Plus(c, Up)).v = D(c).v
        /\ shutRotation(D(c)) = shutRotation(layout.data[c])

\* Fluids, plants and circuits come to rest, and signals where they belong.
FluidsRest == layout.calm => <>[][UNCHANGED <<blocks, blockData>>]_vars
ComesToRest == FluidsRest /\ SignalsSettle

\* Between the updates the meshes show the blocks, except for cells that were
\* changed by the update of another chunk or put back after a blast.
ShownAtRest == (phase = "rest") => \A c \in Pos : drawn[c] = blocks[c] \/ c \in foreign

\* The rounds leave the map whole and drawn.
MapSound == TypeOK /\ RoundVisitsRange /\ DoorWhole /\ ShownAtRest

\* Every chunk in range has its lava moved again and again, if the number of
\* chunks and the six of the counter have no common factor.
LavaMoves ==
    layout.watched \in updated /\ chunksToUpdate \in {1, 5} /\ OnMap =>
        []<>(phase = "store" /\ chunk = layout.watched /\ cycle = 0)

\* Wheat is lost only where the player broke the soil below it, where tnt
\* blows it or its soil up, or where a tree grows below.
CropSafe(c) ==
    /\ ~Mined(c) /\ ~Mined(Plus(c, Down))
    /\ \A d \in Pos : layout.blocks[d] = "sapling" =>
          d[1] # c[1] \/ d[3] # c[3] \/ d[2] >= c[2]
NoCropLost ==
    [][\A c \in Pos : phase = "scan" /\ K(c) \in Crop /\ CropSafe(c) /\ blocks'[c] \notin Crop =>
          Plus(c, Down) \in broken]_vars

\* A pressed button comes out again ("leave on for 4 redstone ticks", 27870).
\* It does not hold (21007).
Pressed == \E c \in Pos : K(c) = "button" /\ D(c).v % 2 = 1
ButtonReleases == Pressed ~> ~Pressed
=============================================================================
