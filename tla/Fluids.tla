------------------------------- MODULE Fluids -------------------------------
(***************************************************************************)
(* Water and lava: what updateMap does with a fluid it is at               *)
(* (src/src/eninge.c 21559-21918).                                         *)
(*                                                                         *)
(* Level 0 is a full block, a larger level a lower one; 8 is the lowest.   *)
(* Water sinks by one from cell to cell and dries by two, lava by two and  *)
(* by four.  A fluid spreads by marks in its own chunk, and at once into   *)
(* another, if that one is updated too.                                    *)
(***************************************************************************)
EXTENDS BlockMap

CONSTANTS LowestLevel  \* code: 8
ASSUME LevelAssumption == LowestLevel \in 0..15

VARIABLES updated  \* chunks within redstoneRenderDistance of the player

Fluid == {"water", "lava"}
Drop(f)   == IF f = "water" THEN 1 ELSE 2
Drying(f) == IF f = "water" THEN 2 ELSE 4
\* The level of the cells a fluid of level v spreads to.
waterHight(f, v) == IF f = "lava" THEN (IF v = 0 THEN 1 ELSE v + 2)
                    ELSE IF v = 0 THEN 2 ELSE v + 1

below == Plus(at, Down)
Beside == {n \in {Plus(at, s) : s \in Straight} : Seen(n)}

\* Water turns the lava beside and below it to stone: obsidian, if it is a
\* source.
Cooled(c) == IF D(c).strong THEN "obsidian" ELSE "cobblestone"

\* The cells beside it that a fluid on solid ground spreads to.
SpreadsTo(f) ==
    LET h == waterHight(f, D(at).v)
    IN  {n \in Beside : /\ K(n) \in {"air", f} /\ ~D(n).strong
                        /\ h <= LowestLevel
                        /\ K(n) = "air" \/ D(n).v > h
                        /\ ChunkOf(n) = chunk \/ ChunkOf(n) \in updated}

\* What keeps a fluid from drying: being a source, the same fluid above, or
\* one beside it that stands higher.
Fed(f, bs, ds) == \/ ds[at].strong
                  \/ K(Plus(at, Up)) = f
                  \/ \E n \in Beside : bs[n] = f /\ ds[at].v > ds[n].v

\* A fluid that nothing feeds sinks, and at last is gone; then the cell below,
\* whatever it is, gets level 1 if its lower four bits are 0 (21618, 21700, 21777, 21870).
Dry(f, bs, ds, cell) ==
    IF Fed(f, bs, ds) THEN <<bs, ds>>
    ELSE IF ds[at].v + Drying(f) <= LowestLevel
         THEN <<bs, [ds EXCEPT ![at].v = @ + Drying(f)]>>
         ELSE <<Set(bs, at, "air"),
                [ds EXCEPT ![at] = Zero, ![cell].v = IF @ % 16 = 0 THEN @ + 1 ELSE @]>>

\* lava only in every sixth pass (21559), lavaTurn
UpdateFluid(f, turn) ==
    /\ K(at) = f
    /\ IF ~turn \/ at[2] = 0
       THEN UNCHANGED <<blocks, blockData, waterMovementChunk, redraw, foreign>>
       ELSE
       LET lava    == {n \in Beside : f = "water" /\ K(n) = "lava"}
           cooled  == [c \in Pos |-> IF c \in lava THEN Cooled(c) ELSE blocks[c]]
           onto    == SpreadsTo(f)
           spread  == [c \in Pos |-> IF c \in onto THEN Byte(FALSE, waterHight(f, D(at).v))
                                     ELSE blockData[c]]
           dried   == Dry(f, [c \in Pos |-> IF c \in onto /\ ChunkOf(c) # chunk THEN f
                                            ELSE cooled[c]], spread, below)
           filled  == IF D(below).v = 0 THEN blockData
                      ELSE [blockData EXCEPT ![below].v = 0]
           sunk    == Dry(f, cooled, filled, below)
       IN  \/ /\ K(below) = "air"
              /\ waterMovementChunk' = Mark(waterMovementChunk, below, f)
              /\ blockData' = Set(blockData, below, Zero)
              /\ Draw({"full"})
              /\ UNCHANGED <<blocks, foreign>>
           \/ /\ K(below) = f
              /\ blocks' = sunk[1] /\ blockData' = sunk[2]
              /\ redraw' = IF sunk[1] # blocks \/ sunk[2] # blockData
                           THEN redraw \cup {"full"} ELSE redraw
              /\ Abroad(lava)
              /\ UNCHANGED waterMovementChunk
           \/ /\ {K(below), f} = Fluid
              /\ blocks' = Set(blocks, below, IF f = "lava" THEN "stone" ELSE Cooled(below))
              /\ Draw({"full"})
              /\ UNCHANGED <<blockData, waterMovementChunk, foreign>>
           \/ /\ K(below) \notin Fluid \cup {"air"}
              /\ waterMovementChunk' =
                     MarkAll(waterMovementChunk, {n \in onto : ChunkOf(n) = chunk}, f)
              /\ blocks' = dried[1] /\ blockData' = dried[2]
              /\ Abroad(lava \cup onto)
              /\ redraw' = IF onto # {} \/ dried[1] # blocks \/ dried[2] # blockData
                           THEN redraw \cup {"full"} ELSE redraw
    /\ UNCHANGED <<redstoneData, updateRedstoneData, redstoneBlockData, drops>>
UpdateWater == UpdateFluid("water", TRUE)
UpdateLava(lavaTurn) == UpdateFluid("lava", lavaTurn)
=============================================================================
