------------------------------ MODULE Redstone ------------------------------
(***************************************************************************)
(* Levers, buttons, torches, repeaters, doors, lamps and tnt: what         *)
(* updateMap does with the block it is at (src/src/eninge.c 20923-21520),  *)
(* and the levels of the wires, which it finds afterwards (22144-22311).   *)
(***************************************************************************)
EXTENDS BlockMap

Strong(d) == [d EXCEPT !.strong = TRUE]
Weak(d)   == [d EXCEPT !.strong = FALSE]
Live(d)   == d.strong \/ d.weak
Drive(d, on) == IF on THEN Strong(d) ELSE Weak(d)

leverSide(d) == allSidesLeverButton[((d.v \div 2) % 8) + 1]
rotation(d)  == d.v % 4
repeaterSide(d) == sidesRepeater[rotation(d) + 1]

\* A signal for the block at c: stored at once in another chunk, after the
\* pass in this one.  own is what the driving block stores of itself.
Signal(c, on, own) ==
    LET reaches == c \in Pos /\ canTransferRedstoneSignal(K(c))
        here    == reaches /\ ChunkOf(c) = chunk
        self    == Mark(redstoneData, at, own)
    IN  /\ blockData' = IF reaches /\ ~here
                        THEN Set(blockData, c, Drive(D(c), on)) ELSE blockData
        /\ redstoneData' = IF here THEN Mark(self, c, Drive(D(c), on)) ELSE self
        /\ updateRedstoneData' = updateRedstoneData \cup {at} \cup (IF here THEN {c} ELSE {})
NoRedstone == UNCHANGED <<redstoneBlockData, waterMovementChunk>>

-----------------------------------------------------------------------------
UpdateLever ==
    /\ K(at) = "lever"
    /\ LET on == D(at).v % 2 = 1
       IN  Signal(Plus(at, leverSide(D(at))), on, Drive(D(at), on))
    /\ NoRedstone /\ UNCHANGED <<blocks, redraw, drops, foreign>>

\* The time that is left.  20994 counts it down, 21007 stores the old one.
Time(d) == d.v \div 16
UpdateButtonOn ==
    /\ K(at) = "button" /\ Time(D(at)) > 0
    /\ Signal(Plus(at, leverSide(D(at))), TRUE, Strong(D(at)))
    /\ NoRedstone /\ UNCHANGED <<blocks, redraw, drops, foreign>>
UpdateButtonOff ==
    /\ K(at) = "button" /\ Time(D(at)) = 0
    /\ IF D(at).v % 2 = 1
       THEN /\ Signal(Plus(at, leverSide(D(at))), FALSE, Weak(D(at)))
            /\ Draw({"full"})
       ELSE UNCHANGED <<blockData, redstoneData, updateRedstoneData, redraw>>
    /\ NoRedstone /\ UNCHANGED <<blocks, drops, foreign>>

\* A burning torch drives the block above it, and goes out above a live one.
UpdateTorchOn ==
    /\ K(at) = "torchOn"
    /\ LET above == Plus(at, Up)
           below == Plus(at, Down)
           holds == above \in Pos /\ canHoldRedstoneSignal(K(above))
           lit   == IF holds THEN Set(blockData, above, Strong(D(above))) ELSE blockData
       IN  IF canHoldRedstoneSignal(K(below)) /\ Live(D(below))
           THEN /\ redstoneBlockData' = Mark(redstoneBlockData, at, "torchOff")
                /\ blockData' = Set(IF holds THEN Set(lit, above, Weak(lit[above])) ELSE lit,
                                    at, Zero)
                /\ Draw({"textures"})
           ELSE /\ blockData' = lit
                /\ redraw' = IF lit # blockData THEN redraw \cup {"textures"} ELSE redraw
                /\ UNCHANGED redstoneBlockData
    /\ UNCHANGED <<blocks, redstoneData, updateRedstoneData, waterMovementChunk, drops, foreign>>
\* The signal of the block above is stored (21099) without its mark: whether
\* it counts depends on another mark for the same block.
UpdateTorchOff ==
    /\ K(at) = "torchOff"
    /\ LET above == Plus(at, Up)
           below == Plus(at, Down)
           holds == above \in Pos /\ canHoldRedstoneSignal(K(above))
           dark  == IF holds THEN Set(blockData, above, Weak(D(above))) ELSE blockData
       IN  IF canHoldRedstoneSignal(K(below)) /\ ~Live(D(below))
           THEN /\ redstoneBlockData' = Mark(redstoneBlockData, at, "torchOn")
                /\ blockData' = Set(dark, at, Byte(TRUE, 0))
                /\ redstoneData' = IF holds THEN Mark(redstoneData, above, Strong(dark[above]))
                                   ELSE redstoneData
                /\ Draw({"textures"})
           ELSE /\ blockData' = dark
                /\ redraw' = IF dark # blockData THEN redraw \cup {"textures"} ELSE redraw
                /\ UNCHANGED <<redstoneBlockData, redstoneData>>
    /\ UNCHANGED <<blocks, updateRedstoneData, waterMovementChunk, drops, foreign>>

-----------------------------------------------------------------------------
\* A repeater hears the block behind it, or a live repeater that points the
\* same way; one beside it that points at it keeps it as it is.
Hears(c) ==
    LET i == Plus(c, repeaterSide(D(c)))
    IN  IF canHoldRedstoneSignal(K(i)) THEN Live(D(i))
        ELSE K(i) = "repeaterOn" /\ rotation(D(i)) = rotation(D(c))
Kept(c) ==
    LET left  == sidesRepeater[((rotation(D(c)) + 3) % 4) + 1]
        right == sidesRepeater[((rotation(D(c)) + 1) % 4) + 1]
    IN  \/ K(Plus(c, left)) = "repeaterOn"
           /\ rotation(D(Plus(c, left))) = (rotation(D(c)) + 3) % 4
        \/ K(Plus(c, right)) = "repeaterOn"
           /\ rotation(D(Plus(c, right))) = (rotation(D(c)) + 1) % 4
HeardRight(c) == SeenAbove(Plus(c, repeaterSide(D(c))))

\* First the block in front is set to what the repeater is (21107-21149), then
\* the repeater turns (21151-21306).
UpdateRepeater(from, to, on) ==
    /\ K(at) = from
    /\ LET front == Minus(at, repeaterSide(D(at)))
           sees  == Seen(front) /\ canTransferRedstoneSignal(K(front))
           turns == HeardRight(at) /\ Hears(at) = on /\ ~Kept(at)
           first == IF sees /\ D(front).strong = on
                    THEN Set(blockData, front, Drive(D(front), ~on)) ELSE blockData
           now   == sees /\ turns
       IN  /\ blockData' = IF now /\ ChunkOf(front) # chunk
                           THEN Set(first, front, Drive(D(front), on)) ELSE first
           /\ redstoneData' = IF now /\ ChunkOf(front) = chunk
                              THEN Mark(redstoneData, front, Drive(D(front), on))
                              ELSE redstoneData
           /\ updateRedstoneData' = updateRedstoneData \cup
                  (IF now /\ ChunkOf(front) = chunk THEN {front} ELSE {})
           /\ redstoneBlockData' = IF turns THEN Mark(redstoneBlockData, at, to)
                                   ELSE redstoneBlockData
           /\ redraw' = IF turns \/ first # blockData THEN redraw \cup {"textures"}
                        ELSE redraw
    /\ UNCHANGED <<blocks, waterMovementChunk, drops, foreign>>
UpdateRepeaterOff == UpdateRepeater("repeaterOff", "repeaterOn", TRUE)
UpdateRepeaterOn  == UpdateRepeater("repeaterOn", "repeaterOff", FALSE)

-----------------------------------------------------------------------------
\* Blocks that give a signal to the doors, lamps and tnt beside them.
Gives(c) == canTransferRedstoneSignal(K(c)) \/ K(c) \in {"lever", "button"}
PointedAt(c) == \E i \in 1..4 : LET n == Plus(c, sidesRepeater[i])
                                IN  K(n) = "repeaterOn" /\ rotation(D(n)) = i - 1
allSidesDoor == Straight \cup {Plus(s, Up) : s \in Straight} \cup {<<0, 2, 0>>, Down}
DoorOpens(c) ==
    \/ \E s \in allSidesDoor : Gives(Plus(c, s)) /\ D(Plus(c, s)).strong
    \/ PointedAt(c) \/ PointedAt(Plus(c, Up))
Open(d) == (d.v \div 4) % 2 = 1
Turned(d)     == [d EXCEPT !.v = ((rotation(d) + 1) % 4) + 4]
TurnedBack(d) == [d EXCEPT !.v = (rotation(d) + 3) % 4]

\* Mutant: the upper half stays as it is.
UpdateDoorHalf ==
    /\ K(at) = "doorBottom"
    /\ IF DoorOpens(at) # Open(D(at))
       THEN /\ blockData' = [blockData EXCEPT ![at] = IF DoorOpens(at) THEN Turned(@)
                                                      ELSE TurnedBack(@)]
            /\ Draw({"full"})
       ELSE UNCHANGED <<blockData, redraw>>
    /\ UNCHANGED <<blocks, pending, drops, foreign>>
\* Both halves of a door turn by a quarter, if the lower one is not yet as it
\* should be.
UpdateDoor ==
    /\ K(at) = "doorBottom"
    /\ IF DoorOpens(at) # Open(D(at))
       THEN /\ blockData' = [c \in Pos |-> IF c \notin {at, Plus(at, Up)} THEN blockData[c]
                                           ELSE IF DoorOpens(at) THEN Turned(blockData[c])
                                           ELSE TurnedBack(blockData[c])]
            /\ Draw({"full"})
       ELSE UNCHANGED <<blockData, redraw>>
    /\ UNCHANGED <<blocks, pending, drops, foreign>>

LampBurns(c) ==
    \/ \E s \in AllSides : \/ Gives(Plus(c, s)) /\ Live(D(Plus(c, s)))
                           \/ K(Plus(c, s)) = "torchOn"
    \/ PointedAt(c)
    \/ K(Plus(c, Up)) = "wire" /\ D(Plus(c, Up)).v > 0
UpdateLamp ==
    /\ K(at) \in {"lampOff", "lampOn"}
    /\ blocks' = Set(blocks, at, IF LampBurns(at) THEN "lampOn" ELSE "lampOff")
    /\ redraw' = IF blocks' # blocks THEN redraw \cup {"textures", "light"} ELSE redraw
    /\ UNCHANGED <<blockData, pending, drops, foreign>>

\* The wire on a tnt is looked for at (x, z) of the chunk instead of the map
\* (21513).  The data of what blows up stays; each chunk is drawn at once.
TntBlows(c) ==
    LET above == <<c[1] % width, c[2] + 1, c[3] % width>>
    IN  \/ \E s \in AllSides : \/ Gives(Plus(c, s)) /\ Live(D(Plus(c, s)))
                               \/ K(Plus(c, s)) = "torchOn"
        \/ PointedAt(c)
        \/ K(above) = "wire" /\ D(above).v > 0
Blown(c) == {d \in Pos : (d[1] - c[1]) * (d[1] - c[1]) + (d[2] - c[2]) * (d[2] - c[2])
                         + (d[3] - c[3]) * (d[3] - c[3]) < BlastRadius * BlastRadius}
makeExplosion(c) ==
    LET struck(d) == \E e \in Blown(c) : ChunkOf(d) = ChunkOf(e)
    IN  /\ blocks' = [d \in Pos |-> IF d \in Blown(c) THEN "air" ELSE blocks[d]]
        /\ drawn' = [d \in Pos |-> IF struck(d) THEN blocks'[d] ELSE drawn[d]]
        /\ foreign' = {d \in foreign : ~struck(d)}
UpdateTnt ==
    /\ K(at) = "tnt"
    /\ IF TntBlows(at)
       THEN makeExplosion(at) ELSE UNCHANGED <<blocks, drawn, foreign>>
    /\ UNCHANGED <<blockData, pending, redraw, drops>>

-----------------------------------------------------------------------------
(* Wires.                                                                  *)
WireSource(c) ==
    \/ \E s \in AllSides : LET n == Plus(c, s) IN
          SeenAbove(n) /\ K(n) \in (Full \cup {"lever", "button"}) /\ D(n).strong
    \/ \E i \in 1..4 : LET n == Plus(c, sidesRepeater[i]) IN
          /\ SeenAbove(n)
          /\ \/ K(n) = "torchOn"
             \/ K(n) = "repeaterOn" /\ rotation(D(n)) = i - 1
\* The wires whose level reaches c: beside it, a step down, and a step up
\* where there is air.  The air above is looked for in the chunk of the
\* neighbour, at the place c has in its own (22252).
AirAbove(c, n) ==
    K(<<ChunkOf(n)[1] * width + (c[1] % width), n[2],
        ChunkOf(n)[2] * width + (c[3] % width)>>)
        = "air"
Feeds(c) ==
    {n \in {Plus(c, s) : s \in Straight}
           \cup {Plus(Plus(c, s), Down) : s \in Straight}
           \cup {m \in {Plus(Plus(c, s), Up) : s \in Straight} : AirAbove(c, m)} :
        SeenAbove(n) /\ K(n) = "wire"}

Wires(ch) == {c \in Pos : ChunkOf(c) = ch /\ blocks[c] = "wire"}
Order(c) == (c[2] * width + (c[3] % width)) * width + (c[1] % width)
Highest(S) == CHOOSE m \in S : \A n \in S : n <= m
\* One sweep (22149-22281) over the levels of this chunk, in place; those of
\* other chunks are the stored ones.
Sweep(level) ==
    LET new[c \in Wires(chunk)] ==
            IF WireSource(c) THEN 15
            ELSE Highest({1} \cup {IF ChunkOf(n) # chunk THEN D(n).v
                                   ELSE IF Order(n) < Order(c) THEN new[n]
                                   ELSE level[n] : n \in Feeds(c)}) - 1
    IN  new
\* Mutant: the block below a wire that went dead stays weak.
StoredWeak(level) ==
    LET changed == {c \in DOMAIN level : D(c).v # level[c]}
        on(c) == level[c] > 0
    IN  [c \in Pos |->
            IF c \in changed THEN Byte(FALSE, level[c])
            ELSE IF Plus(c, Up) \in changed /\ blocks[c] \in Full /\ on(Plus(c, Up))
            THEN [blockData[c] EXCEPT !.weak = TRUE]
            ELSE blockData[c]]
\* A wire whose level has changed is stored, and makes the block below it
\* weak or not (22287-22311).
Stored(level) ==
    LET changed == {c \in DOMAIN level : D(c).v # level[c]}
        below(c) == Plus(c, Down)
        on(c) == level[c] > 0
    IN  [c \in Pos |->
            IF c \in changed
            THEN [Byte(FALSE, level[c]) EXCEPT !.weak = K(below(c)) \in Full /\ on(c)]
            ELSE IF Plus(c, Up) \in changed /\ blocks[c] \in Full
            THEN [blockData[c] EXCEPT !.weak = on(Plus(c, Up))]
            ELSE blockData[c]]

-----------------------------------------------------------------------------
(* The player (useBlock).                                                  *)
UseLever(c) == /\ K(c) = "lever"
               /\ blockData' = [blockData EXCEPT ![c].v = IF @ % 2 = 0 THEN @ + 1 ELSE @ - 1]
\* On for three (wood) or two more passes.
UseButton(c) == /\ K(c) = "button"
                /\ \E t \in {2, 3} :
                      blockData' = [blockData EXCEPT ![c].v = ((@ \div 2) % 8) * 2 + 16 * t + 1]
=============================================================================
