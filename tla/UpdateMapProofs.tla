-------------------------- MODULE UpdateMapProofs --------------------------
(***************************************************************************)
(* Theorems about UpdateMap, for every size of map, every world and every  *)
(* place of the player: the map stays sound (MapSound), and no crop is     *)
(* lost but for known reasons (NoCropLost).                                *)
(***************************************************************************)
EXTENDS UpdateMap, Sums, FiniteSetTheorems, SequenceTheorems, WellFoundedInduction, TLAPS

----------------------------------------------------------------------------
(* The inductive invariant.                                                *)

\* Kinds of blocks that nothing turns into: but for crops that ripen and soil
\* that gets wet or dry, a cell of such a kind is as it was at the start.
Fixed   == {"doorBottom", "doorTop", "wire"}
Lasting == Fixed \cup Crop \cup Farmland \cup {"tnt", "sapling"}
\* Kinds that turn by a mark.
Turning == {"torchOn", "torchOff", "repeaterOff", "repeaterOn"}

NoneNew ==
    /\ \A c \in Pos : blocks[c] \in Fixed \cup {"tnt", "sapling"} =>
                        layout.blocks[c] = blocks[c]
    /\ \A c \in Pos : blocks[c] \in Farmland => layout.blocks[c] \in Farmland
    /\ (\A d \in Pos : layout.blocks[d] \notin Fluid) =>
          DOMAIN waterMovementChunk = {} /\ \A c \in Pos : blocks[c] \notin Fluid

\* The marks are of this chunk, none is on a cell of a lasting kind, and what
\* is to be drawn is known already.
Marks ==
    /\ phase = "rest" => DOMAIN redstoneBlockData = {}
    /\ \A c \in updateRedstoneData \cap Pos : blocks[c] \notin Fixed
    /\ \A c \in DOMAIN redstoneBlockData :
          /\ c \in Pos /\ ChunkOf(c) = chunk
          /\ blocks[c] \notin Lasting /\ redstoneBlockData[c] \in Turning
          /\ redraw # {}
          /\ \/ blocks[c] = "air" \/ "full" \in redraw
             \/ Shape(redstoneBlockData[c]) = Shape(blocks[c])
    /\ \A c \in DOMAIN waterMovementChunk :
          /\ c \in Pos /\ ChunkOf(c) = chunk
          /\ blocks[c] \notin Lasting
          /\ "full" \in redraw

\* What is not shown yet will be when the chunk is drawn.
WillShow(c) ==
    /\ phase # "rest" /\ ChunkOf(c) = chunk
    /\ "full" \in redraw \/ (redraw # {} /\ Shape(drawn[c]) = Shape(blocks[c]))
Showing == \A c \in Pos : drawn[c] = blocks[c] \/ c \in foreign \/ WillShow(c)

WireLevels == \A c \in Pos : blocks[c] = "wire" => blockData[c].v <= 15
SweepLevels == phase = "wires" => DOMAIN level = Wires(chunk)

CropsStand ==
    \A c \in Pos : blocks[c] \in Crop /\ c[2] > 0 /\ CropSafe(c) /\ Plus(c, Down) \notin broken =>
                       blocks[Plus(c, Down)] \in Farmland

\* The number of a chunk, and the steps from one to another around the map.
Number(q)  == q[2] * totalChunkWidth + q[1]
ChunkTotal == totalChunkWidth * totalChunkWidth
After(a, b) == IF a <= b THEN b - a ELSE b - a + ChunkTotal
Behind(p, q, r) == After(Number(p), Number(q)) <= After(Number(p), Number(r))
Been == {visited[i] : i \in DOMAIN visited}
\* The chunks of this quarter second are those from the first to the last, and
\* each was visited once.
Rounds ==
    /\ updated = {c \in Chunk : InRange(c[1], c[2])}
    /\ visited \in Seq(Nat \X Nat)
    /\ chunkZMapRedstone \in 0..(totalChunkWidth - 1)
    /\ visited = <<>> => currentRedstoneChunk = 0 /\ chunkXMapRedstone = 0
    /\ OnMap /\ visited # <<>> =>
          LET first == visited[1]
              last  == visited[Len(visited)]
          IN  /\ Len(visited) <= chunksToUpdate
              /\ currentRedstoneChunk = Len(visited) % chunksToUpdate
              /\ last \in updated /\ first \in updated
              /\ <<chunkXMapRedstone, chunkZMapRedstone>> = <<last[1] + 1, last[2]>>
              /\ Been = {q \in updated : Behind(first, q, last)}
              /\ Cardinality(Been) = Len(visited)

RoundTyped ==
    /\ chunkXMapRedstone \in 0..(totalChunkWidth + layout.distance)
    /\ currentRedstoneChunk \in Nat

MapInv == /\ layout \in Layouts
          /\ TypeOK /\ NoneNew /\ Marks /\ Showing /\ WireLevels /\ SweepLevels
          /\ CropsStand /\ DoorWhole /\ Rounds /\ RoundTyped

\* Division with remainder.
LEMMA DivisionIs ==
    ASSUME NEW a \in Int, NEW b \in Nat \ {0}
    PROVE  /\ a \div b \in Int /\ a % b \in 0..(b - 1)
           /\ a = (b * (a \div b)) + (a % b)
OBVIOUS
\* Products grow with their factors.
LEMMA TimesGrows ==
    ASSUME NEW a \in Nat, NEW b \in Int, NEW c \in Int, b <= c
    PROVE  a * b <= a * c /\ a * b \in Int /\ a * c \in Int
OBVIOUS
\* The coordinates of a cell.
LEMMA PosIs ==
    ASSUME NEW c \in Pos
    PROVE  /\ c = <<c[1], c[2], c[3]>>
           /\ c[1] \in 0..(width * totalChunkWidth - 1)
           /\ c[2] \in 0..(height - 1)
           /\ c[3] \in 0..(width * totalChunkWidth - 1)
           /\ c[1] \in Int /\ c[2] \in Int /\ c[3] \in Int
           /\ 0 <= c[1] /\ 0 <= c[2] /\ 0 <= c[3]
BY MapAssumption DEF Pos

\* Every cell lies in a chunk of the map.
LEMMA ChunkOfIs ==
    ASSUME NEW c \in Pos
    PROVE  ChunkOf(c) \in Chunk
<1>1. ASSUME NEW a \in Int, 0 <= a, a <= width * totalChunkWidth - 1
      PROVE  a \div width \in 0..(totalChunkWidth - 1)
    <2>. DEFINE q == a \div width
    <2>0. width \in Nat \ {0} /\ totalChunkWidth \in Nat \ {0}
        BY MapAssumption
    <2>1. q \in Int /\ a % width \in 0..(width - 1) /\ a = (width * q) + (a % width)
        BY <2>0, DivisionIs
    <2>. HIDE DEF q
    <2>2. ASSUME q < 0 PROVE FALSE
        <3>1. width * q <= width * (-1)
            BY <2>0, <2>1, <2>2, TimesGrows
        <3>. QED BY <3>1, <2>1, <2>0, <1>1
    <2>3. ASSUME q >= totalChunkWidth PROVE FALSE
        <3>1. width * totalChunkWidth <= width * q
            BY <2>0, <2>1, <2>3, TimesGrows
        <3>. QED BY <3>1, <2>1, <2>0, <1>1
    <2>4. q \in 0..(totalChunkWidth - 1)
        BY <2>1, <2>2, <2>3, <2>0
    <2>. QED BY <2>4 DEF q
<1>2. c[1] \in Int /\ 0 <= c[1] /\ c[1] <= width * totalChunkWidth - 1
    BY PosIs, MapAssumption
<1>3. c[3] \in Int /\ 0 <= c[3] /\ c[3] <= width * totalChunkWidth - 1
    BY PosIs, MapAssumption
<1>4. c[1] \div width \in 0..(totalChunkWidth - 1)
    BY <1>1, <1>2
<1>5. c[3] \div width \in 0..(totalChunkWidth - 1)
    BY <1>1, <1>3
<1>. QED
    BY <1>4, <1>5 DEF ChunkOf, Chunk

(* A set of integers with a lower bound has a least member.                *)
LEMMA LeastExists ==
    ASSUME NEW S \in SUBSET Nat, S # {}
    PROVE  \E m \in S : \A n \in S : m <= n
<1>. DEFINE Less == {ss \in Nat \X Nat : ss[1] < ss[2]}
<1>1. IsWellFoundedOn(Less, Nat)
    BY NatLessThanWellFounded DEF OpToRel
<1>2. PICK x \in S : \A y \in S : <<y, x>> \notin Less
    <2>. HIDE DEF Less
    <2>. QED  BY <1>1, WFMin
<1>3. ASSUME NEW y \in S  PROVE  x <= y
    <2>1. x \in Nat /\ y \in Nat
        OBVIOUS
    <2>2. <<y, x>> \notin Less
        BY <1>2
    <2>. QED
        BY <2>1, <2>2
<1>. QED
    BY <1>3

\* The place of a cell in its chunk is a number, ...
LEMMA IndexIs ==
    ASSUME NEW c \in Pos
    PROVE  Index(c) \in Int
<1>0. width \in Nat \ {0} /\ height \in Nat \ {0}
    BY MapAssumption
<1>1. c[1] \in Int /\ c[2] \in Int /\ c[3] \in Int
    BY PosIs
<1>2. c[1] % width \in 0..(width - 1) /\ c[3] % width \in 0..(width - 1)
    BY <1>0, <1>1, DivisionIs
<1>3. (height - 1 - c[2]) * width \in Int
    BY <1>0, <1>1
<1>4. (height - 1 - c[2]) * width + (c[3] % width) \in Int
    BY <1>2, <1>3
<1>5. ((height - 1 - c[2]) * width + (c[3] % width)) * width \in Int
    BY <1>4, <1>0
<1>. QED
    BY <1>5, <1>2 DEF Index

\* ... so that the scan goes on to a cell that is not air, or ends.
LEMMA GoesOn ==
    ASSUME NEW ch, NEW bs, NEW i \in Int, GoOn(ch, bs, i)
    PROVE  /\ phase' \in {"scan", "store"}
           /\ phase' = "scan" <=> at' \in Pos
           /\ phase' = "scan" => ChunkOf(at') = ch /\ bs[at'] # "air"
<1>1. CASE Left(ch, bs, i) = {}
    <2>1. phase' = "store" /\ at' = <<-1, -1, -1>>
        BY <1>1 DEF GoOn
    <2>2. at' \notin Pos
        BY <2>1, PosIs
    <2>. QED BY <2>1, <2>2
<1>2. CASE Left(ch, bs, i) # {}
    <2>. DEFINE L == Left(ch, bs, i)
                S == {Index(c) - i : c \in L}
    <2>1. \A c \in L : c \in Pos /\ Index(c) \in Int /\ Index(c) > i /\ ChunkOf(c) = ch /\ bs[c] # "air"
        BY IndexIs DEF Left
    <2>. HIDE DEF L
    <2>2. S \in SUBSET Nat
        BY <2>1
    <2>3. S # {}
        BY <1>2 DEF L
    <2>4. PICK m \in S : \A n \in S : m <= n
        <3>. HIDE DEF S
        <3>. QED BY <2>2, <2>3, LeastExists
    <2>5. PICK c \in L : m = Index(c) - i
        OBVIOUS
    <2>6. \A d \in L : Index(c) <= Index(d)
        BY <2>4, <2>5, <2>1
    <2>7. /\ phase' = "scan"
          /\ at' = CHOOSE e \in L : \A d \in L : Index(e) <= Index(d)
        BY <1>2 DEF GoOn, L
    <2>8. at' \in L
        BY <2>6, <2>7
    <2>. QED BY <2>1, <2>7, <2>8
<1>. QED BY <1>1, <1>2

----------------------------------------------------------------------------
(* The round through the chunks.                                           *)

Cell(m) == <<m % totalChunkWidth, (m \div totalChunkWidth) % totalChunkWidth>>
Distance(p) == abs_int(p[1] - layout.player[1]) + abs_int(p[2] - layout.player[2])

\* The map has a chunk.
LEMMA WidthIs == totalChunkWidth \in Nat \ {0} /\ ChunkTotal \in Nat \ {0}
<1>1. totalChunkWidth \in Nat \ {0}
    BY MapAssumption
<1>. QED
    BY <1>1 DEF ChunkTotal

\* The number of a chunk is within the map, ...
LEMMA NumberIs ==
    ASSUME NEW q \in Chunk
    PROVE  /\ q = <<q[1], q[2]>> /\ q[1] \in 0..(totalChunkWidth - 1) /\ q[2] \in 0..(totalChunkWidth - 1)
           /\ Number(q) \in 0..(ChunkTotal - 1)
<1>. DEFINE T == totalChunkWidth
<1>0. T \in Nat \ {0}
    BY WidthIs
<1>1. q = <<q[1], q[2]>> /\ q[1] \in 0..(T - 1) /\ q[2] \in 0..(T - 1)
    BY DEF Chunk
<1>2. T * q[2] <= T * (T - 1) /\ T * 0 <= T * q[2]
    BY <1>0, <1>1, TimesGrows
<1>3. T * (T - 1) = T * T - T /\ q[2] * T = T * q[2] /\ T * q[2] \in Int
    BY <1>0, <1>1
<1>4. Number(q) \in 0..(T * T - 1)
    BY <1>0, <1>1, <1>2, <1>3 DEF Number
<1>. QED
    BY <1>1, <1>4 DEF ChunkTotal

\* ... and tells the chunks apart.
LEMMA NumberTells ==
    ASSUME NEW q \in Chunk, NEW r \in Chunk, Number(q) = Number(r)
    PROVE  q = r
<1>. DEFINE T == totalChunkWidth
<1>0. T \in Nat \ {0}
    BY WidthIs
<1>1. /\ q[1] \in 0..(T - 1) /\ q[2] \in 0..(T - 1) /\ r[1] \in 0..(T - 1) /\ r[2] \in 0..(T - 1)
      /\ q = <<q[1], q[2]>> /\ r = <<r[1], r[2]>>
    BY NumberIs
<1>2. T * q[2] + q[1] = T * r[2] + r[1]
    BY <1>0, <1>1 DEF Number
<1>3. ASSUME NEW a \in Int, NEW b \in Int, a < b PROVE T * a + T <= T * b
    <2>1. T * (a + 1) <= T * b
        BY <1>0, <1>3, TimesGrows
    <2>2. T * (a + 1) = T * a + T
        BY <1>0, <1>3
    <2>. QED BY <2>1, <2>2
<1>. HIDE DEF T
<1>4. T * q[2] \in Int /\ T * r[2] \in Int
    BY <1>0, <1>1
<1>5. ~ q[2] < r[2]
    <2>1. SUFFICES ASSUME q[2] < r[2] PROVE FALSE
        OBVIOUS
    <2>2. T * q[2] + T <= T * r[2]
        BY <2>1, <1>1, <1>3
    <2>. QED BY <2>2, <1>0, <1>1, <1>2, <1>4
<1>6. ~ r[2] < q[2]
    <2>1. SUFFICES ASSUME r[2] < q[2] PROVE FALSE
        OBVIOUS
    <2>2. T * r[2] + T <= T * q[2]
        BY <2>1, <1>1, <1>3
    <2>. QED BY <2>2, <1>0, <1>1, <1>2, <1>4
<1>7. q[2] = r[2]
    BY <1>5, <1>6, <1>0, <1>1
<1>8. q[1] = r[1]
    BY <1>7, <1>2, <1>4, <1>1, <1>0
<1>. QED
    BY <1>7, <1>8, <1>1

\* Counting on from any chunk comes around the map, chunk by chunk.
LEMMA CellIs ==
    ASSUME NEW m \in 0..(ChunkTotal + ChunkTotal)
    PROVE  /\ Cell(m) \in Chunk
           /\ m < ChunkTotal => Number(Cell(m)) = m
           /\ m >= ChunkTotal /\ m < ChunkTotal + ChunkTotal => Number(Cell(m)) = m - ChunkTotal
           /\ m = ChunkTotal + ChunkTotal => Number(Cell(m)) = 0
<1>. DEFINE T == totalChunkWidth
            a == m \div T
            r == m % T
            b == a \div T
            s == a % T
            n == s * T + r
<1>0. T \in Nat \ {0} /\ ChunkTotal \in Nat \ {0} /\ m \in Nat
    BY WidthIs
<1>1. a \in Int /\ r \in 0..(T - 1) /\ m = (T * a) + r
    BY <1>0, DivisionIs
<1>2. b \in Int /\ s \in 0..(T - 1) /\ a = (T * b) + s
    BY <1>0, <1>1, DivisionIs
<1>3. Cell(m) = <<r, s>> /\ Cell(m) \in Chunk
    BY <1>1, <1>2 DEF Cell, Chunk
<1>4. Number(Cell(m)) = n /\ n \in 0..(ChunkTotal - 1)
    BY <1>3, NumberIs DEF Number
<1>. HIDE DEF T, a, r, b, s
<1>5. m = (ChunkTotal * b) + n
    <2>1. T * ((T * b) + s) = ((T * T) * b) + (s * T)
        BY <1>0, <1>2
    <2>2. T * T = ChunkTotal
        BY DEF T, ChunkTotal
    <2>. QED BY <1>1, <1>2, <2>1, <2>2, <1>0
<1>. HIDE DEF n
<1>6. ASSUME NEW k \in Int, b <= k PROVE ChunkTotal * b <= ChunkTotal * k
    BY <1>0, <1>2, <1>6, TimesGrows
<1>7. ASSUME NEW k \in Int, k <= b PROVE ChunkTotal * k <= ChunkTotal * b
    BY <1>0, <1>2, <1>7, TimesGrows
<1>8. /\ ChunkTotal * (-1) = -ChunkTotal /\ ChunkTotal * 0 = 0 /\ ChunkTotal * 1 = ChunkTotal
      /\ ChunkTotal * 2 = ChunkTotal + ChunkTotal /\ ChunkTotal * 3 = ChunkTotal + ChunkTotal + ChunkTotal
      /\ ChunkTotal * b \in Int
    BY <1>0, <1>2
<1>9. b >= 0
    <2>1. SUFFICES ASSUME b <= -1 PROVE FALSE
        BY <1>2
    <2>2. ChunkTotal * b <= ChunkTotal * (-1)
        BY <2>1, <1>6
    <2>. QED BY <2>2, <1>8, <1>5, <1>4, <1>0
<1>10. b <= 2
    <2>1. SUFFICES ASSUME b >= 3 PROVE FALSE
        BY <1>2
    <2>2. ChunkTotal * 3 <= ChunkTotal * b
        BY <2>1, <1>7
    <2>. QED BY <2>2, <1>8, <1>5, <1>4, <1>0
<1>11. b = 0 \/ b = 1 \/ b = 2
    BY <1>9, <1>10, <1>2
<1>12. m = n \/ m = ChunkTotal + n \/ m = ChunkTotal + ChunkTotal + n
    <2>. DEFINE w == ChunkTotal * b
    <2>1. w = ChunkTotal * 0 \/ w = ChunkTotal * 1 \/ w = ChunkTotal * 2
        BY Zenon, <1>11
    <2>2. m = w + n /\ w \in Int /\ n \in Int
        BY <1>5, <1>8, <1>4
    <2>. HIDE DEF w
    <2>. QED BY <2>1, <2>2, <1>8, <1>0
<1>13. n \in Int /\ n >= 0 /\ n < ChunkTotal /\ m <= ChunkTotal + ChunkTotal
    BY <1>4, <1>0
<1>. QED
    BY <1>3, <1>4, <1>12, <1>13, <1>0

\* The steps from one number to another.
LEMMA AfterIs ==
    ASSUME NEW i \in 0..ChunkTotal, NEW b \in 0..(ChunkTotal - 1)
    PROVE  After(i, b) \in 0..ChunkTotal
BY WidthIs DEF After

\* Where the search for the next column begins.
Start(p) == IF p[1] < totalChunkWidth THEN p[2] * totalChunkWidth + p[1]
            ELSE (p[2] + 1) * totalChunkWidth
Found(p, n) == InRange(Cell(Start(p) + n)[1], Cell(Start(p) + n)[2])

\* Where the search for the next chunk starts (20879-20890).
LEMMA StartIs ==
    ASSUME NEW p, p[1] \in Nat, p[2] \in 0..(totalChunkWidth - 1)
    PROVE  /\ Start(p) \in 0..ChunkTotal
           /\ p[1] <= totalChunkWidth => Start(p) = Number(p)
<1>. DEFINE T == totalChunkWidth
<1>0. T \in Nat \ {0}
    BY WidthIs
<1>1. T * p[2] <= T * (T - 1) /\ T * 0 <= T * p[2]
    BY <1>0, TimesGrows
<1>2. T * (T - 1) = T * T - T /\ p[2] * T = T * p[2] /\ T * p[2] \in Int /\ (p[2] + 1) * T = (T * p[2]) + T
    BY <1>0
<1>3. T * T \in Int /\ T * T = ChunkTotal
    BY <1>0 DEF ChunkTotal
<1>. DEFINE w == T * p[2]
<1>4. Start(p) = IF p[1] < T THEN w + p[1] ELSE w + T
    BY <1>2 DEF Start
<1>5. w \in Int /\ w <= ChunkTotal - T /\ 0 <= w
    BY <1>1, <1>2, <1>3, <1>0
<1>6. Number(p) = w + p[1]
    BY <1>2 DEF Number
<1>. HIDE DEF w, T
<1>7. Start(p) \in 0..ChunkTotal
    BY <1>4, <1>5, <1>0, <1>3
<1>8. p[1] <= T => Start(p) = Number(p)
    BY <1>4, <1>5, <1>6, <1>0
<1>. QED
    BY <1>7, <1>8 DEF T

\* A chunk in range is found by it.
LEMMA FoundIs ==
    ASSUME NEW p, p[1] \in Nat, p[2] \in 0..(totalChunkWidth - 1),
           NEW q \in Chunk, InRange(q[1], q[2])
    PROVE  Found(p, After(Start(p), Number(q)))
<1>. DEFINE i == Start(p)
            n == After(i, Number(q))
<1>1. i \in 0..ChunkTotal /\ Number(q) \in 0..(ChunkTotal - 1) /\ ChunkTotal \in Nat
    BY StartIs, NumberIs, WidthIs
<1>2. \/ i + n = Number(q)
      \/ i + n = Number(q) + ChunkTotal
    BY <1>1 DEF After
<1>3. i + n \in 0..(ChunkTotal + ChunkTotal)
    BY <1>1, <1>2
<1>4. Cell(i + n) \in Chunk /\ Number(Cell(i + n)) = Number(q)
    <2>. DEFINE m == i + n
    <2>. HIDE DEF m, i, n
    <2>1. m \in 0..(ChunkTotal + ChunkTotal) /\ (m = Number(q) \/ m = Number(q) + ChunkTotal)
        BY <1>2, <1>3 DEF m
    <2>2. Cell(m) \in Chunk /\ Number(Cell(m)) = Number(q)
        BY <2>1, <1>1, CellIs
    <2>. QED BY <2>2 DEF m
<1>5. Cell(i + n) = q
    BY <1>4, NumberTells
<1>. QED
    BY <1>5 DEF Found

\* The chunk it takes is in range, and no chunk in range lies before it.
LEMMA NextChunkIs ==
    ASSUME NEW p, p[1] \in Nat, p[2] \in 0..(totalChunkWidth - 1),
           layout \in Layouts, updated = {c \in Chunk : InRange(c[1], c[2])}, updated # {},
           ~InRange(p[1], p[2])
    PROVE  /\ NextChunk(p) \in updated
           /\ \A q \in updated : After(Start(p), Number(NextChunk(p))) <= After(Start(p), Number(q))
<1>. DEFINE i == Start(p)
            N == ChunkTotal
            S == {n \in 0..N : Found(p, n)}
<1>1. i \in 0..N /\ N \in Nat
    BY StartIs, WidthIs
<1>2. \A q \in updated : /\ q \in Chunk /\ Number(q) \in 0..(N - 1)
                         /\ After(i, Number(q)) \in S
    <2>1. TAKE q \in updated
    <2>2. q \in Chunk /\ Number(q) \in 0..(N - 1)
        BY NumberIs
    <2>3. After(i, Number(q)) \in 0..N
        BY <1>1, <2>2, AfterIs
    <2>4. Found(p, After(i, Number(q)))
        BY FoundIs
    <2>. QED BY <2>2, <2>3, <2>4
<1>3. S \in SUBSET Nat /\ S # {}
    BY <1>1, <1>2
<1>4. PICK m \in S : \A n \in S : m <= n
    <2>. HIDE DEF S
    <2>. QED BY <1>3, LeastExists
<1>. DEFINE least == CHOOSE n \in 0..N : Found(p, n) /\ \A k \in 0..(n - 1) : ~Found(p, k)
<1>5. m \in 0..N /\ Found(p, m) /\ \A k \in 0..(m - 1) : ~Found(p, k)
    BY <1>4, <1>1
<1>6. least \in 0..N /\ Found(p, least) /\ \A k \in 0..(least - 1) : ~Found(p, k)
    BY <1>5
<1>7. NextChunk(p) = Cell(i + least)
    BY totalChunkWidth * totalChunkWidth = N, Zenon DEF NextChunk, Cell, Found, Start, ChunkTotal
<1>. HIDE DEF least, i
<1>8. Cell(i + least) \in Chunk /\ InRange(Cell(i + least)[1], Cell(i + least)[2])
    <2>1. i + least \in 0..(ChunkTotal + ChunkTotal)
        BY <1>1, <1>6
    <2>2. Cell(i + least) \in Chunk
        BY <2>1, CellIs
    <2>. QED BY <2>2, <1>6 DEF Found, i
<1>9. NextChunk(p) \in updated
    BY <1>7, <1>8
<1>10. After(i, Number(NextChunk(p))) <= least
    <2>. DEFINE k == i + least
    <2>1. k \in 0..(N + N)
        BY <1>1, <1>6
    <2>2. /\ k < N => Number(Cell(k)) = k
          /\ k >= N /\ k < N + N => Number(Cell(k)) = k - N
          /\ k = N + N => Number(Cell(k)) = 0
        <3>. HIDE DEF k
        <3>. QED BY <2>1, CellIs
    <2>3. Number(NextChunk(p)) = Number(Cell(k))
        BY <1>7
    <2>. HIDE DEF N
    <2>. QED BY <2>1, <2>2, <2>3, <1>1, <1>6 DEF After, N
<1>11. \A q \in updated : least <= After(i, Number(q))
    <2>1. TAKE q \in updated
    <2>2. After(i, Number(q)) \in 0..N /\ Found(p, After(i, Number(q)))
        BY <1>2
    <2>3. ~(After(i, Number(q)) \in 0..(least - 1))
        BY <1>6, <2>2
    <2>. QED BY <2>2, <2>3, <1>6, <1>1
<1>12. \A q \in updated : After(i, Number(q)) \in Int
    BY <1>2
<1>13. After(i, Number(NextChunk(p))) \in Int /\ least \in Int
    BY <1>9, <1>12, <1>6
<1>14. \A q \in updated : After(i, Number(NextChunk(p))) <= After(i, Number(q))
    BY <1>10, <1>11, <1>12, <1>13
<1>. QED
    BY <1>9, <1>14 DEF i

\* What every world to start in has.
LEMMA LayoutIs ==
    ASSUME layout \in Layouts
    PROVE  /\ SoundLayout(layout) /\ layout.distance \in Nat /\ layout.player \in Chunk
           /\ layout.player[1] \in 0..(totalChunkWidth - 1)
           /\ layout.player[2] \in 0..(totalChunkWidth - 1)
<1>1. SoundLayout(layout)
    BY WorldsAssumption
<1>2. layout.distance \in Nat /\ layout.player \in Chunk
    BY <1>1 DEF SoundLayout
<1>3. /\ layout.player[1] \in 0..(totalChunkWidth - 1)
      /\ layout.player[2] \in 0..(totalChunkWidth - 1)
    BY <1>2, Zenon, NumberIs
<1>. QED
    BY <1>1, <1>2, <1>3

\* On a map that holds the range, the columns in range are chunks.
LEMMA InRangeIs ==
    ASSUME layout \in Layouts, NEW x \in Nat, NEW z \in Nat, InRange(x, z)
    PROVE  x <= layout.player[1] + layout.distance - 1
<1>1. /\ layout.player[1] \in Int /\ layout.player[2] \in Int /\ layout.distance \in Int
    BY LayoutIs, WidthIs
<1>2. abs_int(x - layout.player[1]) >= x - layout.player[1] /\ abs_int(x - layout.player[1]) \in Int
    BY <1>1 DEF abs_int
<1>3. abs_int(z - layout.player[2]) >= 0 /\ abs_int(z - layout.player[2]) \in Int
    BY <1>1 DEF abs_int
<1>4. abs_int(x - layout.player[1]) + abs_int(z - layout.player[2]) <= layout.distance - 1
    BY DEF InRange
<1>. QED
    BY <1>1, <1>2, <1>3, <1>4

\* There are finitely many chunks.
LEMMA ChunksFinite ==
    ASSUME updated = {c \in Chunk : InRange(c[1], c[2])}
    PROVE  /\ IsFiniteSet(updated) /\ updated \in SUBSET Chunk
           /\ chunksToUpdate \in Nat
           /\ updated # {} => chunksToUpdate \in Nat \ {0}
<1>1. IsFiniteSet(0..(totalChunkWidth - 1))
    BY WidthIs, FS_Interval
<1>2. IsFiniteSet(Chunk)
    BY <1>1, FS_Product DEF Chunk
<1>3. updated \in SUBSET Chunk
    OBVIOUS
<1>4. IsFiniteSet(updated)
    BY <1>2, <1>3, FS_Subset
<1>5. Cardinality(updated) \in Nat /\ (Cardinality(updated) = 0 <=> updated = {})
    BY <1>4, FS_CardinalityType, FS_EmptySet
<1>. QED
    BY <1>3, <1>4, <1>5 DEF chunksToUpdate

(* The next column is in range; on the map it is the first in range from    *)
(* where the round is.                                                      *)
LEMMA NextIs ==
    ASSUME layout \in Layouts, updated = {c \in Chunk : InRange(c[1], c[2])}, updated # {},
           NEW x \in Nat, NEW z \in 0..(totalChunkWidth - 1)
    PROVE  LET next == NextChunk(<<x, z>>) IN
           /\ next \in Nat \X (0..(totalChunkWidth - 1))
           /\ next[1] + 1 <= totalChunkWidth + layout.distance
           /\ OnMap /\ x <= totalChunkWidth =>
                /\ next \in updated
                /\ \A q \in updated : After(Number(<<x, z>>), Number(next))
                                        <= After(Number(<<x, z>>), Number(q))
<1>. DEFINE p == <<x, z>>
            next == NextChunk(p)
<1>0. /\ p[1] \in Nat /\ p[2] \in 0..(totalChunkWidth - 1) /\ totalChunkWidth \in Nat \ {0}
      /\ layout.player[1] \in 0..(totalChunkWidth - 1) /\ layout.distance \in Nat
    BY WidthIs, LayoutIs
<1>1. CASE ~InRange(p[1], p[2])
    <2>1. /\ next \in updated
          /\ \A q \in updated : After(Start(p), Number(next)) <= After(Start(p), Number(q))
        BY <1>0, <1>1, NextChunkIs
    <2>2. x <= totalChunkWidth => Start(p) = Number(p)
        BY <1>0, StartIs
    <2>3. next = <<next[1], next[2]>> /\ next[1] \in 0..(totalChunkWidth - 1) /\ next[2] \in 0..(totalChunkWidth - 1)
        BY <2>1, NumberIs
    <2>4. next \in Nat \X (0..(totalChunkWidth - 1))
        BY <2>3, <1>0
    <2>5. next[1] + 1 <= totalChunkWidth + layout.distance
        BY <2>3, <1>0
    <2>. QED BY <2>1, <2>2, <2>4, <2>5
<1>2. CASE InRange(p[1], p[2])
    <2>1. next = p
        BY <1>2 DEF NextChunk
    <2>2. x <= layout.player[1] + layout.distance - 1
        BY <1>2, InRangeIs
    <2>3. next \in Nat \X (0..(totalChunkWidth - 1)) /\ next[1] + 1 <= totalChunkWidth + layout.distance
        BY <2>1, <2>2, <1>0
    <2>4. ASSUME OnMap
          PROVE /\ next \in updated
                /\ \A q \in updated : After(Number(p), Number(next)) <= After(Number(p), Number(q))
        <3>1. x <= totalChunkWidth - 1
            BY <2>2, <2>4, <1>0 DEF OnMap
        <3>2. p \in Chunk
            BY <3>1, <1>0 DEF Chunk
        <3>3. next \in updated
            BY <2>1, <3>2, <1>2
        <3>4. Number(p) \in 0..(ChunkTotal - 1) /\ ChunkTotal \in Nat
            BY <3>2, NumberIs, WidthIs
        <3>5. After(Number(p), Number(p)) = 0
            BY <3>4 DEF After
        <3>6. ASSUME NEW q \in updated PROVE 0 <= After(Number(p), Number(q))
            <4>1. Number(q) \in 0..(ChunkTotal - 1)
                BY NumberIs
            <4>. QED BY <4>1, <3>4 DEF After
        <3>. QED BY <2>1, <3>3, <3>5, <3>6
    <2>. QED BY <2>3, <2>4
<1>. QED BY <1>1, <1>2

(* Steps around the map from the first chunk of a round and from the one    *)
(* after the last.                                                          *)
LEMMA AfterNext ==
    ASSUME NEW f \in 0..(ChunkTotal - 1), NEW a \in 0..(ChunkTotal - 1), NEW b \in 0..(ChunkTotal - 1)
    PROVE  /\ After(f, b) \in 0..(ChunkTotal - 1) /\ After(f, f) = 0
           /\ After(f, a) = After(f, b) => a = b
           /\ After(f, a) < After(f, b) => After(a + 1, b) = After(f, b) - After(f, a) - 1
           /\ After(f, b) <= After(f, a) =>
                After(a + 1, b) = ChunkTotal + After(f, b) - After(f, a) - 1
<1>1. ChunkTotal \in Nat
    BY WidthIs
<1>2. After(f, b) \in 0..(ChunkTotal - 1) /\ After(f, f) = 0
    BY <1>1 DEF After
<1>3. After(f, a) = After(f, b) => a = b
    BY <1>1 DEF After
<1>4. After(f, a) < After(f, b) => After(a + 1, b) = After(f, b) - After(f, a) - 1
    BY <1>1, SMTT(30) DEF After
<1>5. After(f, b) <= After(f, a) => After(a + 1, b) = ChunkTotal + After(f, b) - After(f, a) - 1
    BY <1>1, SMTT(30) DEF After
<1>. QED
    BY <1>2, <1>3, <1>4, <1>5

\* A new round has been to its first chunk.
LEMMA RoundBegins ==
    ASSUME Rounds, OnMap, NEW next \in updated
    PROVE  {next} = {q \in updated : Behind(next, q, next)}
<1>1. /\ updated \in SUBSET Chunk
    BY DEF Rounds
<1>2. ASSUME NEW q \in updated, Behind(next, q, next) PROVE q = next
    <2>1. Number(q) \in 0..(ChunkTotal - 1) /\ Number(next) \in 0..(ChunkTotal - 1)
        BY <1>1, NumberIs
    <2>2. After(Number(next), Number(q)) <= After(Number(next), Number(next))
        BY <1>2 DEF Behind
    <2>3. After(Number(next), Number(q)) \in 0..(ChunkTotal - 1) /\ After(Number(next), Number(next)) = 0
        BY <2>1, AfterNext
    <2>4. After(Number(next), Number(q)) = After(Number(next), Number(next))
        BY <2>2, <2>3
    <2>5. Number(q) = Number(next)
        BY <2>1, <2>4, AfterNext
    <2>. QED BY <2>5, <1>1, NumberTells
<1>3. Behind(next, next, next)
    <2>1. Number(next) \in 0..(ChunkTotal - 1)
        BY <1>1, NumberIs
    <2>2. After(Number(next), Number(next)) = 0
        BY <2>1, AfterNext
    <2>. QED BY <2>2 DEF Behind
<1>. QED BY <1>2, <1>3

\* A round that is not complete comes to a chunk it has not been to.
LEMMA RoundGoesOn ==
    ASSUME Rounds, OnMap, visited # <<>>, Len(visited) < chunksToUpdate,
           NEW next \in updated,
           \A q \in updated : After(Number(visited[Len(visited)]) + 1, Number(next))
                                <= After(Number(visited[Len(visited)]) + 1, Number(q))
    PROVE  /\ next \notin Been
           /\ Been \cup {next} = {q \in updated : Behind(visited[1], q, next)}
<1>. DEFINE last == visited[Len(visited)]
            f == Number(visited[1])
            a == Number(last)
            d(q) == After(f, Number(q))
            far(q) == After(a + 1, Number(q))
<1>1. /\ updated \in SUBSET Chunk /\ visited[1] \in updated /\ last \in updated
      /\ Been = {q \in updated : Behind(visited[1], q, last)}
      /\ Cardinality(Been) = Len(visited)
    BY DEF Rounds
<1>2. /\ f \in 0..(ChunkTotal - 1) /\ a \in 0..(ChunkTotal - 1)
      /\ \A q \in updated : Number(q) \in 0..(ChunkTotal - 1)
    BY <1>1, NumberIs
<1>3. \A q \in updated :
        /\ d(q) \in 0..(ChunkTotal - 1) /\ d(last) \in 0..(ChunkTotal - 1)
        /\ d(last) < d(q) => far(q) = d(q) - d(last) - 1
        /\ d(q) <= d(last) => far(q) = ChunkTotal + d(q) - d(last) - 1
    BY <1>2, AfterNext
<1>4. Been = {q \in updated : d(q) <= d(last)}
    BY <1>1 DEF Behind
<1>5. \A q \in updated : d(q) = d(next) => q = next
    <2>1. TAKE q \in updated
    <2>2. d(q) = d(next) => Number(q) = Number(next)
        BY <1>2, AfterNext
    <2>. QED BY <2>2, <1>1, NumberTells
<1>6. PICK r \in updated : d(last) < d(r)
    <2>1. Been # updated
        <3>1. chunksToUpdate \in Nat
            BY ChunksFinite DEF Rounds
        <3>2. Len(visited) # chunksToUpdate
            BY <3>1
        <3>. QED BY <1>1, <3>2 DEF chunksToUpdate
    <2>. QED BY <2>1, <1>4, <1>3
<1>7. \A q \in updated : far(next) <= far(q)
    OBVIOUS
<1>. HIDE DEF d, far
<1>8. ChunkTotal \in Nat
    BY WidthIs
<1>9. d(last) < d(next)
    <2>1. SUFFICES ASSUME d(next) <= d(last) PROVE FALSE
        BY <1>3
    <2>2. far(next) = ChunkTotal + d(next) - d(last) - 1
        BY <2>1, <1>3
    <2>3. far(r) = d(r) - d(last) - 1
        BY <1>3, <1>6
    <2>4. far(next) <= far(r)
        BY <1>7
    <2>5. d(next) \in 0..(ChunkTotal - 1) /\ d(last) \in 0..(ChunkTotal - 1) /\ d(r) \in 0..(ChunkTotal - 1)
        BY <1>3
    <2>. QED BY <2>2, <2>3, <2>4, <2>5, <1>8
<1>10. ASSUME NEW q \in updated
       PROVE  q \in Been \cup {next} <=> d(q) <= d(next)
    <2>1. d(q) \in 0..(ChunkTotal - 1) /\ d(next) \in 0..(ChunkTotal - 1) /\ d(last) \in 0..(ChunkTotal - 1)
        BY <1>3
    <2>2. CASE d(q) <= d(last)
        BY <2>1, <2>2, <1>4, <1>9
    <2>3. CASE d(last) < d(q)
        <3>1. far(q) = d(q) - d(last) - 1 /\ far(next) = d(next) - d(last) - 1
            BY <2>3, <1>3, <1>9
        <3>2. far(next) <= far(q)
            BY <1>7
        <3>3. d(next) <= d(q)
            BY <3>1, <3>2, <2>1
        <3>4. q \notin Been
            BY <2>1, <2>3, <1>4
        <3>5. d(q) <= d(next) <=> d(q) = d(next)
            BY <3>3, <2>1
        <3>. QED BY <3>4, <3>5, <1>5
    <2>. QED BY <2>1, <2>2, <2>3
<1>11. next \notin Been
    BY <1>9, <1>4, <1>3
<1>12. Been \subseteq updated
    BY <1>4
<1>13. Been \cup {next} = {q \in updated : d(q) <= d(next)}
    BY <1>10, <1>12
<1>. QED
    BY <1>11, <1>13 DEF Behind, d

(* An update that starts keeps the round in order.                         *)
LEMMA RoundKept ==
    ASSUME layout \in Layouts, Rounds, RoundTyped, updated # {}, NEW next,
           next = NextChunk(<<chunkXMapRedstone, chunkZMapRedstone>>),
           chunkXMapRedstone' = next[1] + 1, chunkZMapRedstone' = next[2],
           currentRedstoneChunk' = (currentRedstoneChunk + 1) % chunksToUpdate,
           visited' = IF currentRedstoneChunk = 0 THEN <<next>> ELSE Append(visited, next),
           updated' = updated, layout' = layout
    PROVE  Rounds' /\ RoundTyped'
<1>. DEFINE x == chunkXMapRedstone
            z == chunkZMapRedstone
            n == chunksToUpdate
            now == currentRedstoneChunk
<1>1. /\ x \in Nat /\ z \in 0..(totalChunkWidth - 1) /\ now \in Nat
      /\ updated = {c \in Chunk : InRange(c[1], c[2])}
      /\ n \in Nat \ {0} /\ IsFiniteSet(updated) /\ updated \in SUBSET Chunk
      /\ visited \in Seq(Nat \X Nat)
      /\ totalChunkWidth \in Nat \ {0} /\ layout.distance \in Nat
    BY ChunksFinite, WidthIs, LayoutIs DEF Rounds, RoundTyped
<1>2. /\ next \in Nat \X (0..(totalChunkWidth - 1))
      /\ next[1] + 1 <= totalChunkWidth + layout.distance
      /\ OnMap /\ x <= totalChunkWidth =>
           /\ next \in updated
           /\ \A q \in updated : After(Number(<<x, z>>), Number(next))
                                   <= After(Number(<<x, z>>), Number(q))
    BY <1>1, NextIs
<1>3. /\ next \in Nat \X Nat /\ next[1] \in Nat /\ next[2] \in 0..(totalChunkWidth - 1)
    BY <1>2, <1>1
<1>4. RoundTyped'
    <2>1. chunkXMapRedstone' \in 0..(totalChunkWidth + layout.distance)
        BY <1>1, <1>2, <1>3
    <2>2. currentRedstoneChunk' \in Nat
        BY <1>1
    <2>. QED BY <2>1, <2>2 DEF RoundTyped
<1>n. n \in Nat \ {0} /\ Len(visited) \in Nat /\ DOMAIN visited = 1..Len(visited)
    BY <1>1
<1>5. visited' \in Seq(Nat \X Nat) /\ visited' # <<>>
    <2>1. <<next>> \in Seq(Nat \X Nat) /\ <<next>> # <<>>
        BY <1>3
    <2>2. Append(visited, next) \in Seq(Nat \X Nat) /\ Append(visited, next) # <<>>
        <3>. DEFINE P == Nat \X Nat
        <3>1. visited \in Seq(P) /\ next \in P
            BY <1>1, <1>3
        <3>. HIDE DEF P
        <3>2. Append(visited, next) \in Seq(P) /\ Append(visited, next) # <<>>
            BY <3>1, AppendProperties
        <3>. QED BY <3>2 DEF P
    <2>. QED BY <2>1, <2>2
<1>6. /\ updated' = {c \in Chunk : InRange(c[1], c[2])'}
      /\ chunkZMapRedstone' \in 0..(totalChunkWidth - 1)
      /\ OnMap' = OnMap /\ chunksToUpdate' = chunksToUpdate
    BY <1>1, <1>3 DEF InRange, OnMap, chunksToUpdate
<1>7. ASSUME OnMap
      PROVE /\ Len(visited') <= n
            /\ currentRedstoneChunk' = Len(visited') % n
            /\ visited'[Len(visited')] = next /\ next \in updated /\ visited'[1] \in updated
            /\ Been' = {q \in updated : Behind(visited'[1], q, next)}
            /\ Cardinality(Been') = Len(visited')
    <2>0. n = chunksToUpdate
        OBVIOUS
    <2>1. x <= totalChunkWidth
        <3>1. CASE visited = <<>>
            BY <3>1, <1>1 DEF Rounds
        <3>2. CASE visited # <<>>
            <4>1. visited[Len(visited)] \in updated /\ x = visited[Len(visited)][1] + 1
                BY <3>2, <1>7 DEF Rounds
            <4>2. visited[Len(visited)][1] \in 0..(totalChunkWidth - 1)
                BY <4>1, <1>1, NumberIs
            <4>. QED BY <4>1, <4>2, <1>1
        <3>. QED BY <3>1, <3>2
    <2>2. /\ next \in updated
          /\ \A q \in updated : After(Number(<<x, z>>), Number(next))
                                  <= After(Number(<<x, z>>), Number(q))
        BY <1>2, <1>7, <2>1
    <2>3. CASE now = 0
        <3>1. visited' = <<next>>
            BY <2>3
        <3>2. Been' = {next} /\ Len(visited') = 1 /\ visited'[1] = next
            BY <3>1 DEF Been
        <3>3. {next} = {q \in updated : Behind(next, q, next)}
            BY <1>7, <2>2, RoundBegins
        <3>4. currentRedstoneChunk' = 1 % n /\ 1 <= n
            BY <2>3, <1>1
        <3>. QED BY <2>2, <3>2, <3>3, <3>4, FS_Singleton
    <2>4. CASE now # 0
        <3>. DEFINE last == visited[Len(visited)]
        <3>1. visited # <<>>
            BY <2>4 DEF Rounds
        <3>2. /\ Len(visited) <= n /\ now = Len(visited) % n
              /\ last \in updated /\ visited[1] \in updated
              /\ x = last[1] + 1 /\ z = last[2]
              /\ Cardinality(Been) = Len(visited)
              /\ Been = {q \in updated : Behind(visited[1], q, last)}
            BY <3>1, <1>7 DEF Rounds
        <3>3. Len(visited) \in Nat \ {0}
            BY <3>1, <1>1
        <3>4. Len(visited) < n /\ now = Len(visited)
            <4>1. Len(visited) # n
                <5>1. n % n = 0
                    BY <1>1
                <5>. QED BY <5>1, <3>2, <2>4
            <4>. DEFINE k == Len(visited)
            <4>2. k \in Nat \ {0} /\ k <= n /\ k # n
                BY <4>1, <3>2, <3>3
            <4>. HIDE DEF k, n
            <4>3. k < n /\ k % n = k
                BY <4>2, <1>n
            <4>. QED BY <4>3, <3>2 DEF k
        <3>5. Number(<<x, z>>) = Number(last) + 1
            <4>1. last[1] \in 0..(totalChunkWidth - 1) /\ last[2] \in 0..(totalChunkWidth - 1)
                BY <3>2, <1>1, NumberIs
            <4>. DEFINE w == last[2] * totalChunkWidth
            <4>2. w \in Int
                BY <4>1, <1>1
            <4>3. Number(<<x, z>>) = w + (last[1] + 1) /\ Number(last) = w + last[1]
                BY <3>2 DEF Number
            <4>. HIDE DEF w
            <4>. QED BY <4>1, <4>2, <4>3
        <3>6. /\ next \notin Been
              /\ Been \cup {next} = {q \in updated : Behind(visited[1], q, next)}
            <4>1. \A q \in updated : After(Number(last) + 1, Number(next))
                                       <= After(Number(last) + 1, Number(q))
                BY <2>2, <3>5
            <4>. QED BY <4>1, <3>1, <3>4, <1>7, <2>2, <2>0, RoundGoesOn
        <3>7. visited' = Append(visited, next)
            BY <2>4
        <3>8. /\ Len(visited') = Len(visited) + 1 /\ visited'[Len(visited')] = next
              /\ visited'[1] = visited[1]
              /\ DOMAIN visited' = DOMAIN visited \cup {Len(visited) + 1}
              /\ \A i \in DOMAIN visited : visited'[i] = visited[i]
            BY <3>7, <3>3, <1>n, <1>1, <1>3, AppendProperties
        <3>9. Been' = Been \cup {next}
            BY <3>8 DEF Been
        <3>10. IsFiniteSet(Been)
            <4>1. Been \in SUBSET updated
                BY <3>2
            <4>. QED BY <4>1, <1>1, FS_Subset
        <3>11. Cardinality(Been') = Len(visited) + 1
            BY <3>9, <3>10, <3>6, <3>2, FS_AddElement
        <3>12. Len(visited') <= n /\ currentRedstoneChunk' = Len(visited') % n
            BY <3>8, <3>4, <3>3, <1>1
        <3>. QED BY <3>8, <3>12, <2>2, <3>2, <3>9, <3>6, <3>11
    <2>. QED BY <2>3, <2>4
<1>8. OnMap' => /\ Len(visited') <= chunksToUpdate'
                /\ currentRedstoneChunk' = Len(visited') % chunksToUpdate'
                /\ visited'[Len(visited')] \in updated' /\ visited'[1] \in updated'
                /\ <<chunkXMapRedstone, chunkZMapRedstone>>' =
                      <<visited'[Len(visited')][1] + 1, visited'[Len(visited')][2]>>
                /\ Been' = {q \in updated' : Behind(visited'[1], q, visited'[Len(visited')])}
                /\ Cardinality(Been') = Len(visited')
    BY <1>6, <1>7
<1>9. Rounds'
    BY <1>5, <1>6, <1>8 DEF Rounds, Behind
<1>. QED
    BY <1>4, <1>9

\* A round that begins anew has been to every chunk in range.
LEMMA RoundVisits ==
    ASSUME Rounds
    PROVE  RoundVisitsRange
<1>1. SUFFICES ASSUME OnMap, currentRedstoneChunk = 0, visited # <<>>
      PROVE Been = updated
    BY DEF RoundVisitsRange, Been
<1>2. /\ Len(visited) <= chunksToUpdate /\ Len(visited) % chunksToUpdate = 0
      /\ Cardinality(Been) = Len(visited) /\ Been \in SUBSET updated
      /\ visited \in Seq(Nat \X Nat) /\ updated # {}
    BY <1>1 DEF Rounds
<1>3. chunksToUpdate \in Nat \ {0} /\ IsFiniteSet(updated)
    BY <1>2, ChunksFinite DEF Rounds
<1>4. Len(visited) \in Nat \ {0}
    BY <1>1, <1>2
<1>5. Len(visited) = chunksToUpdate
    <2>1. Len(visited) < chunksToUpdate => Len(visited) % chunksToUpdate = Len(visited)
        BY <1>3, <1>4
    <2>. QED BY <2>1, <1>2, <1>3, <1>4
<1>. QED
    BY <1>2, <1>3, <1>5, FS_Subset DEF chunksToUpdate

----------------------------------------------------------------------------
(* The levels of the wires.                                                *)

Heard(g, lv, c, n) == IF ChunkOf(n) # chunk THEN D(n).v
                      ELSE IF Order(n) < Order(c) THEN g[n] ELSE lv[n]
LevelOf(g, lv, c) == IF WireSource(c) THEN 15
                     ELSE Highest({1} \cup {Heard(g, lv, c, n) : n \in Feeds(c)}) - 1
Swept(g, lv) == g = [c \in Wires(chunk) |-> LevelOf(g, lv, c)]

\* A sweep is a function that fits its own definition, if there is one.
LEMMA SweepChosen ==
    ASSUME NEW lv, \E g : Swept(g, lv)
    PROVE  Swept(Sweep(lv), lv)
<1>. DEFINE s == CHOOSE g : Swept(g, lv)
<1>1. Sweep(lv) = s
    BY DEF Sweep, Swept, LevelOf, Heard
<1>2. Swept(s, lv)
    OBVIOUS
<1>. QED BY <1>1, <1>2

\* The order of a sweep.
LEMMA OrderIs ==
    ASSUME NEW c \in Pos
    PROVE  Order(c) \in Nat /\ Order(c) < (height * width) * width
<1>. DEFINE w == width
            h == height
            a == c[2] * w + (c[3] % w)
<1>0. w \in Nat \ {0} /\ h \in Nat \ {0}
    BY MapAssumption
<1>1. c[1] \in Int /\ c[3] \in Int /\ c[2] \in 0..(h - 1)
    BY PosIs
<1>2. c[1] % w \in 0..(w - 1) /\ c[3] % w \in 0..(w - 1)
    BY <1>0, <1>1, DivisionIs
<1>3. w * c[2] <= w * (h - 1) /\ w * 0 <= w * c[2]
    BY <1>0, <1>1, TimesGrows
<1>4. w * (h - 1) = h * w - w /\ w * c[2] = c[2] * w /\ c[2] * w \in Int /\ h * w \in Int /\ w * 0 = 0
    BY <1>0, <1>1
<1>5. a \in Nat /\ a <= h * w - 1
    BY <1>0, <1>2, <1>3, <1>4
<1>. HIDE DEF a
<1>6. w * a <= w * (h * w - 1) /\ w * 0 <= w * a
    BY <1>0, <1>4, <1>5, TimesGrows
<1>7. w * (h * w - 1) = ((h * w) * w) - w /\ w * a = a * w /\ a * w \in Int /\ (h * w) * w \in Int
    BY <1>0, <1>4, <1>5
<1>8. a * w + (c[1] % w) \in Nat /\ a * w + (c[1] % w) < (h * w) * w
    BY <1>0, <1>2, <1>4, <1>6, <1>7
<1>9. Order(c) = a * w + (c[1] % w)
    BY DEF Order, a
<1>. QED BY <1>8, <1>9

\* The highest of some levels is one of them.
LEMMA HighestIs ==
    ASSUME NEW S \in SUBSET (0..15), S # {}
    PROVE  Highest(S) \in S /\ \A n \in S : n <= Highest(S)
<1>. DEFINE L == {15 - n : n \in S}
<1>0. \A n \in S : 15 - n \in Nat
    <2>1. TAKE n \in S
    <2>2. n \in 0..15
        OBVIOUS
    <2>. QED BY <2>2
<1>1. L \in SUBSET Nat /\ L # {}
    BY <1>0
<1>2. PICK m \in L : \A n \in L : m <= n
    <2>. HIDE DEF L
    <2>. QED BY <1>1, LeastExists
<1>3. PICK k \in S : m = 15 - k
    OBVIOUS
<1>4. ASSUME NEW n \in S PROVE n <= k
    <2>1. 15 - k <= 15 - n
        BY <1>2, <1>3
    <2>2. n \in 0..15 /\ k \in 0..15
        OBVIOUS
    <2>. QED BY <2>1, <2>2
<1>. QED
    BY <1>4 DEF Highest

\* Only wires feed a wire.
LEMMA FeedsAre ==
    ASSUME NEW c, NEW n \in Feeds(c)
    PROVE  n \in Pos /\ blocks[n] = "wire"
BY DEF Feeds, SeenAbove, Seen, K

Charged(lv) == DOMAIN lv = Wires(chunk) /\ \A c \in Wires(chunk) : lv[c] \in 0..15

\* What a wire hears is a level, ...
LEMMA HeardIs ==
    ASSUME blockData \in [Pos -> Bytes], WireLevels, NEW lv, Charged(lv),
           NEW c, NEW n \in Feeds(c), NEW g,
           n \in Wires(chunk) /\ Order(n) < Order(c) => g[n] \in 0..15
    PROVE  Heard(g, lv, c, n) \in 0..15
<1>1. n \in Pos /\ blocks[n] = "wire"
    BY FeedsAre
<1>2. CASE ChunkOf(n) # chunk
    <2>1. D(n) = blockData[n] /\ blockData[n].v \in 0..63 /\ blockData[n].v <= 15
        BY <1>1 DEF D, WireLevels, Bytes
    <2>. QED BY <1>2, <2>1 DEF Heard
<1>3. CASE ChunkOf(n) = chunk
    <2>1. n \in Wires(chunk)
        BY <1>1, <1>3 DEF Wires
    <2>. QED BY <1>3, <2>1 DEF Heard, Charged
<1>. QED BY <1>2, <1>3

\* ... and so is what it becomes, ...
LEMMA LevelIs ==
    ASSUME blockData \in [Pos -> Bytes], WireLevels, NEW lv, Charged(lv),
           NEW c \in Wires(chunk), NEW g,
           \A n \in Wires(chunk) : Order(n) < Order(c) => g[n] \in 0..15
    PROVE  LevelOf(g, lv, c) \in 0..15
<1>. DEFINE S == {1} \cup {Heard(g, lv, c, n) : n \in Feeds(c)}
<1>1. \A n \in Feeds(c) : Heard(g, lv, c, n) \in 0..15
    BY HeardIs
<1>2. S \in SUBSET (0..15) /\ 1 \in S
    BY <1>1
<1>. HIDE DEF S
<1>3. Highest(S) \in 0..15 /\ 1 <= Highest(S)
    BY <1>2, HighestIs
<1>4. Highest(S) - 1 \in 0..15
    BY <1>3
<1>. QED
    BY <1>4 DEF LevelOf, S

\* ... which goes by the wires before it in the sweep.
LEMMA LevelSame ==
    ASSUME NEW lv, NEW c \in Wires(chunk), NEW f, NEW g,
           \A n \in Wires(chunk) : Order(n) < Order(c) => f[n] = g[n]
    PROVE  LevelOf(f, lv, c) = LevelOf(g, lv, c)
<1>1. \A n \in Feeds(c) : Heard(f, lv, c, n) = Heard(g, lv, c, n)
    <2>1. TAKE n \in Feeds(c)
    <2>2. n \in Pos /\ blocks[n] = "wire"
        BY FeedsAre
    <2>3. ChunkOf(n) = chunk => n \in Wires(chunk)
        BY <2>2 DEF Wires
    <2>. QED BY <2>3 DEF Heard
<1>2. {Heard(f, lv, c, n) : n \in Feeds(c)} = {Heard(g, lv, c, n) : n \in Feeds(c)}
    BY <1>1
<1>. QED
    BY <1>2 DEF LevelOf

\* So a sweep can be built up wire by wire, ...
LEMMA SweepExists ==
    ASSUME blockData \in [Pos -> Bytes], WireLevels, NEW lv, Charged(lv)
    PROVE  \E g : Swept(g, lv)
<1>. DEFINE W == Wires(chunk)
            Upto(g, k) == \A c \in W : Order(c) < k => g[c] = LevelOf(g, lv, c)
            Q == {k \in Nat : \E g \in [W -> 0..15] : Upto(g, k)}
<1>0. W \in SUBSET Pos /\ \A c \in W : Order(c) \in Nat /\ Order(c) < (height * width) * width
    BY OrderIs DEF Wires
<1>1. 0 \in Q
    <2>1. [c \in W |-> 0] \in [W -> 0..15]
        OBVIOUS
    <2>2. Upto([c \in W |-> 0], 0)
        BY <1>0
    <2>. QED BY <2>1, <2>2
<1>2. ASSUME NEW k \in Nat, k \in Q PROVE k + 1 \in Q
    <2>1. PICK g \in [W -> 0..15] : Upto(g, k)
        BY <1>2
    <2>. DEFINE h == [c \in W |-> IF Order(c) = k THEN LevelOf(g, lv, c) ELSE g[c]]
    <2>2. \A c \in W : LevelOf(g, lv, c) \in 0..15
        BY <2>1, LevelIs
    <2>3. h \in [W -> 0..15]
        BY <2>1, <2>2
    <2>4. ASSUME NEW c \in W, Order(c) < k + 1 PROVE h[c] = LevelOf(h, lv, c)
        <3>1. \A n \in W : Order(n) < Order(c) => g[n] = h[n]
            BY <2>4, <1>0
        <3>2. LevelOf(g, lv, c) = LevelOf(h, lv, c)
            <4>. HIDE DEF h
            <4>. QED BY <3>1, LevelSame
        <3>3. h[c] = LevelOf(g, lv, c)
            <4>1. CASE Order(c) = k
                BY <4>1
            <4>2. CASE Order(c) # k
                <5>1. Order(c) < k
                    BY <4>2, <2>4, <1>0
                <5>2. g[c] = LevelOf(g, lv, c)
                    BY <5>1, <2>1
                <5>. QED BY <5>2, <4>2
            <4>. QED BY <4>1, <4>2
        <3>. QED BY <3>2, <3>3
    <2>5. Upto(h, k + 1)
        BY <2>4
    <2>. HIDE DEF h
    <2>. QED BY <2>3, <2>5
<1>3. \A k \in Nat : k \in Q
    <2>. HIDE DEF Q
    <2>. QED BY <1>1, <1>2, NumberInduction
<1>4. (height * width) * width \in Nat
    BY MapAssumption
<1>5. PICK g \in [W -> 0..15] : Upto(g, (height * width) * width)
    BY <1>3, <1>4
<1>6. \A c \in W : g[c] = LevelOf(g, lv, c)
    BY <1>0, <1>5
<1>. QED
    BY <1>6 DEF Swept

\* ... and gives a level to every wire of the chunk.
LEMMA SweepIs ==
    ASSUME blockData \in [Pos -> Bytes], WireLevels, NEW lv, Charged(lv)
    PROVE  Charged(Sweep(lv))
<1>. DEFINE W == Wires(chunk)
            s == Sweep(lv)
            Q == {k \in Nat : \A c \in W : Order(c) < k => s[c] \in 0..15}
<1>1. s = [c \in W |-> LevelOf(s, lv, c)]
    BY SweepExists, SweepChosen DEF Swept
<1>. HIDE DEF s
<1>0. W \in SUBSET Pos /\ \A c \in W : Order(c) \in Nat /\ Order(c) < (height * width) * width
    BY OrderIs DEF Wires
<1>2. 0 \in Q
    BY <1>0
<1>3. ASSUME NEW k \in Nat, k \in Q PROVE k + 1 \in Q
    <2>1. ASSUME NEW c \in W, Order(c) < k + 1 PROVE s[c] \in 0..15
        <3>1. \A n \in W : Order(n) < Order(c) => s[n] \in 0..15
            BY <1>3, <2>1, <1>0
        <3>2. LevelOf(s, lv, c) \in 0..15
            BY <3>1, LevelIs
        <3>. QED BY <3>2, <1>1
    <2>. QED BY <2>1
<1>4. \A k \in Nat : k \in Q
    <2>. HIDE DEF Q
    <2>. QED BY <1>2, <1>3, NumberInduction
<1>5. (height * width) * width \in Nat
    BY MapAssumption
<1>6. \A c \in W : s[c] \in 0..15
    BY <1>0, <1>4, <1>5
<1>7. DOMAIN s = W
    BY <1>1
<1>. QED
    BY <1>6, <1>7 DEF Charged, s

----------------------------------------------------------------------------
(* What the update of one block does, of whatever kind it is.              *)

Scanning == MapInv /\ phase = "scan"

\* Nothing turns into a block of a lasting kind, ...
Turns ==
    \A c \in Pos : \/ blocks'[c] = blocks[c] \/ blocks'[c] \notin Lasting
                   \/ {blocks[c], blocks'[c]} \subseteq Crop
                   \/ {blocks[c], blocks'[c]} \subseteq Farmland
\* ... and a block of such a kind is lost to tnt, to a tree, or by its own rule.
Loses ==
    \A c \in Pos : blocks[c] \in Lasting /\ blocks'[c] \notin Lasting =>
        \/ blocks[at] = "tnt" /\ c \in Blown(at)
        \/ /\ blocks[at] = "sapling" /\ c[1] = at[1] /\ c[3] = at[3] /\ c[2] >= at[2]
           /\ \A d \in Pos : d[1] = at[1] /\ d[3] = at[3] /\ d[2] >= at[2] /\ d[2] <= c[2] =>
                                 blocks'[d] = "log"
        \/ /\ c = at /\ blocks[at] \notin Fixed
           /\ blocks[at] \in Farmland => K(Plus(at, Up)) \notin Crop
           /\ blocks[at] \in Crop => at[2] > 0 /\ K(Plus(at, Down)) \notin Farmland
\* What changes in the chunk will be shown, and what changes in another is noted.
Draws ==
    \A c \in Pos :
        /\ \/ blocks'[c] = blocks[c] \/ blocks'[c] = "air"
           \/ ChunkOf(c) = chunk => "full" \in redraw' \/ Shape(blocks'[c]) = Shape(blocks[c])
        /\ \/ drawn'[c] = blocks'[c] \/ c \in foreign'
           \/ ChunkOf(c) = chunk /\ "full" \in redraw'
           \/ /\ drawn'[c] = drawn[c] /\ (c \in foreign => c \in foreign')
              /\ \/ blocks'[c] = blocks[c]
                 \/ ChunkOf(c) = chunk /\ redraw' # {} /\ Shape(blocks'[c]) = Shape(blocks[c])
Flows == \A c \in Pos : blocks'[c] \in Fluid => blocks[c] \in Fluid \/ blocks[at] \in Fluid
BlockFacts ==
    /\ blocks' \in [Pos -> Kinds] /\ drawn' \in [Pos -> Kinds] /\ foreign' \in SUBSET Pos
    /\ Turns /\ Loses /\ Draws /\ Flows

DataMarks ==
    /\ blockData' \in [Pos -> Bytes]
    /\ updateRedstoneData' \subseteq DOMAIN redstoneData'
    /\ \A c \in DOMAIN redstoneData' : redstoneData'[c] \in Bytes
    /\ \A c \in updateRedstoneData' \cap Pos : c \in updateRedstoneData \/ blocks[c] \notin Fixed
\* A fluid that dries may raise the level of what is below it.
Levels ==
    \A c \in Pos : blocks[c] \in Fixed =>
        \/ blockData'[c].v = blockData[c].v
        \/ /\ blocks[at] \in Fluid /\ blockData[c].v % 16 = 0
           /\ blockData'[c].v = blockData[c].v + 1
BlockMarks ==
    /\ redraw \subseteq redraw' /\ redraw' \subseteq {"textures", "light", "full"}
    /\ \A c \in DOMAIN redstoneBlockData' :
          \/ c \in DOMAIN redstoneBlockData /\ redstoneBlockData'[c] = redstoneBlockData[c]
          \/ /\ c = at /\ blocks' = blocks /\ redraw' # {}
             /\ {blocks[at], redstoneBlockData'[at]} \subseteq Turning
             /\ Shape(redstoneBlockData'[at]) = Shape(blocks[at])
    /\ \A c \in DOMAIN waterMovementChunk' :
          \/ c \in DOMAIN waterMovementChunk /\ waterMovementChunk'[c] = waterMovementChunk[c]
          \/ /\ c \in Pos /\ ChunkOf(c) = chunk /\ blocks[c] \notin Lasting
             /\ "full" \in redraw' /\ waterMovementChunk'[c] \in Fluid /\ blocks[at] \in Fluid

\* The groups of kinds do not overlap.
LEMMA KindsIs ==
    /\ Lasting \subseteq Kinds /\ Fluid \subseteq Kinds /\ Turning \subseteq Kinds
    /\ Lasting \cap Fluid = {} /\ Turning \cap Lasting = {} /\ "air" \notin Lasting
    /\ Crop \subseteq Lasting /\ Farmland \subseteq Lasting /\ Fixed \subseteq Lasting
    /\ Turning \cap Fluid = {} /\ "air" \notin Fluid
    /\ Crop \cap Farmland = {} /\ Crop \cap Fixed = {} /\ Farmland \cap Fixed = {}
    /\ "tnt" \notin (Crop \cup Farmland \cup Fixed \cup Fluid)
    /\ "sapling" \notin (Crop \cup Farmland \cup Fixed \cup Fluid)
    /\ "log" \notin Lasting /\ "log" \notin Fluid
BY DEF Lasting, Fixed, Crop, Farmland, Fluid, Turning, Kinds, Full

\* The cell the scan is at.
LEMMA ScanningIs ==
    ASSUME Scanning
    PROVE  /\ at \in Pos /\ ChunkOf(at) = chunk /\ K(at) = blocks[at] /\ blocks[at] # "air"
           /\ D(at) = blockData[at] /\ blockData[at] \in Bytes /\ blocks[at] \in Kinds
           /\ blocks \in [Pos -> Kinds] /\ drawn \in [Pos -> Kinds] /\ blockData \in [Pos -> Bytes]
           /\ foreign \in SUBSET Pos /\ redraw \subseteq {"textures", "light", "full"}
           /\ updateRedstoneData \subseteq DOMAIN redstoneData
           /\ \A c \in DOMAIN redstoneData : redstoneData[c] \in Bytes
BY DEF Scanning, MapInv, TypeOK, K, D

\* The cells above and below.
LEMMA AboveIs ==
    ASSUME NEW c \in Pos
    PROVE  /\ Plus(c, Up) = <<c[1], c[2] + 1, c[3]>> /\ Plus(c, Down) = <<c[1], c[2] - 1, c[3]>>
           /\ c[2] > 0 => Plus(c, Down) \in Pos
           /\ Plus(c, Down) \in Pos => c[2] > 0
           /\ Plus(c, Up) \in Pos => c[2] + 1 <= height - 1
           /\ c[2] + 1 <= height - 1 => Plus(c, Up) \in Pos
           /\ Plus(c, Up) \in Pos => ChunkOf(Plus(c, Up)) = ChunkOf(c)
           /\ Plus(c, Down) \in Pos => ChunkOf(Plus(c, Down)) = ChunkOf(c)
<1>0. /\ c[1] \in Int /\ c[2] \in Int /\ c[3] \in Int
      /\ c[1] \in 0..(width * totalChunkWidth - 1) /\ c[2] \in 0..(height - 1)
      /\ c[3] \in 0..(width * totalChunkWidth - 1)
      /\ height \in Nat
    BY PosIs, MapAssumption
<1>1. Plus(c, Up) = <<c[1], c[2] + 1, c[3]>> /\ Plus(c, Down) = <<c[1], c[2] - 1, c[3]>>
    BY <1>0 DEF Plus, Up, Down
<1>2. (c[2] > 0 => c[2] - 1 \in 0..(height - 1)) /\ (c[2] - 1 \in 0..(height - 1) => c[2] > 0)
    BY <1>0
<1>3. c[2] + 1 \in 0..(height - 1) <=> c[2] + 1 <= height - 1
    BY <1>0
<1>7. ASSUME NEW y PROVE <<c[1], y, c[3]>> \in Pos <=> y \in 0..(height - 1)
    BY <1>0 DEF Pos
<1>4. Plus(c, Up) \in Pos <=> c[2] + 1 \in 0..(height - 1)
    BY <1>1, <1>7
<1>5. Plus(c, Down) \in Pos <=> c[2] - 1 \in 0..(height - 1)
    BY <1>1, <1>7
<1>6. ChunkOf(Plus(c, Up)) = ChunkOf(c) /\ ChunkOf(Plus(c, Down)) = ChunkOf(c)
    BY <1>1 DEF ChunkOf
<1>. QED
    BY <1>1, <1>2, <1>3, <1>4, <1>5, <1>6

\* What the kinds that last may have turned to.
LEMMA TurnsIs ==
    ASSUME Scanning, Turns, NEW c \in Pos
    PROVE  /\ blocks'[c] \in Fixed \cup {"tnt", "sapling"} => blocks[c] = blocks'[c]
           /\ blocks'[c] \in Crop => blocks[c] \in Crop
           /\ blocks'[c] \in Farmland => blocks[c] \in Farmland
           /\ blocks[c] \notin Lasting => blocks'[c] \notin Lasting
           /\ blocks[c] \in Fixed => blocks'[c] = blocks[c] \/ blocks'[c] \notin Lasting
           /\ blocks[c] \in Crop => blocks'[c] \in Crop \/ blocks'[c] \notin Lasting
           /\ blocks[c] \in Farmland => blocks'[c] \in Farmland \/ blocks'[c] \notin Lasting
BY KindsIs DEF Turns, Lasting, Fixed

\* How a block of a lasting kind is lost, in terms of the world it started in.
LEMMA LosesIs ==
    ASSUME Scanning, Loses, NEW c \in Pos, blocks[c] \in Lasting, blocks'[c] \notin Lasting
    PROVE  \/ Mined(c)
           \/ /\ layout.blocks[at] = "sapling" /\ c[1] = at[1] /\ c[3] = at[3] /\ c[2] >= at[2]
              /\ blocks[at] = "sapling"
              /\ \A d \in Pos : d[1] = at[1] /\ d[3] = at[3] /\ d[2] >= at[2] /\ d[2] <= c[2] =>
                                 blocks'[d] = "log"
           \/ /\ c = at /\ blocks[at] \notin Fixed
              /\ blocks[at] \in Farmland => K(Plus(at, Up)) \notin Crop
              /\ blocks[at] \in Crop => at[2] > 0 /\ K(Plus(at, Down)) \notin Farmland
<1>1. at \in Pos /\ NoneNew
    BY ScanningIs DEF Scanning, MapInv
<1>2. ASSUME blocks[at] = "tnt", c \in Blown(at) PROVE Mined(c)
    <2>1. layout.blocks[at] = "tnt"
        BY <1>1, <1>2 DEF NoneNew
    <2>. QED BY <2>1, <1>1, <1>2 DEF Mined
<1>3. blocks[at] = "sapling" => layout.blocks[at] = "sapling"
    BY <1>1 DEF NoneNew
<1>. QED
    BY <1>2, <1>3 DEF Loses

(* Doors and wires, when only a drying fluid changes their levels.         *)
LEMMA LevelsKeep ==
    ASSUME Scanning, Turns, Loses, Levels, blocks' \in [Pos -> Kinds], blockData' \in [Pos -> Bytes],
           layout' = layout
    PROVE  DoorWhole' /\ WireLevels'
<1>0. /\ at \in Pos /\ K(at) = blocks[at]
      /\ NoneNew /\ DoorWhole /\ WireLevels
    BY ScanningIs DEF Scanning, MapInv
<1>1. WireLevels'
    <2>1. SUFFICES ASSUME NEW c \in Pos, blocks'[c] = "wire" PROVE blockData'[c].v <= 15
        BY DEF WireLevels
    <2>2. blocks[c] = "wire" /\ blocks[c] \in Fixed
        BY <2>1, TurnsIs DEF Fixed
    <2>3. blockData[c].v <= 15 /\ blockData[c].v \in 0..63
        BY <2>2, <1>0, ScanningIs DEF WireLevels, Bytes
    <2>. DEFINE v == blockData[c].v
                w == blockData'[c].v
    <2>4. w = v \/ (v % 16 = 0 /\ w = v + 1)
        BY <2>2 DEF Levels
    <2>. HIDE DEF v, w
    <2>5. v <= 15 /\ v \in 0..63
        BY <2>3 DEF v
    <2>6. w <= 15
        BY <2>4, <2>5
    <2>. QED BY <2>6 DEF w
<1>2. DoorWhole'
    <2>1. SUFFICES ASSUME NEW c \in Pos, blocks'[c] = "doorBottom", DoorSafe(c)
          PROVE  /\ Plus(c, Up) \in Pos /\ blocks'[Plus(c, Up)] = "doorTop"
                 /\ blockData'[Plus(c, Up)].v = blockData'[c].v
                 /\ shutRotation(blockData'[c]) = shutRotation(layout.data[c])
        BY DEF DoorWhole, DoorSafe, Mined, K, D
    <2>. DEFINE u == Plus(c, Up)
    <2>2. blocks[c] = "doorBottom"
        BY <2>1, TurnsIs DEF Fixed
    <2>3. u \in Pos /\ blocks[u] = "doorTop" /\ blockData[u].v = blockData[c].v
          /\ shutRotation(blockData[c]) = shutRotation(layout.data[c])
        BY <1>0, <2>1, <2>2 DEF DoorWhole, K, D
    <2>4. ~Mined(u) /\ u = <<c[1], c[2] + 1, c[3]>> /\ c[2] \in Int /\ at[2] \in Int
        BY <2>1, <1>0, AboveIs, PosIs DEF DoorSafe
    <2>5. blocks'[u] = "doorTop"
        <3>1. SUFFICES ASSUME blocks'[u] \notin Lasting PROVE FALSE
            BY <2>3, TurnsIs DEF Fixed
        <3>2. blocks[u] \in Lasting /\ blocks[u] \in Fixed
            BY <2>3 DEF Lasting, Fixed
        <3>3. at # u
            <4>1. SUFFICES ASSUME at = u PROVE FALSE
                OBVIOUS
            <4>2. blocks[at] \in Fixed /\ blocks[at] # "sapling"
                BY <4>1, <2>3 DEF Fixed
            <4>. QED BY <4>1, <4>2, <3>1, <3>2, <2>3, <2>4, LosesIs
        <3>. HIDE DEF u
        <3>4. /\ u[1] = at[1] /\ u[3] = at[3] /\ u[2] >= at[2] /\ blocks[at] = "sapling"
              /\ \A d \in Pos : d[1] = at[1] /\ d[3] = at[3] /\ d[2] >= at[2] /\ d[2] <= u[2] =>
                                 blocks'[d] = "log"
            BY <3>1, <3>2, <3>3, <2>3, <2>4, LosesIs
        <3>5. u[1] = c[1] /\ u[2] = c[2] + 1 /\ u[3] = c[3]
            BY <2>4
        <3>6. at = <<at[1], at[2], at[3]>>
            BY <1>0, PosIs
        <3>7. at[2] # u[2]
            BY <3>3, <3>4, <3>5, <3>6, <2>4
        <3>8. c[2] >= at[2] /\ c[2] <= u[2]
            BY <3>4, <3>5, <3>7, <2>4
        <3>9. blocks'[c] = "log"
            BY <3>8, <3>4, <3>5
        <3>. QED BY <3>9, <2>1
    <2>6. blockData[c] \in Bytes /\ blockData'[c] \in Bytes /\ blockData[c].v \in 0..63
        BY ScanningIs DEF Bytes
    <2>7. blockData'[c].v = blockData[c].v /\ blockData'[u].v = blockData[u].v
        <3>1. blocks[c] \in Fixed /\ blocks[u] \in Fixed
            BY <2>2, <2>3 DEF Fixed
        <3>2. SUFFICES ASSUME blocks[at] \in Fluid PROVE blockData[c].v % 16 # 0
            BY <3>1, <2>3 DEF Levels
        <3>3. ~ (\A d \in Pos : layout.blocks[d] \notin Fluid)
            BY <3>2, <1>0 DEF NoneNew
        <3>4. shutRotation(blockData[c]) # 0
            BY <3>3, <2>1, <2>3 DEF DoorSafe
        <3>. DEFINE v == blockData[c].v
        <3>5. (IF (v \div 4) % 2 = 1 THEN ((v % 4) + 3) % 4 ELSE v % 4) # 0
            BY <3>4 DEF shutRotation, Open, rotation
        <3>. HIDE DEF v
        <3>6. v \in 0..63
            BY <2>6 DEF v
        <3>7. v % 16 # 0
            BY <3>5, <3>6
        <3>. QED BY <3>7 DEF v
    <2>8. shutRotation(blockData'[c]) = shutRotation(blockData[c])
        BY <2>7 DEF shutRotation, Open, rotation
    <2>. QED BY <2>3, <2>5, <2>7, <2>8
<1>. QED BY <1>1, <1>2

----------------------------------------------------------------------------
(* The invariant after the update of a block.                              *)

\* A round goes by its own state.
LEMMA RoundsSame ==
    ASSUME Rounds, RoundTyped, layout' = layout, updated' = updated, round' = round
    PROVE  Rounds' /\ RoundTyped'
BY DEF Rounds, RoundTyped, round, InRange, OnMap, chunksToUpdate, Been, Behind, After, Number, ChunkTotal, abs_int

\* No block of a lasting kind, tnt, sapling or fluid is new.
LEMMA NoneNewKept ==
    ASSUME Scanning, Turns, Flows, BlockMarks, layout' = layout
    PROVE  NoneNew'
<1>0. NoneNew /\ at \in Pos
    BY ScanningIs DEF Scanning, MapInv
<1>1. ASSUME NEW c \in Pos, blocks'[c] \in Fixed \cup {"tnt", "sapling"}
      PROVE  layout.blocks[c] = blocks'[c]
    BY <1>0, <1>1, TurnsIs DEF NoneNew
<1>7. ASSUME NEW c \in Pos, blocks'[c] \in Farmland PROVE layout.blocks[c] \in Farmland
    BY <1>0, <1>7, TurnsIs DEF NoneNew
<1>2. ASSUME \A d \in Pos : layout.blocks[d] \notin Fluid
      PROVE  DOMAIN waterMovementChunk' = {} /\ \A c \in Pos : blocks'[c] \notin Fluid
    <2>1. DOMAIN waterMovementChunk = {} /\ \A c \in Pos : blocks[c] \notin Fluid
        BY <1>0, <1>2 DEF NoneNew
    <2>2. blocks[at] \notin Fluid
        BY <2>1, <1>0
    <2>3. \A c \in Pos : blocks'[c] \notin Fluid
        BY <2>1, <2>2 DEF Flows
    <2>4. \A c \in DOMAIN waterMovementChunk' : FALSE
        BY <2>1, <2>2 DEF BlockMarks
    <2>. QED BY <2>3, <2>4
<1>. QED
    BY <1>1, <1>7, <1>2 DEF NoneNew

\* The marks stay of this chunk, and on blocks that may turn.
LEMMA MarksKept ==
    ASSUME Scanning, Turns, Draws, DataMarks, BlockMarks, chunk' = chunk, phase' # "rest"
    PROVE  Marks'
<1>0. Marks /\ at \in Pos /\ ChunkOf(at) = chunk
    BY ScanningIs DEF Scanning, MapInv
<1>1. ASSUME NEW c \in updateRedstoneData' \cap Pos PROVE blocks'[c] \notin Fixed
    <2>1. SUFFICES ASSUME blocks'[c] \in Fixed PROVE FALSE
        OBVIOUS
    <2>2. blocks[c] \in Fixed
        BY <2>1, TurnsIs
    <2>3. c \in updateRedstoneData
        BY <2>2 DEF DataMarks
    <2>. QED BY <2>2, <2>3, <1>0 DEF Marks
<1>2. ASSUME NEW c \in DOMAIN redstoneBlockData'
      PROVE  /\ c \in Pos /\ ChunkOf(c) = chunk
             /\ blocks'[c] \notin Lasting /\ redstoneBlockData'[c] \in Turning
             /\ redraw' # {}
             /\ \/ blocks'[c] = "air" \/ "full" \in redraw'
                \/ Shape(redstoneBlockData'[c]) = Shape(blocks'[c])
    <2>1. CASE c \in DOMAIN redstoneBlockData /\ redstoneBlockData'[c] = redstoneBlockData[c]
        <3>1. /\ c \in Pos /\ ChunkOf(c) = chunk
              /\ blocks[c] \notin Lasting /\ redstoneBlockData[c] \in Turning
              /\ redraw # {}
              /\ \/ blocks[c] = "air" \/ "full" \in redraw
                 \/ Shape(redstoneBlockData[c]) = Shape(blocks[c])
            BY <2>1, <1>0 DEF Marks
        <3>2. redraw \subseteq redraw'
            BY DEF BlockMarks
        <3>3. blocks'[c] \notin Lasting
            BY <3>1, TurnsIs
        <3>4. \/ blocks'[c] = blocks[c] \/ blocks'[c] = "air"
              \/ "full" \in redraw' \/ Shape(blocks'[c]) = Shape(blocks[c])
            BY <3>1 DEF Draws
        <3>5. ASSUME blocks[c] = "air", Shape(blocks'[c]) = Shape(blocks[c])
              PROVE  blocks'[c] = "air"
            <4>1. Shape(blocks[c]) = "air"
                BY <3>5 DEF Shape, Full, Farmland, Crop
            <4>2. Shape(blocks'[c]) = "air"
                BY <4>1, <3>5
            <4>. QED BY <4>2 DEF Shape
        <3>. QED BY <2>1, <3>1, <3>2, <3>3, <3>4, <3>5
    <2>2. CASE /\ c = at /\ blocks' = blocks /\ redraw' # {}
               /\ {blocks[at], redstoneBlockData'[at]} \subseteq Turning
               /\ Shape(redstoneBlockData'[at]) = Shape(blocks[at])
        BY <2>2, <1>0, KindsIs
    <2>. QED BY <2>1, <2>2 DEF BlockMarks
<1>3. ASSUME NEW c \in DOMAIN waterMovementChunk'
      PROVE  c \in Pos /\ ChunkOf(c) = chunk /\ blocks'[c] \notin Lasting /\ "full" \in redraw'
    <2>1. c \in Pos /\ ChunkOf(c) = chunk /\ blocks[c] \notin Lasting /\ "full" \in redraw'
        BY <1>0 DEF Marks, BlockMarks
    <2>. QED BY <2>1, TurnsIs
<1>. QED
    BY <1>1, <1>2, <1>3 DEF Marks

\* What changes will be shown.
LEMMA ShowingKept ==
    ASSUME Scanning, Draws, BlockMarks, chunk' = chunk, phase' # "rest"
    PROVE  Showing'
<1>1. Showing
    BY DEF Scanning, MapInv
<1>2. SUFFICES ASSUME NEW c \in Pos, drawn'[c] # blocks'[c], c \notin foreign'
               PROVE  ChunkOf(c) = chunk /\ ("full" \in redraw'
                        \/ (redraw' # {} /\ Shape(drawn'[c]) = Shape(blocks'[c])))
    BY DEF Showing, WillShow
<1>3. redraw \subseteq redraw'
    BY DEF BlockMarks
<1>4. \/ ChunkOf(c) = chunk /\ "full" \in redraw'
      \/ /\ drawn'[c] = drawn[c] /\ c \notin foreign
         /\ \/ blocks'[c] = blocks[c]
            \/ ChunkOf(c) = chunk /\ redraw' # {} /\ Shape(blocks'[c]) = Shape(blocks[c])
    BY <1>2 DEF Draws
<1>5. CASE drawn[c] = blocks[c]
    BY <1>2, <1>4, <1>5
<1>6. CASE WillShow(c)
    BY <1>3, <1>4, <1>6 DEF WillShow
<1>. QED
    BY <1>1, <1>4, <1>5, <1>6 DEF Showing

(* A crop that nothing but broken soil may take, is lost to broken soil.   *)
LEMMA CropsKept ==
    ASSUME Scanning, Turns, Loses, NEW c \in Pos, blocks[c] \in Crop, CropSafe(c),
           Plus(c, Down) \notin broken, layout' = layout
    PROVE  blocks'[c] \in Crop
<1>0. /\ at \in Pos /\ CropsStand
      /\ K(at) = blocks[at] /\ at[2] \in Int /\ c[2] \in Int
      /\ at = <<at[1], at[2], at[3]>> /\ c = <<c[1], c[2], c[3]>>
    BY ScanningIs, PosIs DEF Scanning, MapInv
<1>1. SUFFICES ASSUME blocks'[c] \notin Lasting PROVE FALSE
    BY TurnsIs
<1>2. blocks[c] \in Lasting /\ ~Mined(c)
    BY KindsIs DEF CropSafe
<1>3. CASE /\ layout.blocks[at] = "sapling" /\ c[1] = at[1] /\ c[3] = at[3] /\ c[2] >= at[2]
           /\ blocks[at] = "sapling"
    <2>1. at # c
        BY <1>3, KindsIs
    <2>2. at[2] < c[2]
        BY <2>1, <1>0, <1>3
    <2>. QED BY <2>2, <1>0, <1>3 DEF CropSafe
<1>4. CASE c = at /\ at[2] > 0 /\ K(Plus(at, Down)) \notin Farmland
    <2>1. blocks[Plus(c, Down)] \in Farmland
        BY <1>4 , <1>0 DEF CropsStand
    <2>2. Plus(c, Down) \in Pos
        BY <1>4, AboveIs
    <2>. QED BY <1>4, <2>1, <2>2 DEF K
<1>. QED
    BY <1>1, <1>2, <1>3, <1>4, LosesIs

\* Crops that are left stand on farmland.
LEMMA CropsStandKept ==
    ASSUME Scanning, Turns, Loses, layout' = layout, broken' = broken
    PROVE  CropsStand'
<1>0. /\ at \in Pos /\ CropsStand
      /\ K(at) = blocks[at] /\ at[2] \in Int
      /\ at = <<at[1], at[2], at[3]>>
    BY ScanningIs, PosIs DEF Scanning, MapInv
<1>1. SUFFICES ASSUME NEW c \in Pos, blocks'[c] \in Crop, c[2] > 0, CropSafe(c),
                      Plus(c, Down) \notin broken
               PROVE  blocks'[Plus(c, Down)] \in Farmland
    BY DEF CropsStand, CropSafe, Mined
<1>. DEFINE s == Plus(c, Down)
<1>2. blocks[c] \in Crop
    BY <1>1, TurnsIs
<1>3. s \in Pos /\ s = <<c[1], c[2] - 1, c[3]>> /\ blocks[s] \in Farmland /\ ~Mined(s)
      /\ c[2] \in Int /\ c = <<c[1], c[2], c[3]>>
    BY <1>0, <1>1, <1>2, AboveIs, PosIs DEF CropsStand, CropSafe
<1>. HIDE DEF s
<1>4. SUFFICES ASSUME blocks'[s] \notin Lasting PROVE FALSE
    BY <1>3, TurnsIs DEF s
<1>5. blocks[s] \in Lasting
    BY <1>3, KindsIs
<1>6. CASE /\ layout.blocks[at] = "sapling" /\ s[1] = at[1] /\ s[3] = at[3] /\ s[2] >= at[2]
    <2>1. s[1] = c[1] /\ s[2] = c[2] - 1 /\ s[3] = c[3]
        BY <1>3
    <2>2. at[2] < c[2]
        BY <2>1, <1>6, <1>3, <1>0
    <2>3. at[1] # c[1] \/ at[3] # c[3] \/ at[2] >= c[2]
        BY <1>6, <1>1, <1>0 DEF CropSafe
    <2>4. at[1] = c[1] /\ at[3] = c[3]
        BY <2>1, <1>6
    <2>. QED BY <2>2, <2>3, <2>4, <1>3, <1>0
<1>7. CASE s = at /\ K(Plus(at, Up)) \notin Crop
    <2>1. Plus(at, Up) = <<at[1], at[2] + 1, at[3]>>
        BY <1>0, AboveIs
    <2>2. at[1] = c[1] /\ at[2] = c[2] - 1 /\ at[3] = c[3]
        BY <1>3, <1>7
    <2>3. at[2] + 1 = c[2]
        BY <2>2, <1>3
    <2>4. Plus(at, Up) = c
        BY <2>1, <2>2, <2>3, <1>3
    <2>5. K(Plus(at, Up)) = blocks[c]
        BY <2>4 DEF K
    <2>. QED BY <2>5, <1>7, <1>2
<1>. QED
    BY <1>3, <1>4, <1>5, <1>6, <1>7, LosesIs

(* The invariant after one block, and no crop lost there.                  *)
LEMMA BlockKeeps ==
    ASSUME Scanning, BlockFacts, DataMarks, BlockMarks, DoorWhole', WireLevels',
           GoOn(chunk, blocks', Index(at)),
           UNCHANGED <<chunk, level, sweeps, round, outside>>
    PROVE  /\ MapInv'
           /\ \A c \in Pos : K(c) \in Crop /\ CropSafe(c) /\ blocks'[c] \notin Crop =>
                                 Plus(c, Down) \in broken
<1>0. /\ at \in Pos /\ layout \in Layouts /\ TypeOK /\ Rounds /\ RoundTyped
      /\ layout' = layout /\ updated' = updated /\ uses' = uses /\ broken' = broken
      /\ chunk' = chunk /\ level' = level /\ sweeps' = sweeps /\ round' = round
      /\ Turns /\ Loses /\ Draws /\ Flows
    BY ScanningIs DEF Scanning, MapInv, outside, BlockFacts
<1>1. /\ phase' \in {"scan", "store"}
      /\ phase' = "scan" <=> at' \in Pos
      /\ phase' = "scan" => ChunkOf(at') = chunk /\ blocks'[at'] # "air"
    BY <1>0, IndexIs, GoesOn
<1>2. NoneNew' /\ Marks' /\ Showing' /\ CropsStand' /\ Rounds' /\ RoundTyped'
    BY <1>0, <1>1, NoneNewKept, MarksKept, ShowingKept, CropsStandKept, RoundsSame
<1>3. SweepLevels'
    BY <1>1 DEF SweepLevels
<1>4. TypeOK'
    <2>1. /\ blocks' \in [Pos -> Kinds] /\ drawn' \in [Pos -> Kinds] /\ blockData' \in [Pos -> Bytes]
          /\ foreign' \subseteq Pos /\ updateRedstoneData' \subseteq DOMAIN redstoneData'
          /\ \A c \in DOMAIN redstoneData' : redstoneData'[c] \in Bytes
          /\ redraw' \subseteq {"textures", "light", "full"}
        BY DEF BlockFacts, DataMarks, BlockMarks
    <2>2. \A c \in DOMAIN redstoneBlockData' : redstoneBlockData'[c] \in Kinds
        BY <1>2, KindsIs DEF Marks
    <2>3. \A c \in DOMAIN waterMovementChunk' : waterMovementChunk'[c] \in Fluid
        BY <1>0 DEF BlockMarks, TypeOK
    <2>4. chunkXMapRedstone' = chunkXMapRedstone /\ cycle' = cycle
        BY <1>0 DEF round
    <2>5. phase' = "scan" => (ChunkOf(at') = chunk' /\ K(at)' # "air")
        BY <1>0, <1>1 DEF K
    <2>. QED BY <1>0, <1>1, <2>1, <2>2, <2>3, <2>4, <2>5 DEF TypeOK
<1>5. MapInv'
    BY <1>0, <1>2, <1>3, <1>4 DEF MapInv
<1>6. ASSUME NEW c \in Pos, K(c) \in Crop, CropSafe(c), blocks'[c] \notin Crop
      PROVE  Plus(c, Down) \in broken
    BY <1>0, <1>6, CropsKept DEF K
<1>. QED
    BY <1>5, <1>6

----------------------------------------------------------------------------
(* One block after the other.                                              *)

ScanFacts == BlockFacts /\ DataMarks /\ BlockMarks /\ DoorWhole' /\ WireLevels'
Redraws == redraw \subseteq redraw' /\ redraw' \subseteq {"textures", "light", "full"}

\* No block changes.
LEMMA BlocksStay ==
    ASSUME Scanning, blocks' = blocks, drawn' = drawn, foreign' = foreign
    PROVE  BlockFacts
<1>1. Turns /\ Loses /\ Draws /\ Flows
    BY DEF Turns, Loses, Draws, Flows
<1>. QED
    BY <1>1, ScanningIs DEF BlockFacts

\* One cell is set.
LEMMA SetIs ==
    ASSUME NEW f, DOMAIN f = Pos, NEW c \in Pos, NEW v
    PROVE  /\ DOMAIN Set(f, c, v) = Pos /\ Set(f, c, v)[c] = v
           /\ \A d \in Pos : d # c => Set(f, c, v)[d] = f[d]
BY DEF Set

\* What a rule of one block may put in its place.
Replaces(k) ==
    /\ k \in Kinds \ Fluid
    /\ k \notin Lasting \/ {blocks[at], k} \subseteq Crop \/ {blocks[at], k} \subseteq Farmland
    /\ blocks[at] \in Lasting /\ k \notin Lasting =>
          /\ blocks[at] \notin Fixed
          /\ blocks[at] \in Farmland => K(Plus(at, Up)) \notin Crop
          /\ blocks[at] \in Crop => at[2] > 0 /\ K(Plus(at, Down)) \notin Farmland
    /\ \/ k = blocks[at] \/ "full" \in redraw'
       \/ redraw' # {} /\ Shape(k) = Shape(blocks[at])

\* One block changes, by its own rule.
LEMMA OneBlock ==
    ASSUME Scanning, NEW k, Replaces(k), blocks' = Set(blocks, at, k),
           drawn' = drawn, foreign' = foreign
    PROVE  BlockFacts
<1>0. /\ at \in Pos /\ ChunkOf(at) = chunk /\ k \in Kinds /\ k \notin Fluid
      /\ blocks \in [Pos -> Kinds] /\ drawn \in [Pos -> Kinds] /\ foreign \in SUBSET Pos
    BY ScanningIs DEF Replaces
<1>1. blocks' \in [Pos -> Kinds]
    BY <1>0 DEF Set
<1>2. blocks'[at] = k /\ \A d \in Pos : d # at => blocks'[d] = blocks[d]
    BY <1>0, SetIs
<1>3. Turns
    BY <1>2 DEF Turns, Replaces
<1>4. Loses
    BY <1>2 DEF Loses, Replaces
<1>5. Draws
    BY <1>0, <1>2 DEF Draws, Replaces
<1>6. Flows
    BY <1>0, <1>2 DEF Flows
<1>. QED
    BY <1>0, <1>1, <1>3, <1>4, <1>5, <1>6 DEF BlockFacts

\* No data changes.
LEMMA DataStays ==
    ASSUME Scanning, blockData' = blockData, redstoneData' = redstoneData,
           updateRedstoneData' = updateRedstoneData
    PROVE  DataMarks /\ Levels
BY ScanningIs DEF DataMarks, Levels

\* No block is marked.
LEMMA MarksStay ==
    ASSUME redstoneBlockData' = redstoneBlockData, waterMovementChunk' = waterMovementChunk, Redraws
    PROVE  BlockMarks
BY DEF BlockMarks, Redraws

\* All facts of an update that only a fluid may raise the levels in.
LEMMA FactsAre ==
    ASSUME Scanning, BlockFacts, DataMarks, Levels, BlockMarks, layout' = layout
    PROVE  ScanFacts
BY LevelsKeep DEF ScanFacts, BlockFacts, DataMarks

\* Of one that changes blocks alone, ...
LEMMA PlantFacts ==
    ASSUME Scanning, BlockFacts, blockData' = blockData, pending' = pending, Redraws, layout' = layout
    PROVE  ScanFacts
<1>1. /\ redstoneData' = redstoneData /\ updateRedstoneData' = updateRedstoneData
      /\ redstoneBlockData' = redstoneBlockData /\ waterMovementChunk' = waterMovementChunk
    BY DEF pending
<1>. QED
    BY <1>1, DataStays, MarksStay, FactsAre

\* ... and what is to be drawn.
LEMMA DrawIs ==
    ASSUME Scanning, NEW what, what \subseteq {"textures", "light", "full"},
           redraw' = redraw \cup what \/ redraw' = redraw
    PROVE  Redraws
BY ScanningIs DEF Redraws

\* Blocks with no rule of their own.
LEMMA NothingFacts ==
    ASSUME Scanning, UpdateNothing, drawn' = drawn, layout' = layout
    PROVE  ScanFacts
<1>1. /\ blocks' = blocks /\ blockData' = blockData /\ pending' = pending /\ redraw' = redraw
      /\ foreign' = foreign
    BY DEF UpdateNothing, pending
<1>. QED
    BY <1>1, BlocksStay, PlantFacts, DrawIs

(* What a kind and the kind it turns to have in common.                    *)
LEMMA ShapeIs ==
    /\ Shape("lampOn") = "block" /\ Shape("lampOff") = "block"
    /\ Shape("dirt") = "block" /\ Shape("grass") = "block"
    /\ Shape("torchOn") = Shape("torchOff") /\ Shape("repeaterOn") = Shape("repeaterOff")
    /\ Shape("wheat") = Shape("ripeWheat") /\ Shape("farmland") = Shape("wetFarmland")
<1>1. ASSUME NEW k, k \in Full \cup {"lampOn"} PROVE Shape(k) = "block"
    <2>1. /\ k \notin {"torchOn", "torchOff"} /\ k \notin {"repeaterOn", "repeaterOff"}
          /\ k \notin Farmland /\ k \notin Crop
        BY <1>1 DEF Full, Farmland, Crop
    <2>. QED BY <1>1, <2>1 DEF Shape
<1>2. "lampOn" \in Full \cup {"lampOn"} /\ {"lampOff", "dirt", "grass"} \subseteq Full \cup {"lampOn"}
    BY DEF Full
<1>3. Shape("torchOn") = Shape("torchOff") /\ Shape("repeaterOn") = Shape("repeaterOff")
    BY DEF Shape, Full, Farmland, Crop
<1>4. Shape("wheat") = Shape("ripeWheat") /\ Shape("farmland") = Shape("wetFarmland")
    BY DEF Shape, Full, Farmland, Crop
<1>. QED BY <1>1, <1>2, <1>3, <1>4

\* Lamps.
LEMMA LampFacts ==
    ASSUME Scanning, UpdateLamp, drawn' = drawn, layout' = layout
    PROVE  ScanFacts
<1>. DEFINE k == IF LampBurns(at) THEN "lampOn" ELSE "lampOff"
<1>1. /\ blocks[at] \in {"lampOff", "lampOn"} /\ blocks' = Set(blocks, at, k)
      /\ redraw' = IF blocks' # blocks THEN redraw \cup {"textures", "light"} ELSE redraw
      /\ blockData' = blockData /\ pending' = pending /\ foreign' = foreign
    BY ScanningIs DEF UpdateLamp, pending
<1>2. k \in {"lampOff", "lampOn"}
    OBVIOUS
<1>. HIDE DEF k
<1>3. Redraws
    BY <1>1, DrawIs
<1>4. blocks' = blocks => k = blocks[at]
    <2>1. Set(blocks, at, k)[at] = k
        BY ScanningIs DEF Set
    <2>. QED BY <2>1, <1>1
<1>5. Replaces(k)
    <2>1. k \in Kinds \ Fluid /\ k \notin Lasting /\ blocks[at] \notin Lasting
        BY <1>1, <1>2 DEF Kinds, Full, Fluid, Lasting, Fixed, Crop, Farmland
    <2>2. Shape(k) = Shape(blocks[at])
        BY <1>1, <1>2, ShapeIs
    <2>. QED BY <2>1, <2>2, <1>1, <1>4 DEF Replaces
<1>. QED
    BY <1>1, <1>3, <1>5, OneBlock, PlantFacts

\* A plant that stays as it is, ...
LEMMA StaysFacts ==
    ASSUME Scanning, Stays, PlantsKeep, drawn' = drawn, layout' = layout
    PROVE  ScanFacts
<1>1. /\ blocks' = blocks /\ blockData' = blockData /\ pending' = pending /\ redraw' = redraw
      /\ foreign' = foreign
    BY DEF Stays, PlantsKeep, pending
<1>. QED
    BY <1>1, BlocksStay, PlantFacts, DrawIs

\* ... and one that becomes something else.
LEMMA BecomesFacts ==
    ASSUME Scanning, NEW k, Becomes(k), Replaces(k), NEW what, Draw(what),
           what \subseteq {"textures", "light", "full"},
           PlantsKeep, drawn' = drawn, layout' = layout
    PROVE  ScanFacts
<1>1. /\ blocks' = Set(blocks, at, k) /\ blockData' = blockData /\ pending' = pending
      /\ redraw' = redraw \cup what /\ foreign' = foreign
    BY DEF Becomes, PlantsKeep, pending, Draw
<1>. QED
    BY <1>1, OneBlock, PlantFacts, DrawIs

\* Leaves, flowers, wheat, dirt, grass and farmland.
LEMMA PlantsFacts ==
    ASSUME Scanning, drawn' = drawn, layout' = layout,
           \/ UpdateLeaves \/ UpdateFlower \/ UpdateWheat \/ UpdateDirt
           \/ UpdateGrass \/ UpdateFarmland \/ UpdateWetFarmland
    PROVE  ScanFacts
<1>0. K(at) = blocks[at] /\ PlantsKeep
    BY ScanningIs DEF UpdateLeaves, UpdateFlower, UpdateWheat, UpdateDirt, UpdateGrass,
                      UpdateFarmland, UpdateWetFarmland
<1>. DEFINE Soft == blocks[at] \notin Lasting
<1>1. ASSUME Becomes("air"), Draw({"full"}),
             \/ blocks[at] \in {"leaves", "flower"}
             \/ blocks[at] = "wheat" /\ at[2] > 0 /\ K(Plus(at, Down)) \notin Farmland
      PROVE  ScanFacts
    <2>1. Replaces("air")
        BY <1>1 DEF Replaces, Draw, Kinds, Full, Fluid, Lasting, Fixed, Crop, Farmland
    <2>. QED BY <2>1, <1>0, <1>1, BecomesFacts
<1>2. ASSUME Becomes("ripeWheat"), Draw({"textures"}), blocks[at] = "wheat"
      PROVE  ScanFacts
    <2>1. Replaces("ripeWheat")
        BY <1>2 DEF Replaces, Draw, Kinds, Full, Fluid, Lasting, Fixed, Crop, Farmland, Shape
    <2>. QED BY <2>1, <1>0, <1>2, BecomesFacts
<1>3. ASSUME Becomes("grass"), Draw({"textures"}), blocks[at] \in {"dirt", "grass"}
      PROVE  ScanFacts
    <2>1. Replaces("grass")
        BY <1>3 DEF Replaces, Draw, Kinds, Full, Fluid, Lasting, Fixed, Crop, Farmland, Shape
    <2>. QED BY <2>1, <1>0, <1>3, BecomesFacts
<1>4. ASSUME Becomes("dirt"), Draw({"full"}), blocks[at] = "farmland", K(Plus(at, Up)) \notin Crop
      PROVE  ScanFacts
    <2>1. Replaces("dirt")
        BY <1>4 DEF Replaces, Draw, Kinds, Full, Fluid, Lasting, Fixed, Crop, Farmland, Shape
    <2>. QED BY <2>1, <1>0, <1>4, BecomesFacts
<1>5. ASSUME NEW k \in Farmland, Becomes(k), Draw({"textures"}), blocks[at] \in Farmland
      PROVE  ScanFacts
    <2>1. Replaces(k)
        BY <1>5 DEF Replaces, Draw, Kinds, Full, Fluid, Lasting, Fixed, Crop, Farmland, Shape
    <2>. QED BY <2>1, <1>0, <1>5, BecomesFacts
<1>6. CASE Stays
    BY <1>0, <1>6, StaysFacts
<1>7. CASE UpdateLeaves
    BY <1>0, <1>1, <1>6, <1>7 DEF UpdateLeaves, Gone
<1>8. CASE UpdateFlower
    BY <1>0, <1>1, <1>6, <1>8 DEF UpdateFlower, Gone
<1>9. CASE UpdateWheat
    BY <1>0, <1>1, <1>2, <1>6, <1>9 DEF UpdateWheat, Gone
<1>10. CASE UpdateDirt
    BY <1>0, <1>3, <1>6, <1>10 DEF UpdateDirt
<1>11. CASE UpdateGrass
    BY <1>0, <1>3, <1>6, <1>11 DEF UpdateGrass
<1>12. CASE UpdateFarmland
    BY <1>0, <1>4, <1>5, <1>6, <1>12 DEF UpdateFarmland, Farmland
<1>13. CASE UpdateWetFarmland
    BY <1>0, <1>5, <1>6, <1>13 DEF UpdateWetFarmland, Farmland
<1>. QED
    BY <1>7, <1>8, <1>9, <1>10, <1>11, <1>12, <1>13

----------------------------------------------------------------------------
(* Tnt and trees.                                                          *)

\* Tnt: what it blows up is drawn at once.
LEMMA TntFacts ==
    ASSUME Scanning, UpdateTnt, layout' = layout
    PROVE  ScanFacts
<1>0. /\ at \in Pos /\ blocks[at] = "tnt" /\ blocks \in [Pos -> Kinds] /\ drawn \in [Pos -> Kinds]
      /\ foreign \in SUBSET Pos
      /\ blockData' = blockData /\ pending' = pending /\ redraw' = redraw
    BY ScanningIs DEF UpdateTnt, pending
<1>1. CASE makeExplosion(at)
    <2>. DEFINE struck(d) == \E e \in Blown(at) : ChunkOf(d) = ChunkOf(e)
    <2>1. /\ blocks' = [d \in Pos |-> IF d \in Blown(at) THEN "air" ELSE blocks[d]]
          /\ drawn' = [d \in Pos |-> IF struck(d) THEN blocks'[d] ELSE drawn[d]]
          /\ foreign' = {d \in foreign : ~struck(d)}
        BY <1>1 DEF makeExplosion
    <2>2. \A d \in Blown(at) : struck(d)
        OBVIOUS
    <2>. HIDE DEF struck
    <2>3. \A d \in Pos : blocks'[d] = IF d \in Blown(at) THEN "air" ELSE blocks[d]
        BY <2>1
    <2>4. Turns
        BY <2>3, KindsIs DEF Turns
    <2>5. Loses
        BY <2>3, <1>0 DEF Loses
    <2>6. Draws
        BY <2>1, <2>2, <2>3 DEF Draws
    <2>7. Flows
        BY <2>3, KindsIs DEF Flows
    <2>8. "air" \in Kinds
        BY DEF Kinds
    <2>9. blocks' \in [Pos -> Kinds] /\ drawn' \in [Pos -> Kinds] /\ foreign' \in SUBSET Pos
        BY <2>1, <2>8, <1>0
    <2>. QED BY <2>4, <2>5, <2>6, <2>7, <2>9, <1>0, PlantFacts, DrawIs DEF BlockFacts
<1>2. CASE UNCHANGED <<blocks, drawn, foreign>>
    BY <1>0, <1>2, BlocksStay, PlantFacts, DrawIs
<1>. QED
    BY <1>1, <1>2 DEF UpdateTnt

\* A tree takes the column above its sapling.
LEMMA SaplingFacts ==
    ASSUME Scanning, UpdateSapling, drawn' = drawn, layout' = layout
    PROVE  ScanFacts
<1>0. /\ at \in Pos /\ blocks[at] = "sapling" /\ blocks \in [Pos -> Kinds] /\ drawn \in [Pos -> Kinds]
      /\ foreign \in SUBSET Pos
      /\ blockData' = blockData /\ pending' = pending
      /\ foreign' = foreign \cup {c \in {d \in Pos : blocks'[d] # blocks[d]} : ChunkOf(c) # chunk}
    BY ScanningIs DEF UpdateSapling, pending, Abroad
<1>1. CASE Stays
    <2>1. blocks' = blocks /\ redraw' = redraw
        BY <1>1 DEF Stays
    <2>2. foreign' = foreign
        BY <1>0, <2>1
    <2>. QED BY <1>0, <2>1, <2>2, BlocksStay, PlantFacts, DrawIs
<1>2. CASE blocks' = generateTree(TreeHight) /\ Draw({"full"})
    <2>. DEFINE h == TreeHight
    <2>1. \A c \in Pos : blocks'[c] = IF c \in Trunk(h) THEN "log"
                   ELSE IF c \in Crown(h) /\ blocks[c] = "air" THEN "leaves"
                   ELSE blocks[c]
        BY <1>2 DEF generateTree
    <2>2. redraw' = redraw \cup {"full"} /\ "full" \in redraw'
        BY <1>2 DEF Draw
    <2>3. "log" \in Kinds /\ "leaves" \in Kinds /\ "leaves" \notin Lasting /\ "leaves" \notin Fluid
        BY DEF Kinds, Full, Lasting, Fixed, Crop, Farmland, Fluid
    <2>4. blocks' \in [Pos -> Kinds] /\ foreign' \in SUBSET Pos
        <3>1. blocks' = [c \in Pos |-> blocks'[c]]
            BY <1>2 DEF generateTree
        <3>2. \A c \in Pos : blocks'[c] \in Kinds
            BY <2>1, <2>3, <1>0
        <3>. QED BY <3>1, <3>2, <1>0
    <2>5. Turns
        BY <2>1, <2>3, KindsIs DEF Turns
    <2>6. ASSUME NEW c \in Pos, blocks[c] \in Lasting, blocks'[c] \notin Lasting
          PROVE  /\ c[1] = at[1] /\ c[3] = at[3] /\ c[2] >= at[2]
                 /\ \A d \in Pos : d[1] = at[1] /\ d[3] = at[3] /\ d[2] >= at[2] /\ d[2] <= c[2] =>
                                 blocks'[d] = "log"
        <3>1. c \in Trunk(h)
            BY <2>1, <2>6, KindsIs
        <3>2. c[1] = at[1] /\ c[3] = at[3] /\ c[2] - at[2] \in 0..h
            BY <3>1 DEF Trunk
        <3>3. h \in Nat /\ c[2] \in Int /\ at[2] \in Int
            BY <1>0, PosIs, TreeAssumption
        <3>4. ASSUME NEW d \in Pos, d[1] = at[1], d[3] = at[3], d[2] >= at[2], d[2] <= c[2]
              PROVE  blocks'[d] = "log"
            <4>1. d[2] \in Int
                BY PosIs
            <4>2. d[2] - at[2] \in 0..h
                BY <4>1, <3>2, <3>3, <3>4
            <4>. QED BY <4>2, <3>4, <2>1 DEF Trunk
        <3>. QED BY <3>2, <3>3, <3>4
    <2>7. Loses
        BY <2>6, <1>0 DEF Loses
    <2>8. Draws
        BY <2>2, <1>0 DEF Draws
    <2>9. Flows
        BY <2>1, <2>3, KindsIs DEF Flows
    <2>10. drawn' \in [Pos -> Kinds] /\ Redraws
        BY <1>0, <2>2, DrawIs
    <2>. QED BY <2>4, <2>5, <2>7, <2>8, <2>9, <2>10, <1>0, PlantFacts DEF BlockFacts
<1>. QED
    BY <1>1, <1>2 DEF UpdateSapling

----------------------------------------------------------------------------
(* Levers, buttons, torches, repeaters and doors.                          *)

\* Data bytes, driven or not.
LEMMA BytesAre ==
    /\ \A d \in Bytes : /\ Strong(d) \in Bytes /\ Strong(d).v = d.v
                        /\ Weak(d) \in Bytes /\ Weak(d).v = d.v
                        /\ \A on : Drive(d, on) \in Bytes /\ Drive(d, on).v = d.v
                        /\ d.v \in 0..63
    /\ \A v \in 0..63 : /\ Byte(TRUE, v) \in Bytes /\ Byte(FALSE, v) \in Bytes
                        /\ Byte(TRUE, v).v = v /\ Byte(FALSE, v).v = v
    /\ Zero \in Bytes
<1>1. ASSUME NEW d \in Bytes
      PROVE  Strong(d) \in Bytes /\ Strong(d).v = d.v /\ Weak(d) \in Bytes /\ Weak(d).v = d.v
             /\ d.v \in 0..63
    BY DEF Strong, Weak, Bytes
<1>2. ASSUME NEW v \in 0..63
      PROVE  /\ Byte(TRUE, v) \in Bytes /\ Byte(FALSE, v) \in Bytes
             /\ Byte(TRUE, v).v = v /\ Byte(FALSE, v).v = v
    BY DEF Byte, Bytes
<1>3. Zero \in Bytes
    BY DEF Zero, Byte, Bytes
<1>. QED
    BY <1>1, <1>2, <1>3 DEF Drive

\* The data of any place.
LEMMA DataIs ==
    ASSUME Scanning, NEW c
    PROVE  D(c) \in Bytes
BY ScanningIs, BytesAre DEF D

\* Data that leaves the levels of wires and doors.
SameLevels(f) ==
    f \in [Pos -> Bytes] /\ \A c \in Pos : blocks[c] \in Fixed => f[c].v = blockData[c].v

\* Data set with the level it had, or off the wires and doors.
LEMMA SetLevel ==
    ASSUME NEW f, SameLevels(f), NEW c \in Pos, NEW b \in Bytes,
           b.v = f[c].v \/ blocks[c] \notin Fixed
    PROVE  SameLevels(Set(f, c, b))
<1>. DEFINE g == Set(f, c, b)
<1>1. f \in [Pos -> Bytes] /\ DOMAIN f = Pos
    BY DEF SameLevels
<1>2. g[c] = b /\ \A d \in Pos : d # c => g[d] = f[d]
    BY <1>1, SetIs
<1>3. g \in [Pos -> Bytes]
    BY <1>1 DEF Set
<1>. HIDE DEF g
<1>. QED
    BY <1>2, <1>3 DEF SameLevels, g

\* Data with the same levels are fit to be stored.
LEMMA LevelsAre ==
    ASSUME SameLevels(blockData')
    PROVE  Levels /\ blockData' \in [Pos -> Bytes]
BY DEF SameLevels, Levels

\* Neither wire nor door carries a signal on.
LEMMA TransferIs ==
    ASSUME NEW k, canTransferRedstoneSignal(k)
    PROVE  k \notin Fixed
BY DEF canTransferRedstoneSignal, Fixed, Full

\* Marks hold data bytes.
LEMMA MarkTyped ==
    ASSUME NEW m, \A d \in DOMAIN m : m[d] \in Bytes, NEW c, NEW v \in Bytes
    PROVE  /\ c \in DOMAIN Mark(m, c, v) /\ DOMAIN m \subseteq DOMAIN Mark(m, c, v)
           /\ \A d \in DOMAIN Mark(m, c, v) : Mark(m, c, v)[d] \in Bytes
<1>1. /\ DOMAIN Mark(m, c, v) = DOMAIN m \cup {c} /\ Mark(m, c, v)[c] = v
      /\ \A d \in DOMAIN m : d # c => Mark(m, c, v)[d] = m[d]
    BY DEF Mark, MarkAll
<1>. QED
    BY <1>1

\* A signal for a block.
LEMMA SignalFacts ==
    ASSUME Scanning, NEW c, NEW on, NEW own \in Bytes, Signal(c, on, own), blocks[at] \notin Fixed
    PROVE  DataMarks /\ Levels
<1>. DEFINE reaches == c \in Pos /\ canTransferRedstoneSignal(K(c))
            here    == reaches /\ ChunkOf(c) = chunk
            self    == Mark(redstoneData, at, own)
<1>1. /\ blockData' = IF reaches /\ ~here THEN Set(blockData, c, Drive(D(c), on)) ELSE blockData
      /\ redstoneData' = IF here THEN Mark(self, c, Drive(D(c), on)) ELSE self
      /\ updateRedstoneData' = updateRedstoneData \cup {at} \cup (IF here THEN {c} ELSE {})
    BY DEF Signal
<1>2. /\ at \in Pos /\ blockData \in [Pos -> Bytes] /\ updateRedstoneData \subseteq DOMAIN redstoneData
      /\ \A d \in DOMAIN redstoneData : redstoneData[d] \in Bytes
    BY ScanningIs
<1>3. D(c) \in Bytes /\ Drive(D(c), on) \in Bytes /\ Drive(D(c), on).v = D(c).v
    BY DataIs, BytesAre
<1>4. reaches => D(c) = blockData[c] /\ blocks[c] \notin Fixed /\ c \in Pos
    BY TransferIs DEF D, K
<1>5. here => reaches
    OBVIOUS
<1>. HIDE DEF reaches, here, self
<1>6. SameLevels(blockData)
    BY <1>2 DEF SameLevels
<1>7. SameLevels(blockData')
    BY <1>1, <1>3, <1>4, <1>6, SetLevel
<1>8. /\ at \in DOMAIN self /\ DOMAIN redstoneData \subseteq DOMAIN self
      /\ \A d \in DOMAIN self : self[d] \in Bytes
    BY <1>2, MarkTyped DEF self
<1>. DEFINE both == Mark(self, c, Drive(D(c), on))
<1>9. /\ c \in DOMAIN both /\ DOMAIN self \subseteq DOMAIN both
      /\ \A d \in DOMAIN both : both[d] \in Bytes
    BY <1>8, <1>3, MarkTyped
<1>. HIDE DEF both
<1>10. redstoneData' = IF here THEN both ELSE self
    BY <1>1 DEF both
<1>11. updateRedstoneData' \subseteq DOMAIN redstoneData'
    BY <1>1, <1>2, <1>8, <1>9, <1>10
<1>12. \A d \in DOMAIN redstoneData' : redstoneData'[d] \in Bytes
    BY <1>8, <1>9, <1>10
<1>13. \A d \in updateRedstoneData' \cap Pos : d \in updateRedstoneData \/ blocks[d] \notin Fixed
    BY <1>1, <1>4, <1>5
<1>. QED
    BY <1>7, <1>11, <1>12, <1>13, LevelsAre DEF DataMarks

\* All facts of an update that changes data alone.
LEMMA NoMarks ==
    ASSUME Scanning, UNCHANGED <<blocks, foreign>>, drawn' = drawn, NoRedstone, Redraws,
           DataMarks, Levels, layout' = layout
    PROVE  ScanFacts
<1>1. redstoneBlockData' = redstoneBlockData /\ waterMovementChunk' = waterMovementChunk
    BY DEF NoRedstone
<1>. QED
    BY <1>1, BlocksStay, MarksStay, FactsAre

\* Levers and buttons.
LEMMA LeverFacts ==
    ASSUME Scanning, UpdateLever \/ UpdateButtonOn \/ UpdateButtonOff, drawn' = drawn, layout' = layout
    PROVE  ScanFacts
<1>0. /\ blocks[at] \in {"lever", "button"} /\ NoRedstone /\ UNCHANGED <<blocks, foreign>>
    BY ScanningIs DEF UpdateLever, UpdateButtonOn, UpdateButtonOff
<1>1. blocks[at] \notin Fixed
    BY <1>0 DEF Fixed
<1>2. D(at) \in Bytes /\ Strong(D(at)) \in Bytes /\ Weak(D(at)) \in Bytes
      /\ \A on : Drive(D(at), on) \in Bytes
    BY DataIs, BytesAre
<1>3. Redraws
    BY <1>0, DrawIs DEF UpdateLever, UpdateButtonOn, UpdateButtonOff, Draw
<1>4. DataMarks /\ Levels
    <2>1. CASE UpdateLever
        BY <2>1, <1>1, <1>2, SignalFacts DEF UpdateLever
    <2>2. CASE UpdateButtonOn
        BY <2>2, <1>1, <1>2, SignalFacts DEF UpdateButtonOn
    <2>3. CASE UpdateButtonOff
        BY <2>3, <1>1, <1>2, SignalFacts, DataStays DEF UpdateButtonOff
    <2>. QED BY <2>1, <2>2, <2>3
<1>. QED
    BY <1>0, <1>3, <1>4, NoMarks

\* A torch or repeater is marked to turn.
LEMMA MarkAtFacts ==
    ASSUME Scanning, NEW k, {blocks[at], k} \subseteq Turning, Shape(k) = Shape(blocks[at]),
           blocks' = blocks, Redraws, waterMovementChunk' = waterMovementChunk,
           \/ redstoneBlockData' = redstoneBlockData
           \/ redstoneBlockData' = Mark(redstoneBlockData, at, k) /\ redraw' # {}
    PROVE  BlockMarks
<1>1. CASE redstoneBlockData' = redstoneBlockData
    BY <1>1, MarksStay
<1>2. CASE redstoneBlockData' = Mark(redstoneBlockData, at, k) /\ redraw' # {}
    <2>1. DOMAIN redstoneBlockData' = DOMAIN redstoneBlockData \cup {at}
          /\ redstoneBlockData'[at] = k
          /\ \A c \in DOMAIN redstoneBlockData : c # at => redstoneBlockData'[c] = redstoneBlockData[c]
        <3>1. /\ DOMAIN Mark(redstoneBlockData, at, k) = DOMAIN redstoneBlockData \cup {at}
              /\ Mark(redstoneBlockData, at, k)[at] = k
              /\ \A c \in DOMAIN redstoneBlockData : c # at =>
                     Mark(redstoneBlockData, at, k)[c] = redstoneBlockData[c]
            BY DEF Mark, MarkAll
        <3>. QED BY <3>1, <1>2
    <2>. QED BY <2>1, <1>2 DEF BlockMarks, Redraws
<1>. QED
    BY <1>1, <1>2

\* Torches.
LEMMA TorchFacts ==
    ASSUME Scanning, UpdateTorchOn \/ UpdateTorchOff, drawn' = drawn, layout' = layout
    PROVE  ScanFacts
<1>. DEFINE above == Plus(at, Up)
            below1 == Plus(at, Down)
            holds == above \in Pos /\ canHoldRedstoneSignal(K(above))
            lit   == IF holds THEN Set(blockData, above, Strong(D(above))) ELSE blockData
            out   == IF holds THEN Set(lit, above, Weak(lit[above])) ELSE lit
            dark  == IF holds THEN Set(blockData, above, Weak(D(above))) ELSE blockData
<1>0. /\ at \in Pos /\ blocks[at] \in {"torchOn", "torchOff"} /\ UNCHANGED <<blocks, foreign>>
      /\ waterMovementChunk' = waterMovementChunk /\ updateRedstoneData' = updateRedstoneData
      /\ updateRedstoneData \subseteq DOMAIN redstoneData
      /\ \A c \in DOMAIN redstoneData : redstoneData[c] \in Bytes
    BY ScanningIs DEF UpdateTorchOn, UpdateTorchOff
<1>1. blocks[at] \notin Fixed /\ {blocks[at], "torchOn", "torchOff"} \subseteq Turning
    BY <1>0 DEF Fixed, Turning
<1>2. SameLevels(blockData) /\ (holds => D(above) = blockData[above] /\ above \in Pos)
    BY ScanningIs DEF SameLevels, D
<1>3. D(above) \in Bytes /\ Zero \in Bytes /\ Byte(TRUE, 0) \in Bytes
    <2>1. D(above) \in Bytes
        BY DataIs
    <2>2. Byte(TRUE, 0) \in Bytes
        BY DEF Byte, Bytes
    <2>. QED BY <2>1, <2>2, BytesAre
<1>4. Strong(D(above)) \in Bytes /\ Strong(D(above)).v = D(above).v
      /\ Weak(D(above)) \in Bytes /\ Weak(D(above)).v = D(above).v
    BY <1>3, BytesAre
<1>. HIDE DEF holds
<1>5. SameLevels(lit) /\ SameLevels(dark)
    BY <1>2, <1>4, SetLevel
<1>. HIDE DEF lit, dark
<1>6. SameLevels(out)
    <2>1. CASE holds
        <3>1. lit[above] \in Bytes
            BY <1>5, <1>2, <2>1 DEF SameLevels
        <3>2. Weak(lit[above]) \in Bytes /\ Weak(lit[above]).v = lit[above].v
            BY <3>1, BytesAre
        <3>. QED BY <3>2, <1>5, <1>2, <2>1, SetLevel
    <2>. QED BY <2>1, <1>5
<1>. HIDE DEF out
<1>7. SameLevels(Set(out, at, Zero)) /\ SameLevels(Set(dark, at, Byte(TRUE, 0)))
    BY <1>0, <1>1, <1>3, <1>5, <1>6, SetLevel
<1>8. holds => Strong(dark[above]) \in Bytes
    BY <1>2, <1>5, BytesAre DEF SameLevels
<1>9. CASE UpdateTorchOn
    <2>1. /\ blockData' = Set(out, at, Zero) \/ blockData' = lit
          /\ redstoneData' = redstoneData
          /\ redraw' = redraw \cup {"textures"} \/ redraw' = redraw
          /\ \/ redstoneBlockData' = redstoneBlockData
             \/ redstoneBlockData' = Mark(redstoneBlockData, at, "torchOff") /\ redraw' # {}
        BY <1>9 DEF UpdateTorchOn, Draw, out, lit, holds
    <2>2. Redraws
        BY <2>1, DrawIs
    <2>3. BlockMarks
        <3>1. Shape("torchOff") = Shape(blocks[at])
            BY <1>0, ShapeIs
        <3>. QED BY <3>1, <2>1, <2>2, <1>0, <1>1, MarkAtFacts
    <2>4. DataMarks /\ Levels
        BY <2>1, <1>0, <1>5, <1>7, LevelsAre DEF DataMarks
    <2>. QED BY <2>3, <2>4, <1>0, BlocksStay, FactsAre
<1>10. CASE UpdateTorchOff
    <2>1. /\ blockData' = Set(dark, at, Byte(TRUE, 0)) \/ blockData' = dark
          /\ \/ redstoneData' = redstoneData
             \/ redstoneData' = Mark(redstoneData, above, Strong(dark[above])) /\ holds
          /\ redraw' = redraw \cup {"textures"} \/ redraw' = redraw
          /\ \/ redstoneBlockData' = redstoneBlockData
             \/ redstoneBlockData' = Mark(redstoneBlockData, at, "torchOn") /\ redraw' # {}
        BY <1>10 DEF UpdateTorchOff, Draw, dark, holds
    <2>2. Redraws
        BY <2>1, DrawIs
    <2>3. BlockMarks
        <3>1. Shape("torchOn") = Shape(blocks[at])
            BY <1>0, ShapeIs
        <3>. QED BY <3>1, <2>1, <2>2, <1>0, <1>1, MarkAtFacts
    <2>4. DOMAIN redstoneData \subseteq DOMAIN redstoneData'
          /\ \A c \in DOMAIN redstoneData' : redstoneData'[c] \in Bytes
        BY <2>1, <1>0, <1>8, MarkTyped
    <2>5. DataMarks /\ Levels
        BY <2>1, <2>4, <1>0, <1>5, <1>7, LevelsAre DEF DataMarks
    <2>. QED BY <2>3, <2>5, <1>0, BlocksStay, FactsAre
<1>. QED
    BY <1>9, <1>10

\* Repeaters.
LEMMA RepeaterFacts ==
    ASSUME Scanning, NEW from, NEW to, NEW on \in BOOLEAN, UpdateRepeater(from, to, on),
           from \in {"repeaterOff", "repeaterOn"}, to \in {"repeaterOff", "repeaterOn"},
           drawn' = drawn, layout' = layout
    PROVE  ScanFacts
<1>. DEFINE front == Minus(at, repeaterSide(D(at)))
            sees  == Seen(front) /\ canTransferRedstoneSignal(K(front))
            turns == HeardRight(at) /\ Hears(at) = on /\ ~Kept(at)
            first == IF sees /\ D(front).strong = on
                     THEN Set(blockData, front, Drive(D(front), ~on)) ELSE blockData
            now   == sees /\ turns
            own   == ChunkOf(front) = chunk
            driven == Drive(D(front), on)
            undriven == Drive(D(front), ~on)
<1>1. /\ blockData' = IF now /\ ~own THEN Set(first, front, driven) ELSE first
      /\ redstoneData' = IF now /\ own THEN Mark(redstoneData, front, driven) ELSE redstoneData
      /\ updateRedstoneData' = updateRedstoneData \cup (IF now /\ own THEN {front} ELSE {})
      /\ redstoneBlockData' = IF turns THEN Mark(redstoneBlockData, at, to) ELSE redstoneBlockData
      /\ redraw' = IF turns \/ first # blockData THEN redraw \cup {"textures"} ELSE redraw
      /\ UNCHANGED <<blocks, waterMovementChunk, foreign>>
    BY DEF UpdateRepeater
<1>2. /\ blocks[at] = from /\ updateRedstoneData \subseteq DOMAIN redstoneData
      /\ \A c \in DOMAIN redstoneData : redstoneData[c] \in Bytes
    BY ScanningIs DEF UpdateRepeater
<1>3. {blocks[at], to} \subseteq Turning /\ Shape(to) = Shape(blocks[at])
    BY <1>2, ShapeIs DEF Turning
<1>4. sees => front \in Pos /\ blocks[front] \notin Fixed /\ D(front) = blockData[front]
    BY TransferIs DEF Seen, K, D
<1>5. /\ driven \in Bytes /\ driven.v = D(front).v /\ undriven \in Bytes /\ undriven.v = D(front).v
    BY DataIs, BytesAre
<1>6. now => sees
    OBVIOUS
<1>7. SameLevels(blockData)
    BY ScanningIs DEF SameLevels
<1>. DEFINE lowered == sees /\ D(front).strong = on
<1>8. first = IF lowered THEN Set(blockData, front, undriven) ELSE blockData
    OBVIOUS
<1>9. lowered => sees
    OBVIOUS
<1>. HIDE DEF front, sees, turns, first, now, own, driven, undriven, lowered
<1>10. SameLevels(first)
    BY <1>4, <1>5, <1>7, <1>8, <1>9, SetLevel
<1>11. SameLevels(blockData')
    BY <1>1, <1>4, <1>5, <1>6, <1>10, SetLevel
<1>12. DataMarks /\ Levels
    <2>1. /\ DOMAIN redstoneData \subseteq DOMAIN redstoneData'
          /\ now /\ own => front \in DOMAIN redstoneData'
          /\ \A c \in DOMAIN redstoneData' : redstoneData'[c] \in Bytes
        BY <1>1, <1>2, <1>5, MarkTyped
    <2>2. updateRedstoneData' \subseteq DOMAIN redstoneData'
        BY <1>1, <1>2, <2>1
    <2>3. \A c \in updateRedstoneData' \cap Pos : c \in updateRedstoneData \/ blocks[c] \notin Fixed
        BY <1>1, <1>4, <1>6
    <2>. QED BY <1>11, <2>1, <2>2, <2>3, LevelsAre DEF DataMarks
<1>13. redraw' = redraw \cup {"textures"} \/ redraw' = redraw
    BY <1>1
<1>14. Redraws
    BY <1>13, DrawIs
<1>15. BlockMarks
    BY <1>1, <1>3, <1>14, MarkAtFacts
<1>. QED
    BY <1>1, <1>12, <1>15, BlocksStay, FactsAre

\* A door that is opened stands a quarter further, one that is shut as before.
LEMMA TurnedIs ==
    ASSUME NEW d \in Bytes
    PROVE  /\ Turned(d) \in Bytes /\ Turned(d).v = (((d.v % 4) + 1) % 4) + 4 /\ Turned(d).v <= 15
           /\ TurnedBack(d) \in Bytes /\ TurnedBack(d).v = ((d.v % 4) + 3) % 4 /\ TurnedBack(d).v <= 15
           /\ ~Open(d) => shutRotation(Turned(d)) = shutRotation(d)
           /\ Open(d) => shutRotation(TurnedBack(d)) = shutRotation(d)
<1>. DEFINE v == d.v
            t == (((v % 4) + 1) % 4) + 4
            b == ((v % 4) + 3) % 4
<1>1. v \in 0..63
    BY DEF Bytes
<1>2. Turned(d).v = t /\ TurnedBack(d).v = b
    BY DEF Turned, TurnedBack, rotation, Bytes
<1>. HIDE DEF v
<1>3. t \in 0..63 /\ b \in 0..63 /\ t <= 15 /\ b <= 15
    BY <1>1
<1>4. Turned(d) \in Bytes /\ TurnedBack(d) \in Bytes
    BY <1>3 DEF Turned, TurnedBack, rotation, Bytes, v
<1>5. /\ t % 4 = ((v % 4) + 1) % 4 /\ (t \div 4) % 2 = 1
      /\ b % 4 = b /\ (b \div 4) % 2 = 0
      /\ ((((v % 4) + 1) % 4) + 3) % 4 = v % 4
    BY <1>1
<1>6. ~Open(d) => shutRotation(d) = v % 4
    BY DEF Open, shutRotation, rotation, v
<1>7. Open(d) => shutRotation(d) = b
    BY DEF Open, shutRotation, rotation, v
<1>8. shutRotation(Turned(d)) = ((t % 4) + 3) % 4
    BY <1>2, <1>5 DEF Open, shutRotation, rotation
<1>9. shutRotation(TurnedBack(d)) = b % 4
    BY <1>2, <1>5 DEF Open, shutRotation, rotation
<1>. HIDE DEF t, b
<1>10. (~Open(d) => shutRotation(Turned(d)) = shutRotation(d))
       /\ (Open(d) => shutRotation(TurnedBack(d)) = shutRotation(d))
    BY <1>5, <1>6, <1>7, <1>8, <1>9
<1>. QED
    BY <1>2, <1>3, <1>4, <1>10 DEF t, b, v

\* A door turns both its halves.
LEMMA DoorFacts ==
    ASSUME Scanning, UpdateDoor, drawn' = drawn, layout' = layout
    PROVE  ScanFacts
<1>. DEFINE u == Plus(at, Up)
            opens == DoorOpens(at)
            turn(d) == IF opens THEN Turned(d) ELSE TurnedBack(d)
<1>0. /\ at \in Pos /\ blocks[at] = "doorBottom" /\ K(at) = blocks[at] /\ D(at) = blockData[at]
      /\ UNCHANGED <<blocks, foreign>> /\ pending' = pending
      /\ blockData \in [Pos -> Bytes] /\ DoorWhole /\ WireLevels /\ NoneNew /\ layout \in Layouts
    BY ScanningIs DEF UpdateDoor, pending, Scanning, MapInv
<1>1. BlockFacts /\ Redraws
    BY <1>0, BlocksStay, DrawIs DEF UpdateDoor, Draw
<1>2. CASE opens = Open(D(at))
    <2>1. blockData' = blockData
        BY <1>2 DEF UpdateDoor
    <2>. QED BY <1>0, <1>1, <2>1, PlantFacts
<1>3. CASE opens # Open(D(at))
    <2>1. blockData' = [c \in Pos |-> IF c \notin {at, u} THEN blockData[c] ELSE turn(blockData[c])]
        BY <1>3 DEF UpdateDoor
    <2>2. \A d \in Bytes : turn(d) \in Bytes /\ turn(d).v <= 15
        BY TurnedIs
    <2>3. ASSUME NEW d \in Bytes, Open(d) # opens PROVE shutRotation(turn(d)) = shutRotation(d)
        <3>1. Open(d) \in BOOLEAN /\ opens \in BOOLEAN
            BY DEF Open, DoorOpens
        <3>. QED BY <3>1, <2>3, TurnedIs
    <2>4. \A d, e \in Bytes : d.v = e.v => turn(d).v = turn(e).v
        BY TurnedIs
    <2>. HIDE DEF turn
    <2>5. \A c \in Pos : blockData'[c] = IF c \notin {at, u} THEN blockData[c] ELSE turn(blockData[c])
        BY <2>1
    <2>6. blockData' \in [Pos -> Bytes]
        BY <2>1, <2>2, <1>0
    <2>7. WireLevels'
        BY <2>2, <2>5, <1>0 DEF WireLevels
    <2>8. DoorWhole'
        <3>1. SUFFICES ASSUME NEW c \in Pos, blocks[c] = "doorBottom", DoorSafe(c)
              PROVE  /\ Plus(c, Up) \in Pos /\ blocks[Plus(c, Up)] = "doorTop"
                     /\ blockData'[Plus(c, Up)].v = blockData'[c].v
                     /\ shutRotation(blockData'[c]) = shutRotation(layout.data[c])
            BY <1>0 DEF DoorWhole, DoorSafe, Mined, K, D
        <3>. DEFINE w == Plus(c, Up)
        <3>2. w \in Pos /\ blocks[w] = "doorTop" /\ blockData[w].v = blockData[c].v
              /\ shutRotation(blockData[c]) = shutRotation(layout.data[c])
            BY <1>0, <3>1 DEF DoorWhole, K, D
        <3>3. blockData[c] \in Bytes /\ blockData[w] \in Bytes
            BY <3>2, <1>0
        <3>4. c # u
            <4>1. SUFFICES ASSUME c = u PROVE FALSE
                OBVIOUS
            <4>2. layout.blocks[at] = "doorBottom" /\ layout.blocks[c] = "doorBottom"
                BY <1>0, <3>1 DEF NoneNew, Fixed
            <4>3. SoundLayout(layout)
                BY <1>0, WorldsAssumption
            <4>4. layout.blocks[u] = "doorTop"
                BY <4>2, <4>3, <1>0 DEF SoundLayout
            <4>. QED BY <4>1, <4>2, <4>4
        <3>5. w # at
            BY <3>2, <1>0
        <3>. HIDE DEF u, w
        <3>6. CASE c = at
            <4>1. w = u
                BY <3>6 DEF u, w
            <4>2. blockData'[c] = turn(blockData[c]) /\ blockData'[w] = turn(blockData[w])
                BY <2>5, <3>2, <3>6, <4>1
            <4>3. shutRotation(blockData'[c]) = shutRotation(blockData[c])
                BY <4>2, <2>3, <3>3, <1>3, <3>6, <1>0
            <4>4. blockData'[w].v = blockData'[c].v
                BY <4>2, <2>4, <3>2, <3>3
            <4>. QED BY <3>2, <4>3, <4>4 DEF w
        <3>7. CASE c # at
            <4>1. w # u
                <5>1. SUFFICES ASSUME w = u PROVE FALSE
                    OBVIOUS
                <5>2. /\ w = <<c[1], c[2] + 1, c[3]>> /\ u = <<at[1], at[2] + 1, at[3]>>
                      /\ c[2] \in Int /\ at[2] \in Int
                      /\ c = <<c[1], c[2], c[3]>> /\ at = <<at[1], at[2], at[3]>>
                    BY <1>0, AboveIs, PosIs DEF w, u
                <5>3. c[1] = at[1] /\ c[2] + 1 = at[2] + 1 /\ c[3] = at[3]
                    <6>1. <<c[1], c[2] + 1, c[3]>> = <<at[1], at[2] + 1, at[3]>>
                        BY <5>1, <5>2
                    <6>. QED BY <6>1
                <5>. QED BY <5>2, <5>3, <3>7
            <4>2. blockData'[c] = blockData[c] /\ blockData'[w] = blockData[w]
                BY <4>1, <3>7, <3>4, <3>5, <3>2, <2>5
            <4>. QED BY <4>2, <3>2 DEF w
        <3>. QED BY <3>6, <3>7
    <2>9. DataMarks
        <3>1. updateRedstoneData' = updateRedstoneData /\ redstoneData' = redstoneData
            BY <1>0 DEF pending
        <3>. QED BY <3>1, <2>6, ScanningIs DEF DataMarks
    <2>10. BlockMarks
        BY <1>0, <1>1, MarksStay DEF pending
    <2>. QED BY <1>1, <2>7, <2>8, <2>9, <2>10 DEF ScanFacts
<1>. QED
    BY <1>2, <1>3

----------------------------------------------------------------------------
(* Water and lava.                                                         *)

\* What may become of a block beside or below a fluid, or of the fluid.
Washed == {"air", "stone", "obsidian", "cobblestone"} \cup Fluid

\* Blocks that a fluid changes, in this chunk and beside it.
LEMMA WashedFacts ==
    ASSUME Scanning, blocks[at] \in Fluid, drawn' = drawn, blocks' \in [Pos -> Kinds],
           NEW S \in SUBSET Pos, foreign' = foreign \cup {c \in S : ChunkOf(c) # chunk},
           \A c \in Pos : \/ blocks'[c] = blocks[c]
                          \/ /\ blocks[c] \notin Lasting /\ blocks'[c] \in Washed
                             /\ c \in S \/ ChunkOf(c) = chunk
                             /\ ChunkOf(c) = chunk => "full" \in redraw'
    PROVE  BlockFacts
<1>1. Washed \cap Lasting = {}
    BY DEF Washed, Fluid, Lasting, Fixed, Crop, Farmland
<1>2. Turns
    BY <1>1 DEF Turns
<1>3. Loses
    BY DEF Loses
<1>4. Draws
    BY DEF Draws
<1>5. Flows
    BY DEF Flows
<1>. QED
    BY <1>2, <1>3, <1>4, <1>5, ScanningIs DEF BlockFacts

\* Data whose levels a drying fluid may have raised.
RaisedLevels(f) ==
    /\ f \in [Pos -> Bytes]
    /\ \A c \in Pos : blocks[c] \in Fixed =>
           f[c].v = blockData[c].v \/ (blockData[c].v % 16 = 0 /\ f[c].v = blockData[c].v + 1)

\* A fluid that dries.
LEMMA DryIs ==
    ASSUME Scanning, NEW f \in Fluid, blocks[at] = f, NEW bs \in [Pos -> Kinds],
           NEW ds, SameLevels(ds), NEW cell \in Pos, cell # at,
           NEW r, r = Dry(f, bs, ds, cell)
    PROVE  /\ r[1] \in [Pos -> Kinds] /\ \A c \in Pos : r[1][c] = bs[c] \/ (c = at /\ r[1][c] = "air")
           /\ RaisedLevels(r[2])
<1>. DEFINE more == [ds EXCEPT ![at].v = @ + Drying(f)]
            gone == [ds EXCEPT ![at] = Zero, ![cell].v = IF @ % 16 = 0 THEN @ + 1 ELSE @]
<1>0. /\ at \in Pos /\ ds \in [Pos -> Bytes] /\ Drying(f) \in 2..4 /\ blocks[at] \notin Fixed
      /\ \A c \in Pos : blocks[c] \in Fixed => ds[c].v = blockData[c].v
    BY ScanningIs DEF Drying, Fluid, Fixed, SameLevels
<1>1. \/ r = <<bs, ds>>
      \/ r = <<bs, more>> /\ ds[at].v + Drying(f) <= LowestLevel
      \/ r = <<Set(bs, at, "air"), gone>>
    BY DEF Dry
<1>2. Set(bs, at, "air") \in [Pos -> Kinds] /\ Set(bs, at, "air")[at] = "air"
      /\ \A c \in Pos : c # at => Set(bs, at, "air")[c] = bs[c]
    <2>1. "air" \in Kinds
        BY DEF Kinds
    <2>. QED BY <2>1, <1>0 DEF Set
<1>3. RaisedLevels(ds)
    BY <1>0 DEF RaisedLevels
<1>4. ASSUME ds[at].v + Drying(f) <= LowestLevel PROVE RaisedLevels(more)
    <2>1. ds[at].v \in 0..63 /\ ds[at] \in Bytes
        BY <1>0 DEF Bytes
    <2>2. ds[at].v + Drying(f) \in 0..63
        BY <2>1, <1>0, <1>4, LevelAssumption
    <2>3. [ds[at] EXCEPT !.v = ds[at].v + Drying(f)] \in Bytes
        BY <2>1, <2>2 DEF Bytes
    <2>4. more = [ds EXCEPT ![at] = [ds[at] EXCEPT !.v = ds[at].v + Drying(f)]]
        OBVIOUS
    <2>. HIDE DEF more
    <2>5. more \in [Pos -> Bytes] /\ \A c \in Pos : c # at => more[c] = ds[c]
        BY <2>3, <2>4, <1>0
    <2>. QED BY <2>5, <1>0 DEF RaisedLevels
<1>5. RaisedLevels(gone)
    <2>. DEFINE b == ds[cell]
                w == IF b.v % 16 = 0 THEN b.v + 1 ELSE b.v
                e == [b EXCEPT !.v = w]
    <2>1. b \in Bytes /\ b.v \in 0..63
        BY <1>0 DEF Bytes
    <2>2. w \in 0..63
        BY <2>1
    <2>3. e \in Bytes /\ e.v = w
        BY <2>1, <2>2 DEF Bytes
    <2>4. gone = [[ds EXCEPT ![at] = Zero] EXCEPT ![cell] = e]
        <3>1. [ds EXCEPT ![at] = Zero][cell] = b
            BY <1>0
        <3>. QED BY <3>1
    <2>. HIDE DEF gone, e
    <2>5. gone \in [Pos -> Bytes] /\ gone[cell] = e
          /\ \A c \in Pos : c # at /\ c # cell => gone[c] = ds[c]
        BY <2>3, <2>4, <1>0, BytesAre
    <2>6. ASSUME NEW c \in Pos, blocks[c] \in Fixed
          PROVE  \/ gone[c].v = blockData[c].v
                 \/ blockData[c].v % 16 = 0 /\ gone[c].v = blockData[c].v + 1
        <3>1. CASE c = cell
            BY <3>1, <2>3, <2>5, <2>6, <1>0
        <3>2. CASE c # cell
            BY <3>2, <2>5, <2>6, <1>0
        <3>. QED BY <3>1, <3>2
    <2>. QED BY <2>5, <2>6 DEF RaisedLevels
<1>. HIDE DEF more, gone
<1>6. CASE r = <<bs, ds>>
    BY <1>6, <1>3
<1>7. CASE r = <<bs, more>> /\ ds[at].v + Drying(f) <= LowestLevel
    BY <1>7, <1>4
<1>8. CASE r = <<Set(bs, at, "air"), gone>>
    <2>1. r[1] = Set(bs, at, "air") /\ r[2] = gone
        BY <1>8
    <2>. QED BY <2>1, <1>2, <1>5
<1>. QED
    BY <1>1, <1>6, <1>7, <1>8

\* What lava cools to.
LEMMA CooledIs ==
    ASSUME NEW c
    PROVE  Cooled(c) \in Washed /\ Cooled(c) \in Kinds
BY DEF Cooled, Washed, Kinds, Full

\* The cell below a fluid off the ground.
LEMMA BelowIs ==
    ASSUME Scanning, NEW f \in Fluid, K(at) = f, at[2] # 0
    PROVE  /\ below \in Pos /\ ChunkOf(below) = chunk /\ K(below) = blocks[below] /\ below # at
           /\ D(below) = blockData[below] /\ blocks[at] = f /\ blocks[at] \in Fluid
<1>1. at \in Pos /\ at[2] \in Int /\ 0 <= at[2] /\ at = <<at[1], at[2], at[3]>> /\ ChunkOf(at) = chunk
    BY ScanningIs, PosIs
<1>2. below \in Pos /\ below = <<at[1], at[2] - 1, at[3]>> /\ ChunkOf(below) = chunk
    BY <1>1, AboveIs DEF below
<1>3. below # at
    <2>1. below[2] = at[2] - 1
        BY <1>2
    <2>. QED BY <2>1, <1>1
<1>. QED
    BY <1>2, <1>3, ScanningIs DEF K, D

\* The cells a fluid spreads to.
LEMMA SpreadIs ==
    ASSUME Scanning, NEW f \in Fluid, blocks[at] = f,
           NEW spread,
           spread = [c \in Pos |-> IF c \in SpreadsTo(f) THEN Byte(FALSE, waterHight(f, D(at).v))
                                   ELSE blockData[c]]
    PROVE  /\ SpreadsTo(f) \in SUBSET Pos /\ \A n \in SpreadsTo(f) : blocks[n] \notin Lasting
           /\ SameLevels(spread)
<1>0. blockData \in [Pos -> Bytes] /\ D(at) \in Bytes /\ D(at).v \in 0..63
    BY ScanningIs DEF Bytes
<1>. DEFINE h == waterHight(f, D(at).v)
<1>1. h \in 0..65
    BY <1>0 DEF waterHight
<1>. HIDE DEF h
<1>2. \A n \in SpreadsTo(f) : n \in Pos /\ blocks[n] \in {"air", f} /\ h <= LowestLevel
    BY DEF SpreadsTo, Beside, Seen, K, h
<1>3. \A n \in SpreadsTo(f) : n \in Pos /\ blocks[n] \notin Lasting /\ blocks[n] \notin Fixed
    BY <1>2, KindsIs
<1>4. SpreadsTo(f) # {} => Byte(FALSE, h) \in Bytes
    <2>1. SUFFICES ASSUME SpreadsTo(f) # {} PROVE h \in 0..63
        BY BytesAre
    <2>2. h <= LowestLevel
        BY <2>1, <1>2
    <2>. QED BY <2>2, <1>1, LevelAssumption
<1>5. spread = [c \in Pos |-> IF c \in SpreadsTo(f) THEN Byte(FALSE, h) ELSE blockData[c]]
    BY DEF h
<1>6. SameLevels(spread)
    BY <1>0, <1>3, <1>4, <1>5 DEF SameLevels
<1>. QED
    BY <1>3, <1>6

\* Data whose levels a fluid has raised are fit to be stored.
LEMMA RaisedIs ==
    ASSUME Scanning, blocks[at] \in Fluid, RaisedLevels(blockData'),
           redstoneData' = redstoneData, updateRedstoneData' = updateRedstoneData
    PROVE  DataMarks /\ Levels
BY ScanningIs DEF RaisedLevels, DataMarks, Levels

\* The cells it will flow to are marked.
LEMMA FluidMarks ==
    ASSUME Scanning, NEW f \in Fluid, blocks[at] = f, Redraws, redstoneBlockData' = redstoneBlockData,
           NEW cells \in SUBSET Pos,
           waterMovementChunk' = MarkAll(waterMovementChunk, cells, f),
           \A n \in cells : ChunkOf(n) = chunk /\ blocks[n] \notin Lasting /\ "full" \in redraw'
    PROVE  BlockMarks
<1>1. /\ DOMAIN waterMovementChunk' = DOMAIN waterMovementChunk \cup cells
      /\ \A x \in cells : waterMovementChunk'[x] = f
      /\ \A x \in DOMAIN waterMovementChunk : x \notin cells =>
             waterMovementChunk'[x] = waterMovementChunk[x]
    BY DEF MarkAll
<1>. QED
    BY <1>1 DEF BlockMarks, Redraws

\* Water and lava.
LEMMA FluidFacts ==
    ASSUME Scanning, NEW f \in Fluid, NEW turn, UpdateFluid(f, turn), drawn' = drawn, layout' = layout
    PROVE  ScanFacts
<1>. DEFINE lava    == {n \in Beside : f = "water" /\ K(n) = "lava"}
            cooled  == [c \in Pos |-> IF c \in lava THEN Cooled(c) ELSE blocks[c]]
            onto    == SpreadsTo(f)
            spread  == [c \in Pos |-> IF c \in onto THEN Byte(FALSE, waterHight(f, D(at).v))
                                      ELSE blockData[c]]
            flown   == [c \in Pos |-> IF c \in onto /\ ChunkOf(c) # chunk THEN f ELSE cooled[c]]
            dried   == Dry(f, flown, spread, below)
            filled  == IF D(below).v = 0 THEN blockData
                       ELSE [blockData EXCEPT ![below].v = 0]
            sunk    == Dry(f, cooled, filled, below)
            mine    == {n \in onto : ChunkOf(n) = chunk}
            Idles   == UNCHANGED <<blocks, blockData, waterMovementChunk, redraw, foreign>>
            Falls   == /\ K(below) = "air"
                       /\ waterMovementChunk' = Mark(waterMovementChunk, below, f)
                       /\ blockData' = Set(blockData, below, Zero)
                       /\ redraw' = redraw \cup {"full"}
                       /\ UNCHANGED <<blocks, foreign>>
            Sinks   == /\ K(below) = f
                       /\ blocks' = sunk[1] /\ blockData' = sunk[2]
                       /\ redraw' = IF sunk[1] # blocks \/ sunk[2] # blockData
                                    THEN redraw \cup {"full"} ELSE redraw
                       /\ foreign' = foreign \cup {c \in lava : ChunkOf(c) # chunk}
                       /\ UNCHANGED waterMovementChunk
            Meets   == /\ {K(below), f} = Fluid
                       /\ blocks' = Set(blocks, below, IF f = "lava" THEN "stone" ELSE Cooled(below))
                       /\ redraw' = redraw \cup {"full"}
                       /\ UNCHANGED <<blockData, waterMovementChunk, foreign>>
            Spreads == /\ waterMovementChunk' = MarkAll(waterMovementChunk, mine, f)
                       /\ blocks' = dried[1] /\ blockData' = dried[2]
                       /\ foreign' = foreign \cup {c \in lava \cup onto : ChunkOf(c) # chunk}
                       /\ redraw' = IF onto # {} \/ dried[1] # blocks \/ dried[2] # blockData
                                    THEN redraw \cup {"full"} ELSE redraw
<1>0. /\ at \in Pos /\ K(at) = f /\ blocks[at] = f /\ blocks[at] \in Fluid /\ f \in Kinds
      /\ redstoneData' = redstoneData /\ updateRedstoneData' = updateRedstoneData
      /\ redstoneBlockData' = redstoneBlockData
      /\ blocks \in [Pos -> Kinds] /\ blockData \in [Pos -> Bytes]
    BY ScanningIs, KindsIs DEF UpdateFluid
<1>1. Idles \/ (at[2] # 0 /\ (Falls \/ Sinks \/ Meets \/ Spreads))
    BY DEF UpdateFluid, Abroad, Draw
<1>2. lava \in SUBSET Pos /\ \A n \in lava : blocks[n] = "lava" /\ blocks[n] \notin Lasting
    BY KindsIs DEF Beside, Seen, K, Fluid
<1>3. /\ onto \in SUBSET Pos /\ \A n \in onto : blocks[n] \notin Lasting
      /\ SameLevels(spread)
    BY <1>0, SpreadIs
<1>4. cooled \in [Pos -> Kinds] /\ \A c \in Pos : cooled[c] = blocks[c] \/ (c \in lava /\ cooled[c] \in Washed)
    BY <1>0, CooledIs
<1>5. f \in Washed /\ "air" \in Washed /\ "stone" \in Washed /\ "stone" \in Kinds
    BY DEF Washed, Kinds, Full
<1>6. flown \in [Pos -> Kinds]
      /\ \A c \in Pos : flown[c] = blocks[c] \/ (c \in lava \cup onto /\ flown[c] \in Washed)
    <2>. HIDE DEF cooled, onto, lava
    <2>. QED BY <1>4, <1>5, <1>0
<1>. HIDE DEF lava, cooled, onto, spread, flown, filled
<1>7. blocks[at] \notin Lasting
    BY <1>0, KindsIs
<1>8. CASE Idles
    <2>1. Redraws
        BY <1>8, DrawIs
    <2>. QED BY <1>0, <1>8, <2>1, BlocksStay, DataStays, MarksStay, FactsAre
<1>9. CASE at[2] # 0 /\ Falls
    <2>1. below \in Pos /\ ChunkOf(below) = chunk /\ blocks[below] = "air"
        BY <1>0, <1>9, BelowIs
    <2>2. Redraws /\ "full" \in redraw'
        BY <1>9, DrawIs
    <2>3. waterMovementChunk' = MarkAll(waterMovementChunk, {below}, f)
        BY <1>9 DEF Mark
    <2>4. \A n \in {below} : ChunkOf(n) = chunk /\ blocks[n] \notin Lasting /\ "full" \in redraw'
        BY <2>1, <2>2, KindsIs
    <2>5. BlockMarks
        BY <2>1, <2>2, <2>3, <2>4, <1>0, FluidMarks
    <2>6. SameLevels(blockData')
        <3>1. SameLevels(blockData) /\ Zero \in Bytes /\ blocks[below] \notin Fixed
            BY <1>0, <2>1, BytesAre DEF SameLevels, Fixed
        <3>. QED BY <3>1, <2>1, <1>9, SetLevel
    <2>7. DataMarks /\ Levels
        BY <2>6, <1>0, ScanningIs, LevelsAre DEF DataMarks
    <2>. QED BY <1>9, <2>5, <2>7, BlocksStay, FactsAre
<1>10. CASE at[2] # 0 /\ Sinks
    <2>1. below \in Pos /\ ChunkOf(below) = chunk /\ blocks[below] = f /\ below # at
        BY <1>0, <1>10, BelowIs
    <2>2. SameLevels(filled)
        <3>1. SameLevels(blockData)
            BY <1>0 DEF SameLevels
        <3>2. blockData[below] \in Bytes /\ [blockData[below] EXCEPT !.v = 0] \in Bytes
            BY <1>0, <2>1 DEF Bytes
        <3>3. filled = blockData \/ filled = Set(blockData, below, [blockData[below] EXCEPT !.v = 0])
            BY DEF filled, Set
        <3>4. blocks[below] \notin Fixed
            BY <2>1, KindsIs
        <3>. QED BY <3>1, <3>2, <3>3, <3>4, <2>1, SetLevel
    <2>3. /\ sunk[1] \in [Pos -> Kinds]
          /\ \A c \in Pos : sunk[1][c] = cooled[c] \/ (c = at /\ sunk[1][c] = "air")
          /\ RaisedLevels(sunk[2])
        BY <1>0, <1>4, <2>1, <2>2, DryIs
    <2>. HIDE DEF sunk
    <2>4. redraw' = redraw \cup {"full"} \/ redraw' = redraw
        BY <1>10
    <2>5. Redraws
        BY <2>4, DrawIs
    <2>6. BlockMarks
        BY <1>0, <1>10, <2>5, MarksStay
    <2>7. DataMarks /\ Levels
        BY <1>0, <1>10, <2>3, RaisedIs
    <2>8. ASSUME NEW c \in Pos, blocks'[c] # blocks[c]
          PROVE  /\ blocks[c] \notin Lasting /\ blocks'[c] \in Washed /\ "full" \in redraw'
                 /\ c \in lava \/ ChunkOf(c) = chunk
        <3>1. blocks' # blocks /\ blocks' = sunk[1]
            BY <2>8, <1>10
        <3>2. "full" \in redraw'
            BY <3>1, <1>10
        <3>3. (c \in lava /\ blocks'[c] \in Washed) \/ (c = at /\ blocks'[c] = "air")
            BY <3>1, <2>3, <2>8, <1>4
        <3>. QED BY <3>2, <3>3, <1>2, <1>5, <1>7, ScanningIs
    <2>9. blocks' \in [Pos -> Kinds] /\ foreign' = foreign \cup {c \in lava : ChunkOf(c) # chunk}
        BY <2>3, <1>10
    <2>10. BlockFacts
        BY <2>8, <2>9, <1>0, <1>2, WashedFacts
    <2>. QED BY <2>6, <2>7, <2>10, FactsAre
<1>11. CASE at[2] # 0 /\ Meets
    <2>1. below \in Pos /\ ChunkOf(below) = chunk /\ blocks[below] \in Fluid
        BY <1>0, <1>11, BelowIs DEF Fluid
    <2>. DEFINE k == IF f = "lava" THEN "stone" ELSE Cooled(below)
    <2>2. k \in Washed /\ k \in Kinds
        BY <1>5, CooledIs
    <2>3. Redraws /\ "full" \in redraw'
        BY <1>11, DrawIs
    <2>. HIDE DEF k
    <2>4. blocks' = Set(blocks, below, k)
        BY <1>11 DEF k
    <2>5. /\ blocks' \in [Pos -> Kinds] /\ blocks'[below] = k
          /\ \A c \in Pos : c # below => blocks'[c] = blocks[c]
        BY <2>1, <2>2, <2>4, <1>0 DEF Set
    <2>6. foreign' = foreign \cup {c \in {} : ChunkOf(c) # chunk} /\ {} \in SUBSET Pos
        BY <1>11
    <2>7. blocks[below] \notin Lasting
        BY <2>1, KindsIs
    <2>8. \A c \in Pos : \/ blocks'[c] = blocks[c]
                          \/ /\ blocks[c] \notin Lasting /\ blocks'[c] \in Washed
                             /\ ChunkOf(c) = chunk
                             /\ ChunkOf(c) = chunk => "full" \in redraw'
        BY <2>1, <2>2, <2>3, <2>5, <2>7
    <2>9. BlockFacts
        BY <2>5, <2>6, <2>8, <1>0, WashedFacts
    <2>. QED BY <2>3, <2>9, <1>0, <1>11, DataStays, MarksStay, FactsAre
<1>12. CASE at[2] # 0 /\ Spreads
    <2>1. below \in Pos /\ below # at
        BY <1>0, <1>12, BelowIs
    <2>2. /\ dried[1] \in [Pos -> Kinds]
          /\ \A c \in Pos : dried[1][c] = flown[c] \/ (c = at /\ dried[1][c] = "air")
          /\ RaisedLevels(dried[2])
        BY <1>0, <1>3, <1>6, <2>1, DryIs
    <2>. HIDE DEF dried
    <2>3. redraw' = redraw \cup {"full"} \/ redraw' = redraw
        BY <1>12
    <2>4. Redraws
        BY <2>3, DrawIs
    <2>5. BlockMarks
        <3>1. mine \in SUBSET Pos /\ waterMovementChunk' = MarkAll(waterMovementChunk, mine, f)
              /\ \A n \in mine : ChunkOf(n) = chunk /\ blocks[n] \notin Lasting /\ "full" \in redraw'
            BY <1>12, <1>3
        <3>. HIDE DEF mine
        <3>. QED BY <3>1, <2>4, <1>0, FluidMarks
    <2>6. DataMarks /\ Levels
        BY <1>0, <1>12, <2>2, RaisedIs
    <2>7. ASSUME NEW c \in Pos, blocks'[c] # blocks[c]
          PROVE  /\ blocks[c] \notin Lasting /\ blocks'[c] \in Washed /\ "full" \in redraw'
                 /\ c \in lava \cup onto \/ ChunkOf(c) = chunk
        <3>1. blocks' # blocks /\ blocks' = dried[1]
            BY <2>7, <1>12
        <3>2. "full" \in redraw'
            BY <3>1, <1>12
        <3>3. (c \in lava \cup onto /\ blocks'[c] \in Washed) \/ (c = at /\ blocks'[c] = "air")
            BY <3>1, <2>2, <2>7, <1>6
        <3>. QED BY <3>2, <3>3, <1>2, <1>3, <1>5, <1>7, ScanningIs
    <2>8. /\ blocks' \in [Pos -> Kinds] /\ lava \cup onto \in SUBSET Pos
          /\ foreign' = foreign \cup {c \in lava \cup onto : ChunkOf(c) # chunk}
        BY <2>2, <1>2, <1>3, <1>12
    <2>9. BlockFacts
        BY <2>7, <2>8, <1>0, WashedFacts
    <2>. QED BY <2>5, <2>6, <2>9, FactsAre
<1>. QED
    BY <1>1, <1>8, <1>9, <1>10, <1>11, <1>12

\* One block of the scan keeps the invariant, and loses no crop.
LEMMA ScanKeeps ==
    ASSUME MapInv, Scan
    PROVE  /\ MapInv'
           /\ \A c \in Pos : phase = "scan" /\ K(c) \in Crop /\ CropSafe(c) /\ blocks'[c] \notin Crop =>
                                 Plus(c, Down) \in broken
<1>1. /\ Scanning /\ UpdateBlock /\ GoOn(chunk, blocks', Index(at))
      /\ UNCHANGED <<chunk, level, sweeps, round, outside>> /\ layout' = layout
    BY DEF Scan, Scanning, outside
<1>2. ScanFacts
    <2>1. CASE UpdateTnt
        BY <2>1, <1>1, TntFacts
    <2>2. CASE drawn' = drawn /\ (UpdateLever \/ UpdateButtonOn \/ UpdateButtonOff)
        BY <2>2, <1>1, LeverFacts
    <2>3. CASE drawn' = drawn /\ (UpdateTorchOn \/ UpdateTorchOff)
        BY <2>3, <1>1, TorchFacts
    <2>4. CASE drawn' = drawn /\ (UpdateRepeaterOff \/ UpdateRepeaterOn)
        BY <2>4, <1>1, RepeaterFacts DEF UpdateRepeaterOff, UpdateRepeaterOn
    <2>5. CASE drawn' = drawn /\ (UpdateDoor \/ UpdateLamp)
        BY <2>5, <1>1, DoorFacts, LampFacts
    <2>6. CASE drawn' = drawn /\ (UpdateWater \/ UpdateLava(cycle = 0))
        <3>1. "water" \in Fluid /\ "lava" \in Fluid
            BY DEF Fluid
        <3>. QED BY <3>1, <2>6, <1>1, FluidFacts DEF UpdateWater, UpdateLava
    <2>7. CASE drawn' = drawn /\ UpdateSapling
        BY <2>7, <1>1, SaplingFacts
    <2>8. CASE /\ drawn' = drawn
               /\ \/ UpdateLeaves \/ UpdateFlower \/ UpdateWheat \/ UpdateDirt
                  \/ UpdateGrass \/ UpdateFarmland \/ UpdateWetFarmland
        BY <2>8, <1>1, PlantsFacts
    <2>9. CASE drawn' = drawn /\ UpdateNothing
        BY <2>9, <1>1, NothingFacts
    <2>. QED BY <1>1, <2>1, <2>2, <2>3, <2>4, <2>5, <2>6, <2>7, <2>8, <2>9 DEF UpdateBlock
<1>. QED
    BY <1>1, <1>2, BlockKeeps DEF ScanFacts

----------------------------------------------------------------------------
(* What follows the blocks, and the player.                                *)

\* The parts of the invariant.
LEMMA MapIs ==
    ASSUME MapInv
    PROVE  /\ blocks \in [Pos -> Kinds] /\ drawn \in [Pos -> Kinds] /\ blockData \in [Pos -> Bytes]
           /\ foreign \in SUBSET Pos /\ redraw \subseteq {"textures", "light", "full"}
           /\ layout \in Layouts /\ SoundLayout(layout) /\ MaxSweeps \in Nat
           /\ \A c \in Pos : blocks[c] = K(c) /\ blockData[c] = D(c)
           /\ NoneNew /\ Marks /\ Showing /\ WireLevels /\ SweepLevels /\ CropsStand
           /\ DoorWhole /\ Rounds /\ RoundTyped /\ TypeOK
BY WorldsAssumption DEF MapInv, TypeOK, K, D

(* A step that leaves every block of a lasting kind, and the level of doors. *)
LEMMA WorldKept ==
    ASSUME MapInv, layout' = layout, broken \subseteq broken',
           blocks' \in [Pos -> Kinds], blockData' \in [Pos -> Bytes],
           \A c \in Pos : blocks'[c] = blocks[c] \/ (blocks[c] \notin Lasting /\ blocks'[c] \notin Lasting),
           \A c \in Pos : blocks[c] \in {"doorBottom", "doorTop"} => blockData'[c].v = blockData[c].v
    PROVE  /\ DoorWhole' /\ CropsStand'
           /\ \A c \in Pos : blocks'[c] \in Fixed \cup {"tnt", "sapling"} => layout.blocks[c] = blocks'[c]
           /\ \A c \in Pos : blocks'[c] \in Farmland => layout.blocks[c] \in Farmland
<1>0. NoneNew /\ CropsStand /\ DoorWhole
    BY DEF MapInv
<1>1. ASSUME NEW c \in Pos, blocks[c] \in Lasting \/ blocks'[c] \in Lasting PROVE blocks'[c] = blocks[c]
    BY <1>1
<1>2. Fixed \cup {"tnt", "sapling"} \subseteq Lasting
    BY DEF Lasting
<1>3. DoorWhole'
    <2>1. SUFFICES ASSUME NEW c \in Pos, blocks'[c] = "doorBottom", DoorSafe(c)
          PROVE  /\ Plus(c, Up) \in Pos /\ blocks'[Plus(c, Up)] = "doorTop"
                 /\ blockData'[Plus(c, Up)].v = blockData'[c].v
                 /\ shutRotation(blockData'[c]) = shutRotation(layout.data[c])
        BY DEF DoorWhole, DoorSafe, Mined, K, D
    <2>. DEFINE u == Plus(c, Up)
    <2>2. "doorBottom" \in Lasting /\ "doorTop" \in Lasting
        BY DEF Lasting, Fixed
    <2>3. blocks[c] = "doorBottom"
        BY <2>1, <2>2, <1>1
    <2>4. u \in Pos /\ blocks[u] = "doorTop" /\ blockData[u].v = blockData[c].v
          /\ shutRotation(blockData[c]) = shutRotation(layout.data[c])
        BY <1>0, <2>1, <2>3 DEF DoorWhole, K, D
    <2>. HIDE DEF u
    <2>5. blocks'[u] = "doorTop"
        BY <2>2, <2>4, <1>1
    <2>6. blockData'[c].v = blockData[c].v /\ blockData'[u].v = blockData[u].v
        BY <2>3, <2>4
    <2>7. shutRotation(blockData'[c]) = shutRotation(blockData[c])
        BY <2>6 DEF shutRotation, Open, rotation
    <2>. QED BY <2>4, <2>5, <2>6, <2>7 DEF u
<1>4. CropsStand'
    <2>1. SUFFICES ASSUME NEW c \in Pos, blocks'[c] \in Crop, c[2] > 0, CropSafe(c),
                          Plus(c, Down) \notin broken'
                   PROVE  blocks'[Plus(c, Down)] \in Farmland
        BY DEF CropsStand, CropSafe, Mined
    <2>2. blocks[c] \in Crop
        BY <2>1, <1>1, KindsIs
    <2>3. Plus(c, Down) \in Pos /\ blocks[Plus(c, Down)] \in Farmland
        BY <2>1, <2>2, <1>0, AboveIs DEF CropsStand
    <2>. QED BY <2>3, <1>1, KindsIs
<1>5. \A c \in Pos : blocks'[c] \in Fixed \cup {"tnt", "sapling"} => layout.blocks[c] = blocks'[c]
    BY <1>0, <1>1, <1>2 DEF NoneNew
<1>6. \A c \in Pos : blocks'[c] \in Farmland => layout.blocks[c] \in Farmland
    BY <1>0, <1>1, KindsIs DEF NoneNew
<1>. QED
    BY <1>3, <1>4, <1>5, <1>6

\* The next chunk of the round.
LEMMA StartKeeps ==
    ASSUME MapInv, StartChunk
    PROVE  MapInv'
<1>. DEFINE next == NextChunk(<<chunkXMapRedstone, chunkZMapRedstone>>)
<1>0. /\ phase = "rest" /\ updated # {}
      /\ chunkXMapRedstone' = next[1] + 1 /\ chunkZMapRedstone' = next[2]
      /\ cycle' = (cycle + 1) % 6
      /\ currentRedstoneChunk' = (currentRedstoneChunk + 1) % chunksToUpdate
      /\ visited' = (IF currentRedstoneChunk = 0 THEN <<next>> ELSE Append(visited, next))
      /\ IF next \in Chunk
         THEN chunk' = next /\ GoOn(next, blocks, -1)
         ELSE UNCHANGED <<chunk, phase, at>>
      /\ updateRedstoneData' = {} /\ redraw' = {}
      /\ redstoneBlockData' = <<>> /\ waterMovementChunk' = <<>>
      /\ blocks' = blocks /\ blockData' = blockData /\ redstoneData' = redstoneData
      /\ drawn' = drawn /\ foreign' = foreign /\ level' = level /\ sweeps' = sweeps
      /\ layout' = layout /\ updated' = updated /\ uses' = uses /\ broken' = broken
    BY DEF StartChunk, shown, outside
<1>. HIDE DEF next
<1>1. Rounds' /\ RoundTyped'
    <2>1. layout \in Layouts /\ Rounds /\ RoundTyped
        BY DEF MapInv
    <2>2. next = NextChunk(<<chunkXMapRedstone, chunkZMapRedstone>>)
        BY DEF next
    <2>. QED BY <1>0, <2>1, <2>2, RoundKept
<1>2. /\ phase' \in {"rest", "scan", "store"} /\ chunk' \in Chunk
      /\ (phase' = "scan") <=> (at' \in Pos)
      /\ phase' = "scan" => ChunkOf(at') = chunk' /\ blocks[at'] # "air"
    <2>1. CASE next \in Chunk
        <3>1. /\ chunk' = next /\ GoOn(next, blocks, -1)
            BY <1>0, <2>1
        <3>2. /\ phase' \in {"scan", "store"}
              /\ phase' = "scan" <=> at' \in Pos
              /\ phase' = "scan" => ChunkOf(at') = next /\ blocks[at'] # "air"
            BY <3>1, GoesOn
        <3>. QED BY <2>1, <3>1, <3>2
    <2>2. CASE next \notin Chunk
        <3>1. chunk' = chunk /\ phase' = phase /\ at' = at
            BY <1>0, <2>2
        <3>. QED BY <1>0, <3>1, MapIs DEF TypeOK
    <2>. QED BY <2>1, <2>2
<1>3. DOMAIN redstoneBlockData' = {} /\ DOMAIN waterMovementChunk' = {}
    BY <1>0
<1>4. blocks' = blocks /\ blockData' = blockData /\ layout' = layout /\ broken' = broken
    BY <1>0
<1>5. DoorWhole' /\ CropsStand' /\ WireLevels'
    BY <1>4, MapIs, WorldKept DEF WireLevels
<1>6. NoneNew' /\ Marks'
    BY <1>0, <1>3, MapIs DEF NoneNew, Marks
<1>7. Showing'
    BY <1>0, MapIs DEF Showing, WillShow
<1>8. SweepLevels'
    BY <1>2 DEF SweepLevels
<1>9. TypeOK'
    <2>1. /\ blocks' \in [Pos -> Kinds] /\ drawn' \in [Pos -> Kinds] /\ blockData' \in [Pos -> Bytes]
          /\ foreign' \subseteq Pos /\ redraw' \subseteq {"textures", "light", "full"}
          /\ updateRedstoneData' \subseteq DOMAIN redstoneData'
          /\ sweeps' \in 0..MaxSweeps /\ uses' \in 0..layout'.uses
          /\ \A c \in DOMAIN redstoneData' : redstoneData'[c] \in Bytes
          /\ \A c \in DOMAIN level' : level'[c] \in 0..15
        BY <1>0, MapIs DEF TypeOK
    <2>2. cycle' \in 0..5
        <3>1. cycle \in 0..5
            BY MapIs DEF TypeOK
        <3>. QED BY <3>1, <1>0
    <2>3. chunkXMapRedstone' \in 0..(totalChunkWidth + layout'.distance)
        BY <1>1 DEF RoundTyped
    <2>4. phase' = "scan" => (ChunkOf(at') = chunk' /\ K(at)' # "air")
        BY <1>0, <1>2 DEF K
    <2>. QED BY <1>2, <1>3, <2>1, <2>2, <2>3, <2>4 DEF TypeOK
<1>. QED
    BY <1>1, <1>5, <1>6, <1>7, <1>8, <1>9, <1>4, MapIs DEF MapInv

\* What was marked is stored.
LEMMA StoreKeeps ==
    ASSUME MapInv, Store
    PROVE  MapInv'
<1>0. /\ phase = "store" /\ blocks' = Applied(redstoneBlockData, blocks)
      /\ blockData' = [c \in Pos |-> IF c \in updateRedstoneData THEN redstoneData[c] ELSE blockData[c]]
      /\ redstoneData' = <<>> /\ updateRedstoneData' = {}
      /\ level' = [c \in {c \in Pos : ChunkOf(c) = chunk /\ blocks'[c] = "wire"} |-> 0]
      /\ sweeps' = 0 /\ phase' = "wires"
      /\ foreign' = foreign \cup {c \in DOMAIN redstoneBlockData : blocks[c] = "air"}
      /\ at' = at /\ chunk' = chunk /\ redstoneBlockData' = redstoneBlockData
      /\ waterMovementChunk' = waterMovementChunk /\ redraw' = redraw /\ drawn' = drawn
      /\ round' = round
      /\ layout' = layout /\ updated' = updated /\ uses' = uses /\ broken' = broken
    BY DEF Store, outside
<1>1. \A c \in Pos : blocks'[c] = IF c \in DOMAIN redstoneBlockData THEN redstoneBlockData[c] ELSE blocks[c]
    BY <1>0 DEF Applied
<1>2. ASSUME NEW c \in DOMAIN redstoneBlockData
      PROVE  /\ c \in Pos /\ ChunkOf(c) = chunk
             /\ blocks[c] \notin Lasting /\ blocks'[c] \in Turning /\ redraw # {}
             /\ \/ blocks[c] = "air" \/ "full" \in redraw
                \/ Shape(blocks'[c]) = Shape(blocks[c])
    BY <1>1, MapIs DEF Marks
<1>3. \A c \in Pos : blocks'[c] = blocks[c]
                     \/ (blocks[c] \notin Lasting /\ blocks'[c] \notin Lasting /\ blocks'[c] \in Turning)
    BY <1>1, <1>2, KindsIs
<1>4. blocks' \in [Pos -> Kinds]
    <2>1. \A c \in Pos : blocks'[c] \in Kinds
        BY <1>3, MapIs, KindsIs
    <2>2. blocks' = [c \in Pos |-> blocks'[c]]
        BY <1>0 DEF Applied
    <2>. QED BY <2>1, <2>2
<1>5. /\ blockData' \in [Pos -> Bytes]
      /\ \A c \in Pos : blocks[c] \in Fixed => blockData'[c] = blockData[c]
    <2>1. \A c \in updateRedstoneData : redstoneData[c] \in Bytes
        BY MapIs DEF TypeOK
    <2>2. \A c \in updateRedstoneData \cap Pos : blocks[c] \notin Fixed
        BY MapIs DEF Marks
    <2>. QED BY <1>0, <2>1, <2>2, MapIs
<1>6. /\ DoorWhole' /\ CropsStand'
      /\ \A c \in Pos : blocks'[c] \in Fixed \cup {"tnt", "sapling"} => layout.blocks[c] = blocks'[c]
      /\ \A c \in Pos : blocks'[c] \in Farmland => layout.blocks[c] \in Farmland
    <2>1. {"doorBottom", "doorTop"} \subseteq Fixed /\ broken \subseteq broken'
        BY <1>0 DEF Fixed
    <2>. QED BY <2>1, <1>0, <1>3, <1>4, <1>5, WorldKept
<1>7. NoneNew'
    BY <1>0, <1>3, <1>6, MapIs, KindsIs DEF NoneNew
<1>8. WireLevels'
    <2>1. "wire" \in Fixed /\ "wire" \in Lasting
        BY DEF Fixed, Lasting
    <2>. QED BY <2>1, <1>3, <1>5, MapIs DEF WireLevels
<1>9. Marks'
    <2>1. ASSUME NEW c \in DOMAIN redstoneBlockData
          PROVE  /\ c \in Pos /\ ChunkOf(c) = chunk /\ blocks'[c] \notin Lasting
                 /\ redstoneBlockData[c] \in Turning /\ redraw # {}
                 /\ Shape(redstoneBlockData[c]) = Shape(blocks'[c])
        BY <1>1, <1>2, KindsIs
    <2>2. ASSUME NEW c \in DOMAIN waterMovementChunk
          PROVE  c \in Pos /\ ChunkOf(c) = chunk /\ blocks'[c] \notin Lasting /\ "full" \in redraw
        <3>1. c \in Pos /\ ChunkOf(c) = chunk /\ blocks[c] \notin Lasting /\ "full" \in redraw
            BY MapIs DEF Marks
        <3>. QED BY <3>1, <1>3
    <2>. QED BY <1>0, <2>1, <2>2 DEF Marks
<1>10. Showing'
    <2>1. SUFFICES ASSUME NEW c \in Pos, drawn[c] # blocks'[c], c \notin foreign'
                   PROVE  /\ ChunkOf(c) = chunk
                          /\ "full" \in redraw \/ (redraw # {} /\ Shape(drawn[c]) = Shape(blocks'[c]))
        BY <1>0 DEF Showing, WillShow
    <2>2. c \notin foreign /\ (c \in DOMAIN redstoneBlockData => blocks[c] # "air")
        BY <2>1, <1>0
    <2>3. drawn[c] = blocks[c] \/ WillShow(c)
        BY <2>2, MapIs DEF Showing
    <2>4. CASE c \in DOMAIN redstoneBlockData
        BY <2>2, <2>3, <2>4, <1>2 DEF WillShow
    <2>5. CASE c \notin DOMAIN redstoneBlockData
        BY <2>1, <2>3, <2>5, <1>1 DEF WillShow
    <2>. QED BY <2>4, <2>5
<1>11. SweepLevels'
    <2>1. DOMAIN level' = {c \in Pos : ChunkOf(c) = chunk /\ blocks'[c] = "wire"}
        BY <1>0
    <2>2. Wires(chunk)' = {c \in Pos : ChunkOf(c) = chunk /\ blocks'[c] = "wire"}
        BY <1>0 DEF Wires
    <2>. QED BY <2>1, <2>2 DEF SweepLevels
<1>12. Rounds' /\ RoundTyped'
    BY <1>0, MapIs, RoundsSame
<1>13. TypeOK'
    <2>1. /\ drawn' \in [Pos -> Kinds] /\ chunk' \in Chunk /\ redraw' \subseteq {"textures", "light", "full"}
          /\ at' \notin Pos /\ uses' \in 0..layout'.uses
        BY <1>0, MapIs DEF TypeOK
    <2>2. foreign' \subseteq Pos
        BY <1>0, <1>2, MapIs
    <2>3. /\ \A c \in DOMAIN redstoneData' : redstoneData'[c] \in Bytes
          /\ updateRedstoneData' \subseteq DOMAIN redstoneData'
          /\ \A c \in DOMAIN level' : level'[c] \in 0..15
          /\ sweeps' \in 0..MaxSweeps
        BY <1>0, MapIs
    <2>4. /\ \A c \in DOMAIN redstoneBlockData' : redstoneBlockData'[c] \in Kinds
          /\ \A c \in DOMAIN waterMovementChunk' : waterMovementChunk'[c] \in Fluid
        BY <1>0, MapIs DEF TypeOK
    <2>5. chunkXMapRedstone' \in 0..(totalChunkWidth + layout'.distance) /\ cycle' \in 0..5
        BY <1>0, <1>12, MapIs DEF RoundTyped, TypeOK, round
    <2>. QED BY <1>0, <1>4, <1>5, <2>1, <2>2, <2>3, <2>4, <2>5 DEF TypeOK
<1>. QED
    BY <1>0, <1>6, <1>7, <1>8, <1>9, <1>10, <1>11, <1>12, <1>13, MapIs DEF MapInv

(* What is stored of the wires: their levels, and whether the block below is
   weak; the levels of doors stay.                                         *)
LEMMA StoredIs ==
    ASSUME MapInv, Charged(level)
    PROVE  /\ Stored(level) \in [Pos -> Bytes]
           /\ \A c \in Pos : blocks[c] = "wire" => Stored(level)[c].v <= 15
           /\ \A c \in Pos : blocks[c] # "wire" => Stored(level)[c].v = blockData[c].v
<1>. DEFINE changed == {c \in DOMAIN level : D(c).v # level[c]}
            on(c) == level[c] > 0
            driven(c) == [Byte(FALSE, level[c]) EXCEPT !.weak = K(Plus(c, Down)) \in Full /\ on(c)]
            held(c) == [blockData[c] EXCEPT !.weak = on(Plus(c, Up))]
            s == Stored(level)
<1>1. s = [c \in Pos |-> IF c \in changed THEN driven(c)
                         ELSE IF Plus(c, Up) \in changed /\ blocks[c] \in Full THEN held(c)
                         ELSE blockData[c]]
    BY DEF Stored
<1>. HIDE DEF s
<1>2. \A c \in changed : c \in Pos /\ blocks[c] = "wire" /\ level[c] \in 0..15
    BY DEF Charged, Wires
<1>3. ASSUME NEW c \in changed PROVE driven(c) \in Bytes /\ driven(c).v <= 15
    <2>. DEFINE b == K(Plus(c, Down)) \in Full /\ on(c)
    <2>1. b \in BOOLEAN
        OBVIOUS
    <2>. HIDE DEF b
    <2>2. level[c] \in 0..15
        BY <1>2
    <2>3. level[c] \in 0..63 /\ level[c] <= 15
        BY <2>2
    <2>4. [Byte(FALSE, level[c]) EXCEPT !.weak = b] \in Bytes
          /\ [Byte(FALSE, level[c]) EXCEPT !.weak = b].v = level[c]
        BY <2>1, <2>3 DEF Byte, Bytes
    <2>. QED BY <2>3, <2>4 DEF b
<1>4. ASSUME NEW c \in Pos PROVE held(c) \in Bytes /\ held(c).v = blockData[c].v
    <2>. DEFINE b == on(Plus(c, Up))
    <2>1. blockData[c] \in Bytes /\ b \in BOOLEAN
        BY MapIs
    <2>. HIDE DEF b
    <2>2. /\ [blockData[c] EXCEPT !.weak = b] \in Bytes
          /\ [blockData[c] EXCEPT !.weak = b].v = blockData[c].v
        BY <2>1 DEF Bytes
    <2>. QED BY <2>2 DEF b
<1>. HIDE DEF changed, driven, held
<1>5. s \in [Pos -> Bytes]
    <2>1. blockData \in [Pos -> Bytes]
        BY MapIs
    <2>. QED BY <2>1, <1>1, <1>3, <1>4
<1>6. ASSUME NEW c \in Pos, blocks[c] = "wire" PROVE s[c].v <= 15
    <2>1. blockData[c].v <= 15
        BY <1>6, MapIs DEF WireLevels
    <2>2. \/ s[c] = driven(c) /\ c \in changed
          \/ s[c] = held(c) \/ s[c] = blockData[c]
        BY <1>1
    <2>3. s[c].v <= 15 \/ s[c].v = blockData[c].v
        BY <2>2, <1>3, <1>4
    <2>. QED BY <2>1, <2>3
<1>7. ASSUME NEW c \in Pos, blocks[c] # "wire" PROVE s[c].v = blockData[c].v
    <2>1. c \notin changed
        BY <1>2, <1>7
    <2>. QED BY <2>1, <1>1, <1>4
<1>. QED
    BY <1>5, <1>6, <1>7 DEF s

\* A sweep over the wires, and what is stored of them.
LEMMA WiresKeeps ==
    ASSUME MapInv, UpdateWires
    PROVE  MapInv'
<1>0. /\ phase = "wires" /\ blocks' = blocks /\ at' = at /\ chunk' = chunk
      /\ redstoneData' = redstoneData /\ updateRedstoneData' = updateRedstoneData
      /\ redstoneBlockData' = redstoneBlockData /\ waterMovementChunk' = waterMovementChunk
      /\ drawn' = drawn /\ foreign' = foreign /\ round' = round
      /\ layout' = layout /\ updated' = updated /\ uses' = uses /\ broken' = broken
    BY DEF UpdateWires, pending, shown, outside
<1>. DEFINE Goes  == /\ sweeps < MaxSweeps /\ level' = Sweep(level) /\ sweeps' = sweeps + 1
                     /\ UNCHANGED <<blockData, redraw, phase>>
            Stops == /\ blockData' = Stored(level)
                     /\ redraw' = redraw \cup {"textures"} \/ redraw' = redraw
                     /\ level' = <<>> /\ sweeps' = 0 /\ phase' = "draw"
<1>1. Goes \/ Stops
    BY DEF UpdateWires
<1>2. Charged(level)
    BY <1>0, MapIs DEF Charged, SweepLevels, TypeOK
<1>3. Charged(Sweep(level))
    BY <1>2, MapIs, SweepIs
<1>4. /\ blockData' \in [Pos -> Bytes] /\ WireLevels'
      /\ \A c \in Pos : blocks[c] # "wire" => blockData'[c].v = blockData[c].v
    <2>1. CASE Goes
        BY <2>1, <1>0, MapIs DEF WireLevels
    <2>2. CASE Stops
        BY <2>2, <1>0, <1>2, StoredIs DEF WireLevels
    <2>. QED BY <1>1, <2>1, <2>2
<1>5. /\ redraw \subseteq redraw' /\ redraw' \subseteq {"textures", "light", "full"}
      /\ phase' \in {"wires", "draw"} /\ sweeps' \in 0..MaxSweeps
      /\ \A c \in DOMAIN level' : level'[c] \in 0..15
      /\ phase' = "wires" => DOMAIN level' = Wires(chunk)
    <2>1. sweeps \in 0..MaxSweeps /\ MaxSweeps \in Nat /\ redraw \subseteq {"textures", "light", "full"}
        BY MapIs DEF TypeOK
    <2>2. CASE Goes
        <3>1. sweeps + 1 \in 0..MaxSweeps
            BY <2>1, <2>2
        <3>. QED BY <2>1, <2>2, <3>1, <1>0, <1>3 DEF Charged
    <2>3. CASE Stops
        <3>1. 0 \in 0..MaxSweeps /\ DOMAIN level' = {}
            BY <2>1, <2>3
        <3>. QED BY <2>1, <2>3, <3>1
    <2>. QED BY <1>1, <2>2, <2>3
<1>6. DoorWhole' /\ CropsStand'
    BY <1>0, <1>4, MapIs, WorldKept
<1>7. NoneNew'
    BY <1>0, MapIs DEF NoneNew
<1>8. Marks'
    <2>1. phase' # "rest"
        BY <1>5
    <2>. QED BY <2>1, <1>0, <1>5, MapIs DEF Marks
<1>9. Showing'
    <2>1. phase' # "rest" /\ redraw \subseteq redraw' /\ chunk' = chunk
        BY <1>0, <1>5
    <2>2. ASSUME NEW c \in Pos, WillShow(c) PROVE WillShow(c)'
        BY <2>1, <2>2, <1>0 DEF WillShow
    <2>. QED BY <2>2, <1>0, MapIs DEF Showing
<1>10. SweepLevels'
    <2>1. Wires(chunk)' = Wires(chunk)
        BY <1>0 DEF Wires
    <2>. QED BY <2>1, <1>5 DEF SweepLevels
<1>11. Rounds' /\ RoundTyped'
    BY <1>0, MapIs, RoundsSame
<1>12. TypeOK'
    <2>1. /\ blocks' \in [Pos -> Kinds] /\ drawn' \in [Pos -> Kinds] /\ chunk' \in Chunk
          /\ at' \notin Pos /\ uses' \in 0..layout'.uses /\ foreign' \subseteq Pos
          /\ \A c \in DOMAIN redstoneData' : redstoneData'[c] \in Bytes
          /\ updateRedstoneData' \subseteq DOMAIN redstoneData'
        BY <1>0, MapIs DEF TypeOK
    <2>2. /\ \A c \in DOMAIN redstoneBlockData' : redstoneBlockData'[c] \in Kinds
          /\ \A c \in DOMAIN waterMovementChunk' : waterMovementChunk'[c] \in Fluid
        BY <1>0, MapIs DEF TypeOK
    <2>3. chunkXMapRedstone' \in 0..(totalChunkWidth + layout'.distance) /\ cycle' \in 0..5
        BY <1>0, <1>11, MapIs DEF RoundTyped, TypeOK, round
    <2>4. phase' # "scan" /\ phase' \in {"rest", "scan", "store", "wires", "draw"}
        BY <1>5
    <2>. QED BY <1>4, <1>5, <2>1, <2>2, <2>3, <2>4 DEF TypeOK
<1>. QED
    BY <1>0, <1>4, <1>6, <1>7, <1>8, <1>9, <1>10, <1>11, <1>12, MapIs DEF MapInv

\* The fluids flow, and the mesh is updated.
LEMMA RedrawKeeps ==
    ASSUME MapInv, Redraw
    PROVE  MapInv'
<1>. DEFINE mine == {c \in Pos : ChunkOf(c) = chunk}
            redrawn == {c \in mine : \/ "full" \in redraw
                                     \/ redraw # {} /\ Shape(drawn[c]) = Shape(blocks'[c])}
<1>0. /\ phase = "draw" /\ blocks' = Applied(waterMovementChunk, blocks)
      /\ drawn' = [c \in Pos |-> IF c \in redrawn THEN blocks'[c] ELSE drawn[c]]
      /\ foreign' = foreign \ redrawn
      /\ waterMovementChunk' = <<>> /\ redstoneBlockData' = <<>>
      /\ redstoneData' = <<>> /\ updateRedstoneData' = {} /\ redraw' = {}
      /\ phase' = "rest" /\ blockData' = blockData /\ at' = at /\ chunk' = chunk
      /\ level' = level /\ sweeps' = sweeps /\ round' = round
      /\ layout' = layout /\ updated' = updated /\ uses' = uses /\ broken' = broken
    BY DEF Redraw
<1>1. \A c \in Pos : blocks'[c] = IF c \in DOMAIN waterMovementChunk THEN waterMovementChunk[c] ELSE blocks[c]
    BY <1>0 DEF Applied
<1>2. ASSUME NEW c \in DOMAIN waterMovementChunk
      PROVE  /\ c \in Pos /\ ChunkOf(c) = chunk /\ "full" \in redraw
             /\ blocks[c] \notin Lasting /\ waterMovementChunk[c] \in Fluid
    BY MapIs DEF Marks, TypeOK
<1>3. \A c \in Pos : blocks'[c] = blocks[c] \/ (blocks[c] \notin Lasting /\ blocks'[c] \notin Lasting)
    BY <1>1, <1>2, KindsIs
<1>4. blocks' \in [Pos -> Kinds]
    <2>1. \A c \in Pos : blocks'[c] \in Kinds
        BY <1>1, <1>2, MapIs, KindsIs
    <2>2. blocks' = [c \in Pos |-> blocks'[c]]
        BY <1>0 DEF Applied
    <2>. QED BY <2>1, <2>2
<1>5. /\ DoorWhole' /\ CropsStand'
      /\ \A c \in Pos : blocks'[c] \in Fixed \cup {"tnt", "sapling"} => layout.blocks[c] = blocks'[c]
      /\ \A c \in Pos : blocks'[c] \in Farmland => layout.blocks[c] \in Farmland
    <2>1. blockData' \in [Pos -> Bytes] /\ broken \subseteq broken'
        BY <1>0, MapIs
    <2>. QED BY <2>1, <1>0, <1>3, <1>4, WorldKept
<1>6. DOMAIN waterMovementChunk' = {} /\ DOMAIN redstoneBlockData' = {}
    BY <1>0
<1>7. NoneNew'
    <2>1. ASSUME \A d \in Pos : layout.blocks[d] \notin Fluid PROVE \A c \in Pos : blocks'[c] \notin Fluid
        BY <2>1, <1>1, MapIs DEF NoneNew
    <2>. QED BY <2>1, <1>0, <1>5, <1>6 DEF NoneNew
<1>8. WireLevels'
    <2>1. "wire" \in Lasting
        BY DEF Lasting, Fixed
    <2>. QED BY <2>1, <1>0, <1>3, MapIs DEF WireLevels
<1>9. Marks'
    BY <1>0, <1>6 DEF Marks
<1>10. Showing'
    <2>1. SUFFICES ASSUME NEW c \in Pos, c \notin redrawn PROVE drawn[c] = blocks'[c] \/ c \in foreign'
        BY <1>0 DEF Showing
    <2>2. c \notin DOMAIN waterMovementChunk
        BY <2>1, <1>2
    <2>3. blocks'[c] = blocks[c]
        BY <2>2, <1>1
    <2>4. ~WillShow(c)
        BY <2>1, <2>3 DEF WillShow
    <2>5. drawn[c] = blocks[c] \/ c \in foreign
        BY <2>4, MapIs DEF Showing
    <2>. QED BY <2>1, <2>3, <2>5, <1>0
<1>11. SweepLevels'
    BY <1>0 DEF SweepLevels
<1>12. Rounds' /\ RoundTyped'
    BY <1>0, MapIs, RoundsSame
<1>13. TypeOK'
    <2>1. /\ chunk' \in Chunk /\ at' \notin Pos /\ uses' \in 0..layout'.uses /\ foreign' \subseteq Pos
          /\ \A c \in DOMAIN redstoneData' : redstoneData'[c] \in Bytes
          /\ updateRedstoneData' \subseteq DOMAIN redstoneData'
          /\ redraw' \subseteq {"textures", "light", "full"} /\ blockData' \in [Pos -> Bytes]
          /\ \A c \in DOMAIN level' : level'[c] \in 0..15
          /\ sweeps' \in 0..MaxSweeps
        BY <1>0, MapIs DEF TypeOK
    <2>2. drawn' \in [Pos -> Kinds]
        BY <1>0, <1>4, MapIs
    <2>3. chunkXMapRedstone' \in 0..(totalChunkWidth + layout'.distance) /\ cycle' \in 0..5
        BY <1>0, <1>12, MapIs DEF RoundTyped, TypeOK, round
    <2>. QED BY <1>0, <1>4, <1>6, <2>1, <2>2, <2>3 DEF TypeOK
<1>. QED
    BY <1>0, <1>5, <1>7, <1>8, <1>9, <1>10, <1>11, <1>12, <1>13, MapIs DEF MapInv

(* What every step of the player has in common.                            *)
LEMMA PlayerKeeps ==
    ASSUME MapInv, Use, Quiet, layout' = layout, broken \subseteq broken',
           blocks' \in [Pos -> Kinds], blockData' \in [Pos -> Bytes],
           NEW ch, DrawnAnew(ch), \A c \in Pos : ChunkOf(c) # ch => blocks'[c] = blocks[c],
           \A c \in Pos : \/ blocks'[c] = blocks[c]
                          \/ blocks'[c] \notin Lasting /\ blocks'[c] \notin Fluid,
           \A c \in Pos : blocks'[c] \in Fixed => blockData'[c].v = blockData[c].v,
           DoorWhole', CropsStand'
    PROVE  MapInv'
<1>0. /\ phase = "rest" /\ phase' = phase /\ uses > 0 /\ uses' = uses - 1
      /\ at' = at /\ chunk' = chunk /\ redraw' = redraw /\ level' = level /\ sweeps' = sweeps
      /\ redstoneData' = redstoneData /\ updateRedstoneData' = updateRedstoneData
      /\ redstoneBlockData' = redstoneBlockData /\ waterMovementChunk' = waterMovementChunk
      /\ round' = round /\ updated' = updated
      /\ drawn' = [c \in Pos |-> IF ChunkOf(c) = ch THEN blocks'[c] ELSE drawn[c]]
      /\ foreign' = {c \in foreign : ChunkOf(c) # ch}
    BY DEF Use, Quiet, pending, DrawnAnew
<1>1. Fixed \cup {"tnt", "sapling"} \subseteq Lasting /\ Farmland \subseteq Lasting /\ "wire" \in Fixed
    BY DEF Lasting, Fixed
<1>2. NoneNew'
    <2>1. \A c \in Pos : blocks'[c] \in Fixed \cup {"tnt", "sapling"} => layout.blocks[c] = blocks'[c]
        BY <1>1, MapIs DEF NoneNew
    <2>2. \A c \in Pos : blocks'[c] \in Farmland => layout.blocks[c] \in Farmland
        BY <1>1, MapIs DEF NoneNew
    <2>3. ASSUME \A d \in Pos : layout.blocks[d] \notin Fluid
          PROVE  DOMAIN waterMovementChunk' = {} /\ \A c \in Pos : blocks'[c] \notin Fluid
        BY <2>3, <1>0, MapIs DEF NoneNew
    <2>. QED BY <2>1, <2>2, <2>3 DEF NoneNew
<1>3. WireLevels'
    BY <1>1, MapIs DEF WireLevels
<1>4. Marks'
    <2>1. DOMAIN redstoneBlockData' = {}
        BY <1>0, MapIs DEF Marks
    <2>2. \A c \in updateRedstoneData' \cap Pos : blocks'[c] \notin Fixed
        BY <1>0, <1>1, MapIs DEF Marks
    <2>3. ASSUME NEW c \in DOMAIN waterMovementChunk'
          PROVE  c \in Pos /\ ChunkOf(c) = chunk /\ blocks'[c] \notin Lasting /\ "full" \in redraw'
        <3>1. c \in Pos /\ ChunkOf(c) = chunk /\ blocks[c] \notin Lasting /\ "full" \in redraw
            BY <1>0, MapIs DEF Marks
        <3>. QED BY <3>1, <1>0
    <2>. QED BY <2>1, <2>2, <2>3, <1>0 DEF Marks
<1>5. Showing'
    <2>1. SUFFICES ASSUME NEW c \in Pos, c \notin foreign' PROVE drawn'[c] = blocks'[c]
        BY DEF Showing
    <2>2. CASE ChunkOf(c) = ch
        BY <2>2, <1>0
    <2>3. CASE ChunkOf(c) # ch
        <3>1. c \notin foreign /\ drawn'[c] = drawn[c] /\ blocks'[c] = blocks[c]
            BY <2>1, <2>3, <1>0
        <3>2. drawn[c] = blocks[c]
            BY <3>1, <1>0, MapIs DEF Showing, WillShow
        <3>. QED BY <3>1, <3>2
    <2>. QED BY <2>2, <2>3
<1>6. SweepLevels'
    BY <1>0 DEF SweepLevels
<1>7. Rounds' /\ RoundTyped'
    BY <1>0, MapIs, RoundsSame
<1>8. TypeOK'
    <2>1. /\ chunk' \in Chunk /\ at' \notin Pos /\ foreign' \subseteq Pos
          /\ \A c \in DOMAIN redstoneData' : redstoneData'[c] \in Bytes
          /\ updateRedstoneData' \subseteq DOMAIN redstoneData'
          /\ redraw' \subseteq {"textures", "light", "full"}
          /\ \A c \in DOMAIN level' : level'[c] \in 0..15
          /\ sweeps' \in 0..MaxSweeps
          /\ \A c \in DOMAIN redstoneBlockData' : redstoneBlockData'[c] \in Kinds
          /\ \A c \in DOMAIN waterMovementChunk' : waterMovementChunk'[c] \in Fluid
        BY <1>0, MapIs DEF TypeOK
    <2>2. drawn' \in [Pos -> Kinds]
        BY <1>0, MapIs
    <2>3. chunkXMapRedstone' \in 0..(totalChunkWidth + layout'.distance) /\ cycle' \in 0..5
        BY <1>0, <1>7, MapIs DEF RoundTyped, TypeOK, round
    <2>4. uses' \in 0..layout'.uses
        <3>1. uses \in 0..layout.uses /\ layout.uses \in Nat
            BY MapIs DEF TypeOK, SoundLayout
        <3>. QED BY <3>1, <1>0
    <2>. QED BY <1>0, <2>1, <2>2, <2>3, <2>4 DEF TypeOK
<1>. QED
    BY <1>2, <1>3, <1>4, <1>5, <1>6, <1>7, <1>8, MapIs DEF MapInv

\* The player uses a lever or button, ...
LEMMA UseKeeps ==
    ASSUME MapInv, NEW c \in Pos, UseBlock(c)
    PROVE  MapInv'
<1>0. /\ Use /\ Quiet /\ (UseLever(c) \/ UseButton(c))
      /\ blocks' = blocks /\ DrawnAnew(ChunkOf(c)) /\ broken' = broken /\ layout' = layout
    BY DEF UseBlock, Quiet
<1>1. blockData \in [Pos -> Bytes] /\ blockData[c] \in Bytes /\ blockData[c].v \in 0..63
    BY MapIs DEF Bytes
<1>2. ASSUME NEW w \in 0..63, blockData' = [blockData EXCEPT ![c].v = w]
      PROVE  blockData' \in [Pos -> Bytes] /\ \A d \in Pos : d # c => blockData'[d] = blockData[d]
    <2>1. [blockData[c] EXCEPT !.v = w] \in Bytes
        BY <1>1 DEF Bytes
    <2>2. blockData' = [blockData EXCEPT ![c] = [blockData[c] EXCEPT !.v = w]]
        BY <1>2
    <2>. QED BY <2>1, <2>2, <1>1
<1>3. blocks[c] \notin Fixed /\ \E w \in 0..63 : blockData' = [blockData EXCEPT ![c].v = w]
    <2>. DEFINE v == blockData[c].v
    <2>1. CASE UseLever(c)
        <3>. DEFINE w == IF v % 2 = 0 THEN v + 1 ELSE v - 1
        <3>1. w \in 0..63
            <4>. HIDE DEF v
            <4>1. v \in 0..63
                BY <1>1 DEF v
            <4>. QED BY <4>1
        <3>2. blockData' = [blockData EXCEPT ![c].v = w]
            BY <2>1 DEF UseLever
        <3>3. blocks[c] \notin Fixed
            BY <2>1, MapIs DEF UseLever, Fixed
        <3>. HIDE DEF w
        <3>. QED BY <3>1, <3>2, <3>3
    <2>2. CASE UseButton(c)
        <3>1. PICK t \in {2, 3} : blockData' = [blockData EXCEPT ![c].v = ((@ \div 2) % 8) * 2 + 16 * t + 1]
            BY <2>2 DEF UseButton
        <3>. DEFINE w == ((v \div 2) % 8) * 2 + 16 * t + 1
        <3>2. w \in 0..63
            <4>. HIDE DEF v
            <4>1. v \in 0..63
                BY <1>1 DEF v
            <4>. QED BY <4>1
        <3>3. blockData' = [blockData EXCEPT ![c].v = w]
            BY <3>1
        <3>4. blocks[c] \notin Fixed
            BY <2>2, MapIs DEF UseButton, Fixed
        <3>. HIDE DEF w
        <3>. QED BY <3>2, <3>3, <3>4
    <2>. QED BY <1>0, <2>1, <2>2
<1>4. blockData' \in [Pos -> Bytes] /\ \A d \in Pos : blocks[d] \in Fixed => blockData'[d].v = blockData[d].v
    BY <1>2, <1>3
<1>5. DoorWhole' /\ CropsStand'
    <2>1. {"doorBottom", "doorTop"} \subseteq Fixed
        BY DEF Fixed
    <2>. QED BY <2>1, <1>0, <1>4, MapIs, WorldKept
<1>. QED
    BY <1>0, <1>4, <1>5, MapIs, PlayerKeeps

\* ... or puts a block into air or a fluid.
LEMMA PlaceKeeps ==
    ASSUME MapInv, NEW c \in Pos, placeBlock(c)
    PROVE  MapInv'
<1>0. /\ Use /\ Quiet /\ DrawnAnew(ChunkOf(c)) /\ broken' = broken /\ layout' = layout
      /\ blocks[c] \in {"air"} \cup Fluid
      /\ blocks' = Set(blocks, c, "stone") /\ blockData' = blockData
    BY MapIs DEF placeBlock, Quiet
<1>1. "stone" \in Kinds /\ "stone" \notin Lasting /\ "stone" \notin Fluid /\ blocks[c] \notin Lasting
    BY <1>0, KindsIs DEF Kinds, Full, Lasting, Fixed, Crop, Farmland, Fluid
<1>2. /\ blocks' \in [Pos -> Kinds] /\ blocks'[c] = "stone"
      /\ \A d \in Pos : d # c => blocks'[d] = blocks[d]
    BY <1>0, <1>1, MapIs DEF Set
<1>3. DoorWhole' /\ CropsStand'
    BY <1>0, <1>1, <1>2, MapIs, WorldKept
<1>. QED
    BY <1>0, <1>1, <1>2, <1>3, MapIs, PlayerKeeps

\* Breaking a block changes no level, ...
LEMMA QuenchedIs ==
    ASSUME MapInv, NEW c
    PROVE  /\ Quenched(c) \in [Pos -> Bytes]
           /\ \A d \in Pos : Quenched(c)[d].v = blockData[d].v
<1>. DEFINE k == K(c)
            ended == CASE k = "torchOn" -> {Plus(c, Up)}
                       [] k = "repeaterOn" -> {Minus(c, repeaterSide(D(c)))}
                       [] k \in {"lever", "button"} -> {Plus(c, leverSide(D(c)))}
                       [] OTHER -> {}
            ends(d) == d \in ended /\ (k = "torchOn" \/ canTransferRedstoneSignal(K(d)))
            freed(d) == k = "wire" /\ d = Plus(c, Down) /\ K(d) = "grass"
            free(d) == [D(d) EXCEPT !.weak = FALSE]
            q == Quenched(c)
<1>1. q = [d \in Pos |-> IF ends(d) THEN Weak(D(d)) ELSE IF freed(d) THEN free(d) ELSE D(d)]
    BY DEF Quenched
<1>2. ASSUME NEW d \in Pos
      PROVE  /\ Weak(D(d)) \in Bytes /\ Weak(D(d)).v = blockData[d].v
             /\ free(d) \in Bytes /\ free(d).v = blockData[d].v
             /\ D(d) \in Bytes /\ D(d).v = blockData[d].v
    <2>1. D(d) = blockData[d] /\ D(d) \in Bytes
        BY MapIs
    <2>2. [D(d) EXCEPT !.weak = FALSE] \in Bytes /\ [D(d) EXCEPT !.weak = FALSE].v = D(d).v
        BY <2>1 DEF Bytes
    <2>. QED BY <2>1, <2>2, BytesAre
<1>. HIDE DEF q, ends, freed, free
<1>3. q \in [Pos -> Bytes] /\ \A d \in Pos : q[d].v = blockData[d].v
    BY <1>1, <1>2
<1>. QED
    BY <1>3 DEF q

\* ... and takes nothing but the block, and the other half of a door.
LEMMA HalvesIs ==
    ASSUME MapInv, NEW c \in Pos, NEW d \in Pos, d \in Halves(c)
    PROVE  /\ ChunkOf(d) = ChunkOf(c)
           /\ d = c \/ layout.blocks[d] \in {"doorBottom", "doorTop"}
           /\ layout.blocks[d] = "doorTop" /\ d # c => d = Plus(c, Up) /\ blocks[c] = "doorBottom"
<1>0. K(c) = blocks[c] /\ NoneNew /\ SoundLayout(layout)
    BY MapIs
<1>1. CASE d = c
    BY <1>1
<1>2. CASE d # c /\ blocks[c] = "doorBottom"
    <2>1. d = Plus(c, Up)
        BY <1>0, <1>2 DEF Halves
    <2>2. layout.blocks[c] = "doorBottom"
        BY <1>0, <1>2 DEF NoneNew, Fixed
    <2>3. layout.blocks[d] = "doorTop"
        BY <2>1, <2>2, <1>0 DEF SoundLayout
    <2>. QED BY <2>1, <2>3, <1>2, AboveIs
<1>3. CASE d # c /\ blocks[c] = "doorTop"
    <2>1. d = Plus(c, Down)
        BY <1>0, <1>3 DEF Halves
    <2>2. layout.blocks[c] = "doorTop"
        BY <1>0, <1>3 DEF NoneNew, Fixed
    <2>3. layout.blocks[d] = "doorBottom"
        BY <2>1, <2>2, <1>0 DEF SoundLayout
    <2>. QED BY <2>1, <2>3, AboveIs
<1>. QED
    BY <1>0, <1>1, <1>2, <1>3 DEF Halves

\* The player breaks a block.
LEMMA DestroyKeeps ==
    ASSUME MapInv, NEW c \in Pos, destroyBlock(c)
    PROVE  MapInv'
<1>. DEFINE gone == Halves(c)
<1>0. /\ Use /\ Quiet /\ DrawnAnew(ChunkOf(c)) /\ broken' = broken \cup {c} /\ layout' = layout
      /\ blockData' = [d \in Pos |-> IF d \in gone THEN Zero ELSE Quenched(c)[d]]
      /\ blocks' = [d \in Pos |-> IF d \in gone THEN "air" ELSE blocks[d]]
    BY DEF destroyBlock, Quiet
<1>1. \A d \in Pos : d \in gone => ChunkOf(d) = ChunkOf(c)
    BY HalvesIs
<1>11. c \in gone
    BY DEF Halves
<1>. HIDE DEF gone
<1>2. "air" \in Kinds /\ "air" \notin Lasting /\ "air" \notin Fluid
    BY DEF Kinds, Lasting, Fixed, Crop, Farmland, Fluid
<1>3. /\ blocks' \in [Pos -> Kinds]
      /\ \A d \in Pos : blocks'[d] = IF d \in gone THEN "air" ELSE blocks[d]
    BY <1>0, <1>2, MapIs
<1>4. /\ blockData' \in [Pos -> Bytes]
      /\ \A d \in Pos : d \notin gone => blockData'[d].v = blockData[d].v
    BY <1>0, QuenchedIs, BytesAre
<1>5. DoorWhole'
    <2>1. SUFFICES ASSUME NEW e \in Pos, blocks'[e] = "doorBottom", DoorSafe(e)
          PROVE  /\ Plus(e, Up) \in Pos /\ blocks'[Plus(e, Up)] = "doorTop"
                 /\ blockData'[Plus(e, Up)].v = blockData'[e].v
                 /\ shutRotation(blockData'[e]) = shutRotation(layout.data[e])
        BY <1>0 DEF DoorWhole, DoorSafe, Mined, K, D
    <2>. DEFINE u == Plus(e, Up)
    <2>2. e \notin gone /\ blocks[e] = "doorBottom"
        BY <2>1, <1>3
    <2>3. u \in Pos /\ blocks[u] = "doorTop" /\ blockData[u].v = blockData[e].v
          /\ shutRotation(blockData[e]) = shutRotation(layout.data[e])
        BY <2>1, <2>2, MapIs DEF DoorWhole, K, D
    <2>. HIDE DEF u
    <2>4. u \notin gone
        <3>1. SUFFICES ASSUME u \in gone PROVE FALSE
            OBVIOUS
        <3>2. layout.blocks[u] = "doorTop"
            BY <2>3, MapIs DEF NoneNew, Fixed
        <3>3. u # c
            <4>1. SUFFICES ASSUME u = c PROVE FALSE
                OBVIOUS
            <4>2. Plus(c, Down) = e
                <5>1. /\ u = <<e[1], e[2] + 1, e[3]>> /\ e = <<e[1], e[2], e[3]>>
                      /\ e[2] \in Int
                    BY AboveIs, PosIs DEF u
                <5>2. Plus(u, Down) = <<u[1], u[2] - 1, u[3]>>
                    BY <2>3, AboveIs
                <5>3. u[1] = e[1] /\ u[2] - 1 = e[2] /\ u[3] = e[3]
                    BY <5>1
                <5>. QED BY <5>1, <5>2, <5>3, <4>1
            <4>3. Plus(c, Down) \in gone
                BY <4>1, <2>3, MapIs DEF Halves, gone
            <4>. QED BY <4>2, <4>3, <2>2
        <3>4. u = Plus(c, Up)
            BY <3>1, <3>2, <3>3, <2>3, HalvesIs DEF gone
        <3>5. e = c
            <4>1. /\ u = <<e[1], e[2] + 1, e[3]>> /\ u = <<c[1], c[2] + 1, c[3]>>
                  /\ e = <<e[1], e[2], e[3]>> /\ c = <<c[1], c[2], c[3]>>
                  /\ e[2] \in Int /\ c[2] \in Int
                BY <3>4, AboveIs, PosIs DEF u
            <4>2. <<e[1], e[2] + 1, e[3]>> = <<c[1], c[2] + 1, c[3]>>
                BY <4>1
            <4>3. e[1] = c[1] /\ e[2] + 1 = c[2] + 1 /\ e[3] = c[3]
                BY <4>2
            <4>. QED BY <4>1, <4>3
        <3>. QED BY <3>5, <2>2, <1>11
    <2>5. blockData'[e].v = blockData[e].v /\ blockData'[u].v = blockData[u].v /\ blocks'[u] = "doorTop"
        BY <2>2, <2>3, <2>4, <1>3, <1>4
    <2>6. shutRotation(blockData'[e]) = shutRotation(blockData[e])
        BY <2>5 DEF shutRotation, Open, rotation
    <2>. QED BY <2>3, <2>5, <2>6 DEF u
<1>6. CropsStand'
    <2>1. SUFFICES ASSUME NEW d \in Pos, blocks'[d] \in Crop, d[2] > 0, CropSafe(d),
                          Plus(d, Down) \notin broken'
                   PROVE  blocks'[Plus(d, Down)] \in Farmland
        BY <1>0 DEF CropsStand, CropSafe, Mined
    <2>. DEFINE s == Plus(d, Down)
    <2>2. blocks[d] \in Crop
        BY <2>1, <1>2, <1>3, KindsIs
    <2>3. s \in Pos /\ blocks[s] \in Farmland /\ s # c
        BY <2>1, <2>2, <1>0, MapIs, AboveIs DEF CropsStand
    <2>4. layout.blocks[s] \in Farmland
        BY <2>3, MapIs DEF NoneNew
    <2>5. s \notin gone
        <3>1. layout.blocks[s] \notin {"doorBottom", "doorTop"}
            BY <2>4 DEF Farmland
        <3>. HIDE DEF s
        <3>. QED BY <3>1, <2>3, HalvesIs DEF gone
    <2>. QED BY <2>3, <2>5, <1>3
<1>7. \A d \in Pos : ChunkOf(d) # ChunkOf(c) => blocks'[d] = blocks[d]
    BY <1>1, <1>3
<1>8. \A d \in Pos : \/ blocks'[d] = blocks[d]
                     \/ blocks'[d] \notin Lasting /\ blocks'[d] \notin Fluid
    BY <1>2, <1>3
<1>9. \A d \in Pos : blocks'[d] \in Fixed => blockData'[d].v = blockData[d].v
    BY <1>2, <1>3, <1>4 DEF Lasting
<1>10. broken \subseteq broken'
    BY <1>0
<1>. QED
    BY <1>0, <1>3, <1>4, <1>5, <1>6, <1>7, <1>8, <1>9, <1>10, PlayerKeeps

\* Every world starts in the invariant, ...
LEMMA MapInit ==
    ASSUME Init
    PROVE  MapInv
<1>0. /\ layout \in Layouts
      /\ blocks = layout.blocks /\ blockData = layout.data /\ drawn = layout.blocks
      /\ updated = {c \in Chunk : InRange(c[1], c[2])}
      /\ chunk = <<0, 0>> /\ at = <<-1, -1, -1>> /\ phase = "rest"
      /\ redstoneData = <<>> /\ updateRedstoneData = {}
      /\ redstoneBlockData = <<>> /\ waterMovementChunk = <<>>
      /\ redraw = {} /\ drops = {} /\ foreign = {} /\ broken = {}
      /\ chunkXMapRedstone = 0 /\ chunkZMapRedstone = 0
      /\ currentRedstoneChunk = 0 /\ cycle = 0 /\ visited = <<>>
      /\ level = <<>> /\ sweeps = 0 /\ uses = layout.uses
    BY DEF Init
<1>1. /\ layout.blocks \in [Pos -> Kinds] /\ layout.data \in [Pos -> Bytes]
      /\ layout.distance \in Nat /\ layout.uses \in Nat
      /\ \A c \in Pos : layout.blocks[c] = "wire" => layout.data[c].v <= 15
      /\ \A c \in Pos : layout.blocks[c] = "doorBottom" =>
            /\ Plus(c, Up) \in Pos /\ layout.blocks[Plus(c, Up)] = "doorTop"
            /\ layout.data[Plus(c, Up)].v = layout.data[c].v
      /\ \A c \in Pos : layout.blocks[c] \in Crop /\ c[2] > 0 => layout.blocks[Plus(c, Down)] \in Farmland
    <2>1. SoundLayout(layout)
        BY <1>0, WorldsAssumption
    <2>. QED BY <2>1 DEF SoundLayout
<1>2. totalChunkWidth \in Nat \ {0} /\ MaxSweeps \in Nat
    BY WidthIs, WorldsAssumption
<1>3. /\ DOMAIN redstoneData = {} /\ DOMAIN redstoneBlockData = {} /\ DOMAIN waterMovementChunk = {}
      /\ DOMAIN level = {}
    BY <1>0
<1>4. at \notin Pos
    BY <1>0, PosIs
<1>5. chunk \in Chunk
    BY <1>0, <1>2 DEF Chunk
<1>6. TypeOK
    <2>1. chunkXMapRedstone \in 0..(totalChunkWidth + layout.distance)
        BY <1>0, <1>1, <1>2
    <2>2. sweeps \in 0..MaxSweeps /\ uses \in 0..layout.uses /\ cycle \in 0..5
        BY <1>0, <1>1, <1>2
    <2>. QED BY <1>0, <1>1, <1>3, <1>4, <1>5, <2>1, <2>2 DEF TypeOK
<1>7. NoneNew /\ Marks
    BY <1>0, <1>3 DEF NoneNew, Marks
<1>8. Showing
    BY <1>0 DEF Showing
<1>9. WireLevels
    BY <1>0, <1>1 DEF WireLevels
<1>10. SweepLevels
    BY <1>0 DEF SweepLevels
<1>11. CropsStand
    BY <1>0, <1>1 DEF CropsStand
<1>12. DoorWhole
    <2>1. SUFFICES ASSUME NEW c \in Pos, blocks[c] = "doorBottom"
          PROVE  /\ Plus(c, Up) \in Pos /\ blocks[Plus(c, Up)] = "doorTop"
                 /\ blockData[Plus(c, Up)].v = blockData[c].v
                 /\ shutRotation(blockData[c]) = shutRotation(layout.data[c])
        BY DEF DoorWhole, K, D
    <2>. QED BY <2>1, <1>0, <1>1
<1>13. Rounds /\ RoundTyped
    <2>1. visited \in Seq(Nat \X Nat)
        BY <1>0
    <2>2. chunkZMapRedstone \in 0..(totalChunkWidth - 1) /\ chunkXMapRedstone \in 0..(totalChunkWidth + layout.distance)
        BY <1>0, <1>1, <1>2
    <2>. QED BY <1>0, <2>1, <2>2 DEF Rounds, RoundTyped
<1>. QED
    BY <1>0, <1>6, <1>7, <1>8, <1>9, <1>10, <1>11, <1>12, <1>13 DEF MapInv

\* ... a step of nothing here keeps it, ...
LEMMA MapStutters ==
    ASSUME MapInv, UNCHANGED vars
    PROVE  MapInv'
<1>1. /\ blocks' = blocks /\ blockData' = blockData /\ chunk' = chunk /\ at' = at
      /\ redstoneData' = redstoneData /\ updateRedstoneData' = updateRedstoneData
      /\ redstoneBlockData' = redstoneBlockData /\ waterMovementChunk' = waterMovementChunk
      /\ redraw' = redraw /\ foreign' = foreign /\ updated' = updated /\ layout' = layout
      /\ phase' = phase /\ level' = level /\ sweeps' = sweeps /\ drawn' = drawn /\ uses' = uses
      /\ broken' = broken /\ round' = round
    BY DEF vars, round
<1>2. TypeOK'
    <2>1. cycle' = cycle /\ chunkXMapRedstone' = chunkXMapRedstone
        BY <1>1 DEF round
    <2>. QED BY <1>1, <2>1, MapIs DEF TypeOK, K
<1>3. NoneNew' /\ Marks' /\ WireLevels' /\ Showing'
    BY <1>1, MapIs DEF NoneNew, Marks, WireLevels, Showing, WillShow
<1>4. SweepLevels'
    BY <1>1, MapIs DEF SweepLevels, Wires
<1>5. DoorWhole' /\ CropsStand'
    BY <1>1, MapIs, WorldKept
<1>6. Rounds' /\ RoundTyped'
    BY <1>1, MapIs, RoundsSame
<1>. QED
    BY <1>1, <1>2, <1>3, <1>4, <1>5, <1>6, MapIs DEF MapInv

\* ... and so does every step.
LEMMA MapStep ==
    ASSUME MapInv, [Next]_vars
    PROVE  MapInv'
<1>1. CASE Update
    BY <1>1, StartKeeps, ScanKeeps, StoreKeeps, WiresKeeps, RedrawKeeps DEF Update
<1>2. CASE Player
    BY <1>2, UseKeeps, DestroyKeeps, PlaceKeeps DEF Player
<1>3. CASE UNCHANGED vars
    BY <1>3, MapStutters
<1>. QED
    BY <1>1, <1>2, <1>3 DEF Next

(* The inductive invariant of the map holds in every state of every world. *)
THEOREM MapInvariant == Spec => []MapInv
<1>1. Init => MapInv
    BY MapInit
<1>2. MapInv /\ [Next]_vars => MapInv'
    BY MapStep
<1>. QED
    BY <1>1, <1>2, PTL DEF Spec

(* The rounds leave the map whole and drawn: a quarter second updates every
   chunk in range (20879-20900); both halves of a door agree however often it
   is opened and shut (21309-21402), and between the updates the meshes show
   the blocks, but for the cells named in foreign (22313-22344).            *)
THEOREM MapStaysSound == Spec => []MapSound
<1>1. MapInv => MapSound
    <2>1. SUFFICES ASSUME MapInv PROVE MapSound
        OBVIOUS
    <2>2. TypeOK /\ DoorWhole /\ RoundVisitsRange
        BY <2>1, MapIs, RoundVisits
    <2>3. ShownAtRest
        BY <2>1, MapIs DEF ShownAtRest, Showing, WillShow
    <2>. QED BY <2>2, <2>3 DEF MapSound
<1>. QED
    BY <1>1, MapInvariant, PTL

(* Wheat is lost only where the player broke the soil below it, to tnt or to
   a tree (21953-21978, 22035-22128).                                      *)
THEOREM NoCropIsLost == Spec => NoCropLost
<1>. DEFINE NoneLost == \A c \in Pos :
                phase = "scan" /\ K(c) \in Crop /\ CropSafe(c) /\ blocks'[c] \notin Crop =>
                    Plus(c, Down) \in broken
<1>1. MapInv /\ [Next]_vars => [NoneLost]_vars
    <2>1. SUFFICES ASSUME MapInv, Next, phase = "scan" PROVE NoneLost
        OBVIOUS
    <2>2. Scan
        BY <2>1 DEF Next, Update, Player, StartChunk, Store, UpdateWires, Redraw,
                    UseBlock, destroyBlock, placeBlock, Use
    <2>. QED BY <2>1, <2>2, ScanKeeps
<1>2. NoCropLost <=> [][NoneLost]_vars
    BY DEF NoCropLost
<1>. QED
    BY <1>1, <1>2, MapInvariant, PTL DEF Spec
=============================================================================
