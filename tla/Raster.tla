------------------------------- MODULE Raster -------------------------------
(***************************************************************************)
(* How a frame is drawn: the faces of the chunks, of the mobs, the faces   *)
(* put off (with holes, and water) and the cracks of the block that breaks *)
(* go through a buffer of depths, which is cleared behind the frame        *)
(* (renderObject, src/src/eninge.c 28853-29496), in whole pixels or in     *)
(* squares of two by two (pixelSize), textured or plain.                   *)
(*                                                                         *)
(* A face comes with its corners on the screen: the projection             *)
(* (28790-28850) only keeps corners before the camera whose coordinates    *)
(* stay below 4096, so that dx << 18 fits in an int.  Its depth is the     *)
(* mean of its corners' (28954).  Of a texture the model keeps which       *)
(* columns of the screen show one of its empty (black) texels.  Particles, *)
(* the veil under water and the wireframe of renderingMode 1 and 2 write   *)
(* no depth and are left out.                                              *)
(***************************************************************************)
EXTENDS Integers, Sequences

CONSTANTS resX, resY,   \* width and height of the screen (code: 384, 216)
          Far,          \* a cleared depth (code: 65535)
          Scenes,       \* the frames: [chunks, entities, cracks |-> faces]
          Quads,        \* faces for which the cells are checked one by one
          Dirt          \* depths the bytes of a screenshot are read as

ASSUME RasterAssumption ==
    /\ resX \in Nat /\ resX > 2 /\ resX % 2 = 0
    /\ resY \in Nat /\ resY > 2 /\ resY % 2 = 0
    /\ Far \in Nat /\ Dirt \subseteq 0..Far

VARIABLES
    pixelSize, renderTextured, renderUnderwater, beautifulSky,
    ZBuffer,       \* the depths, by their place in memory
    shown,         \* what each place shows: [face, lit, water]
    phase, at,     \* the loop of renderObject and its next face
    scene,         \* the faces of this frame
    transQuads, waterQuads,
    shot, switched, began  \* ghosts: depths since the last clearing were
                           \* overwritten by a screenshot; are used in
                           \* another size; the frame began with such ones
vars == <<pixelSize, renderTextured, renderUnderwater, beautifulSky, ZBuffer,
          shown, phase, at, scene, transQuads, waterQuads, shot, switched, began>>
settings == <<pixelSize, renderTextured, renderUnderwater, beautifulSky>>

-----------------------------------------------------------------------------
(* Which cells a triangle covers.                                          *)

Low(a, b)  == IF a < b THEN a ELSE b
High(a, b) == IF a < b THEN b ELSE a
Clamped(n, most) == Low(High(n, 0), most)
Quotient(a, b) == IF a >= 0 THEN a \div b ELSE -((-a) \div b)

swapIf(t, i, j) == IF t[i][2] > t[j][2]
                   THEN [t EXCEPT ![i] = t[j], ![j] = t[i]] ELSE t
\* Mutant: the sort ends after two of its three exchanges.
SortedTwo(t) == swapIf(swapIf(t, 1, 2), 1, 3)
Sorted(t) == swapIf(swapIf(swapIf(t, 1, 2), 1, 3), 2, 3)

\* The slope of an edge from its upper corner p, and where it meets row y.
line(p, q) == IF q[2] = p[2] THEN 0
              ELSE Quotient((q[1] - p[1]) * 262144, (q[2] - p[2]) * 512)
EdgeAt(p, q, y) == ((line(p, q) * (y - p[2])) \div 512) + p[1]

\* The rows between two corners; a square of two rows is drawn by its even one.
end(v, px) == Clamped(v[2], resY)
              + (IF px = 2 /\ v[2] > 0 /\ v[2] % 2 = 1 THEN 1 ELSE 0)
Rows(p, q, px) == {y \in end(p, px)..(end(q, px) - 1) : (y - end(p, px)) % px = 0}

Place(x, y, px) == (y \div px) * (resX \div px) + x
Span(y, x0, x1, px) == {Place(x, y, px) : x \in Low(x0, x1)..(High(x0, x1) - 1)}
PlainX(x, px) == IF x < 0 THEN 0 ELSE IF x > resX THEN resX \div px ELSE x \div px

\* Plain triangles are cut at the sides of the screen ...
PlainCells(t, px) ==
    LET s == Sorted(t)
        Part(p, q) == UNION {Span(y, PlainX(EdgeAt(p, q, y), px),
                                     PlainX(EdgeAt(s[1], s[3], y), px), px)
                             : y \in Rows(p, q, px)}
    IN  Part(s[1], s[2]) \cup Part(s[2], s[3])

\* ... textured ones ask at every pixel, and leave out row and column 0.
TexturedRows(t, px) ==
    LET s == Sorted(t)
        Part(p, q) ==
            UNION {Span(y, 0, resX \div px, px) \cap
                   Span(y, High(EdgeAt(p, q, y) \div px, 1), High(EdgeAt(s[1], s[3], y) \div px, 1), px)
                   : y \in {y \in Rows(p, q, px) : y > 0 /\ y < resY}}
    IN  Part(s[1], s[2]) \cup Part(s[2], s[3])

\* A triangle without an area has no texture, and is left out.
cross(s) == (s[2][1] - s[1][1]) * (s[3][2] - s[1][2])
            - (s[2][2] - s[1][2]) * (s[3][1] - s[1][1])
TexturedCells(t, px) == IF cross(Sorted(t)) = 0 THEN {} ELSE TexturedRows(t, px)

\* One of the routines takes ten times the sides for shorts, which wrap when
\* corners lie more than 3276 pixels apart.
Short(n) == ((n + 32768) % 65536) - 32768
crossVec2S(s) ==
    LET v0 == <<Short(10 * (s[2][1] - s[1][1])), Short(10 * (s[2][2] - s[1][2]))>>
        v1 == <<Short(10 * (s[3][1] - s[1][1])), Short(10 * (s[3][2] - s[1][2]))>>
    IN  Quotient(v0[1] * v1[2] - v0[2] * v1[1], 10)
ShortCells(t, px) == IF crossVec2S(Sorted(t)) = 0 THEN {} ELSE TexturedRows(t, px)

-----------------------------------------------------------------------------
(* What is written there.  m holds the two memories.                       *)

Memory == 0..(resX * resY - 1)
column(i, px) == i % (resX \div px)
resZBuffer(px) == (resX \div px) * (resY \div px)

\* An opaque triangle: the nearer face stays.
Solid(cells, f, lit, m) ==
    LET seen == {i \in cells : f.z < m.depth[i]}
    IN  [depth |-> [i \in Memory |-> IF i \in seen THEN f.z ELSE m.depth[i]],
         shown |-> [i \in Memory |-> IF i \in seen
                                     THEN [face |-> f.id, lit |-> lit, water |-> <<>>]
                                     ELSE m.shown[i]]]
\* One with holes: an empty texel neither shows nor hides.
BlackTrans(cells, f, lit, px, m) ==
    Solid({i \in cells : column(i, px) \notin f.holes}, f, lit, m)
\* Mutant: water hides what lies behind it.
TransHides(cells, f, lit, m) ==
    LET seen == {i \in cells : f.z < m.depth[i]}
    IN  [depth |-> [i \in Memory |-> IF i \in seen THEN f.z ELSE m.depth[i]],
         shown |-> [i \in Memory |-> IF i \in seen
                       THEN [m.shown[i] EXCEPT !.water = Append(@, [face |-> f.id, lit |-> lit])]
                       ELSE m.shown[i]]]
\* Water: half of it over what is there, the depth stays.
Trans(cells, f, lit, m) ==
    [m EXCEPT !.shown = [i \in Memory |->
        IF i \in cells /\ f.z < m.depth[i]
        THEN [@[i] EXCEPT !.water = Append(@, [face |-> f.id, lit |-> lit])]
        ELSE @[i]]]

renderTriangle(t, f, lit, m)       == Solid(PlainCells(t, 1), f, lit, m)
renderTrianglePX2(t, f, lit, m)    == Solid(PlainCells(t, 2), f, lit, m)
renderTriangleNB(t, f, m)          == Solid(PlainCells(t, 1), f, 16, m)
renderTriangleNBPX2(t, f, m)       == Solid(PlainCells(t, 2), f, 16, m)
renderTriangleTexturedNBT(t, f, m) == Solid(TexturedCells(t, 1), f, 16, m)
renderTriangleTexturedT(t, f, lit, m)    == Solid(TexturedCells(t, 1), f, lit, m)
renderTriangleTexturedNBPX2T(t, f, m)    == Solid(ShortCells(t, 2), f, 16, m)
renderTriangleTexturedPX2T(t, f, lit, m) == Solid(TexturedCells(t, 2), f, lit, m)
renderTriangleTexturedBlackTransNBT(t, f, m) ==
    BlackTrans(TexturedCells(t, 1), f, 16, 1, m)
renderTriangleTexturedBlackTransT(t, f, lit, m) ==
    BlackTrans(TexturedCells(t, 1), f, lit, 1, m)
renderTriangleTexturedBlackTransNBPX2T(t, f, m) ==
    BlackTrans(TexturedCells(t, 2), f, 16, 2, m)
renderTriangleTexturedBlackTransPX2T(t, f, lit, m) ==
    BlackTrans(TexturedCells(t, 2), f, lit, 2, m)
renderTriangleTexturedNBTransT(t, f, m)    == Trans(TexturedCells(t, 1), f, 16, m)
renderTriangleTexturedTrans(t, f, lit, m)  == Trans(TexturedCells(t, 1), f, lit, m)
renderTriangleTexturedNBPX2TransT(t, f, m) == Trans(TexturedCells(t, 2), f, 16, m)
renderTriangleTexturedPX2TransT(t, f, lit, m) == Trans(TexturedCells(t, 2), f, lit, m)
renderTriangleTrans(t, f, lit, m)    == Trans(PlainCells(t, 1), f, lit, m)
renderTriangleNBTrans(t, f, m)       == Trans(PlainCells(t, 1), f, 16, m)
renderTrianglePX2Trans(t, f, lit, m) == Trans(PlainCells(t, 2), f, lit, m)
renderTriangleNBPX2Trans(t, f, m)    == Trans(PlainCells(t, 2), f, 16, m)

-----------------------------------------------------------------------------
(* A face is two triangles.                                                *)

First(f)  == <<f.v[1], f.v[2], f.v[3]>>
Second(f) == <<f.v[1], f.v[3], f.v[4]>>

\* Drawn at all: no corner cut off by the projection, one between the sides
\* of the screen and one (perhaps another) between its top and its bottom.
InView(f) == /\ ~f.clipped
             /\ \E i \in 1..4 : f.v[i][1] > 0 /\ f.v[i][1] < resX
             /\ \E i \in 1..4 : f.v[i][2] > 0 /\ f.v[i][2] < resY

Double == pixelSize = 2
\* A mob's light is taken from lightmap as it is.
brightness(f) == IF f.mob THEN f.light ELSE High(f.light, 1)
Bright(f) == brightness(f) = 16

OpaqueTriangle(t, f, textured, m) ==
    IF ~textured
    THEN CASE Double /\ ~Bright(f)  -> renderTrianglePX2(t, f, brightness(f), m)
           [] Double /\ Bright(f)   -> renderTriangleNBPX2(t, f, m)
           [] ~Double /\ ~Bright(f) -> renderTriangle(t, f, brightness(f), m)
           [] ~Double /\ Bright(f)  -> renderTriangleNB(t, f, m)
    ELSE CASE Double /\ ~Bright(f)  -> renderTriangleTexturedPX2T(t, f, brightness(f), m)
           [] Double /\ Bright(f)   -> renderTriangleTexturedNBPX2T(t, f, m)
           [] ~Double /\ ~Bright(f) -> renderTriangleTexturedT(t, f, brightness(f), m)
           [] ~Double /\ Bright(f)  -> renderTriangleTexturedNBT(t, f, m)

HoledTriangle(t, f, m) ==
    CASE Double /\ ~Bright(f)  -> renderTriangleTexturedBlackTransPX2T(t, f, brightness(f), m)
      [] Double /\ Bright(f)   -> renderTriangleTexturedBlackTransNBPX2T(t, f, m)
      [] ~Double /\ ~Bright(f) -> renderTriangleTexturedBlackTransT(t, f, brightness(f), m)
      [] ~Double /\ Bright(f)  -> renderTriangleTexturedBlackTransNBT(t, f, m)

WaterTriangle(t, f, m) ==
    IF ~renderTextured
    THEN CASE Double /\ ~Bright(f)  -> renderTrianglePX2Trans(t, f, brightness(f), m)
           [] Double /\ Bright(f)   -> renderTriangleNBPX2Trans(t, f, m)
           [] ~Double /\ ~Bright(f) -> renderTriangleTrans(t, f, brightness(f), m)
           [] ~Double /\ Bright(f)  -> renderTriangleNBTrans(t, f, m)
    ELSE CASE Double /\ ~Bright(f)  -> renderTriangleTexturedPX2TransT(t, f, brightness(f), m)
           [] Double /\ Bright(f)   -> renderTriangleTexturedNBPX2TransT(t, f, m)
           [] ~Double /\ ~Bright(f) -> renderTriangleTexturedTrans(t, f, brightness(f), m)
           [] ~Double /\ Bright(f)  -> renderTriangleTexturedNBTransT(t, f, m)

Opaque(f, textured, m) == OpaqueTriangle(Second(f), f, textured,
                                         OpaqueTriangle(First(f), f, textured, m))
Holed(f, m) == HoledTriangle(Second(f), f, HoledTriangle(First(f), f, m))
Water(f, m) == WaterTriangle(Second(f), f, WaterTriangle(First(f), f, m))

-----------------------------------------------------------------------------
(* The frame.  A face has a kind in textured and in plain frames; in the   *)
(* latter only one colour has holes (28909).                               *)

kind(f) == f.kind[renderTextured]
Memories == [depth |-> ZBuffer, shown |-> shown]
Draw(m) == ZBuffer' = m.depth /\ shown' = m.shown

Sky == [face |-> "sky", lit |-> 16, water |-> <<>>]
Old == [face |-> "old", lit |-> 16, water |-> <<>>]

\* The sky with clouds and sun is made of squares and leaves out column 0.
renderSkybox(i) == column(i, pixelSize) >= 2 \div pixelSize
makeSkyBox == [i \in Memory |-> IF ~beautifulSky \/ renderSkybox(i) THEN Sky ELSE shown[i]]

Loops == <<"chunks", "entities", "trans", "water", "cracks", "clear">>
List == [chunks   |-> scene.chunks, entities |-> scene.entities,
         trans    |-> transQuads,   water    |-> waterQuads,
         cracks   |-> scene.cracks, clear    |-> <<>>, idle |-> <<>>]
Here(p) == phase = p /\ at <= Len(List[p])

Init ==
    /\ pixelSize \in {1, 2} /\ renderTextured \in BOOLEAN
    /\ renderUnderwater = TRUE /\ beautifulSky = TRUE
    /\ ZBuffer = [i \in Memory |-> Far]
    /\ shown = [i \in Memory |-> Old]
    /\ phase = "idle" /\ at = 1
    /\ scene = [chunks |-> <<>>, entities |-> <<>>, cracks |-> <<>>]
    /\ transQuads = <<>> /\ waterQuads = <<>>
    /\ shot = FALSE /\ switched = FALSE /\ began = FALSE

\* A frame of the game: the sky, then the loops.
StartFrame ==
    /\ phase = "idle"
    /\ \E s \in Scenes : scene' = s
    /\ shown' = makeSkyBox
    /\ phase' = "chunks" /\ at' = 1
    /\ transQuads' = <<>> /\ waterQuads' = <<>>
    /\ began' = (shot \/ switched)
    /\ UNCHANGED <<settings, ZBuffer, shot, switched>>

DrawChunkFace ==
    /\ Here("chunks")
    /\ at' = at + 1
    /\ LET f == scene.chunks[at] IN
       \/ /\ InView(f) /\ kind(f) = "water" /\ renderUnderwater
          /\ waterQuads' = Append(waterQuads, f)
          /\ UNCHANGED <<transQuads, ZBuffer, shown>>
       \/ /\ InView(f) /\ kind(f) = "holed"
          /\ transQuads' = Append(transQuads, f)
          /\ UNCHANGED <<waterQuads, ZBuffer, shown>>
       \/ /\ InView(f) /\ kind(f) # "holed" /\ ~(kind(f) = "water" /\ renderUnderwater)
          /\ IF f.front THEN Draw(Opaque(f, renderTextured, Memories))
                        ELSE UNCHANGED <<ZBuffer, shown>>
          /\ UNCHANGED <<transQuads, waterQuads>>
       \/ /\ ~InView(f)
          /\ UNCHANGED <<transQuads, waterQuads, ZBuffer, shown>>
    /\ UNCHANGED <<settings, phase, scene, shot, switched, began>>

\* A mob is seen from both sides; one that was hit is plain in any frame.
DrawEntityFace ==
    /\ Here("entities")
    /\ at' = at + 1
    /\ LET f == scene.entities[at]
       IN  IF ~InView(f) THEN UNCHANGED <<ZBuffer, shown>>
           ELSE IF f.hit THEN Draw(Opaque(f, FALSE, Memories))
           ELSE Draw(Holed(f, Memories))
    /\ UNCHANGED <<settings, phase, scene, transQuads, waterQuads, shot, switched, began>>

DrawTransFace ==
    /\ Here("trans")
    /\ at' = at + 1
    /\ Draw(Holed(transQuads[at], Memories))
    /\ UNCHANGED <<settings, phase, scene, transQuads, waterQuads, shot, switched, began>>

DrawWaterFace ==
    /\ Here("water")
    /\ at' = at + 1
    /\ Draw(Water(waterQuads[at], Memories))
    /\ UNCHANGED <<settings, phase, scene, transQuads, waterQuads, shot, switched, began>>

\* The cracks lie one step before the faces of the block that is broken.
renderBlockDestruction ==
    /\ Here("cracks")
    /\ at' = at + 1
    /\ LET f == [scene.cracks[at] EXCEPT !.z = @ - 1, !.light = 16]
       IN  IF InView(f) THEN Draw(Holed(f, Memories)) ELSE UNCHANGED <<ZBuffer, shown>>
    /\ UNCHANGED <<settings, phase, scene, transQuads, waterQuads, shot, switched, began>>

EndOfLoop ==
    /\ \E n \in 1..5 : /\ phase = Loops[n] /\ at > Len(List[phase])
                       /\ phase' = Loops[n + 1]
    /\ at' = 1
    /\ UNCHANGED <<settings, ZBuffer, shown, scene, transQuads, waterQuads, shot, switched, began>>

\* Mutant: memset with the constant size of the old z-buffer, 192 by 108.
ClearDepthsQuarter ==
    /\ phase = "clear"
    /\ ZBuffer' = [i \in Memory |-> IF i < resZBuffer(2) THEN Far ELSE ZBuffer[i]]
    /\ shown' = [i \in Memory |-> Old]
    /\ phase' = "idle" /\ at' = 1
    /\ scene' = [chunks |-> <<>>, entities |-> <<>>, cracks |-> <<>>]
    /\ transQuads' = <<>> /\ waterQuads' = <<>>
    /\ shot' = FALSE
    /\ switched' = (switched /\ pixelSize = 2)
    /\ began' = FALSE
    /\ UNCHANGED settings

\* memset clears the depths of the size in use; the frame goes to the screen.
ClearDepths ==
    /\ phase = "clear"
    /\ ZBuffer' = [i \in Memory |-> IF i < resZBuffer(pixelSize) THEN Far ELSE ZBuffer[i]]
    /\ shown' = [i \in Memory |-> Old]
    /\ phase' = "idle" /\ at' = 1
    /\ scene' = [chunks |-> <<>>, entities |-> <<>>, cracks |-> <<>>]
    /\ transQuads' = <<>> /\ waterQuads' = <<>>
    /\ shot' = FALSE
    /\ switched' = (switched /\ pixelSize = 2)
    /\ began' = FALSE
    /\ UNCHANGED settings

\* KEY_0 in makeUI builds the picture in the memory of the depths.
convertToBitmap16bit ==
    /\ phase = "idle"
    /\ \E d \in Dirt : ZBuffer' = [i \in Memory |-> d]
    /\ shot' = TRUE
    /\ UNCHANGED <<settings, shown, phase, at, scene, transQuads, waterQuads, switched, began>>

\* The settings that decide how a frame is drawn.
ChangeSettings ==
    /\ phase = "idle"
    /\ \/ /\ pixelSize' = 3 - pixelSize
          /\ switched' = (switched \/ pixelSize = 2)
          /\ UNCHANGED <<renderTextured, renderUnderwater, beautifulSky>>
       \/ /\ renderTextured' = ~renderTextured
          /\ UNCHANGED <<pixelSize, renderUnderwater, beautifulSky, switched>>
       \/ /\ renderUnderwater' = ~renderUnderwater
          /\ UNCHANGED <<pixelSize, renderTextured, beautifulSky, switched>>
       \/ /\ beautifulSky' = ~beautifulSky
          /\ UNCHANGED <<pixelSize, renderTextured, renderUnderwater, switched>>
    /\ UNCHANGED <<ZBuffer, shown, phase, at, scene, transQuads, waterQuads, shot, began>>

Next == \/ StartFrame \/ DrawChunkFace \/ DrawEntityFace \/ DrawTransFace
        \/ DrawWaterFace \/ renderBlockDestruction \/ EndOfLoop \/ ClearDepths
        \/ convertToBitmap16bit \/ ChangeSettings
Spec == Init /\ [][Next]_vars

-----------------------------------------------------------------------------
(* Properties.                                                             *)

Faces == {"sky", "old"} \cup UNION {{s[n][i].id : i \in DOMAIN s[n]} :
                                    s \in Scenes, n \in {"chunks", "entities", "cracks"}}
TypeOK ==
    /\ pixelSize \in {1, 2}
    /\ renderTextured \in BOOLEAN /\ renderUnderwater \in BOOLEAN /\ beautifulSky \in BOOLEAN
    /\ ZBuffer \in [Memory -> 0..Far]
    /\ \A i \in Memory : /\ shown[i].face \in Faces /\ shown[i].lit \in 0..16
                         /\ \A n \in DOMAIN shown[i].water : shown[i].water[n].face \in Faces
    /\ phase \in {"idle"} \cup {Loops[n] : n \in DOMAIN Loops}
    /\ at \in 1..(Len(List[IF phase = "clear" THEN "idle" ELSE phase]) + 1)
    /\ shot \in BOOLEAN /\ switched \in BOOLEAN /\ began \in BOOLEAN

\* A reference: on a row, what lies between the edges that cross it, the left
\* one included and the right one not, so that neighbours share no cell.
Edges(f) == {<<f.v[i], f.v[(i % 4) + 1]>> : i \in 1..4}
Crossing(f, y) == {e \in Edges(f) : /\ Low(e[1][2], e[2][2]) <= y
                                    /\ y < High(e[1][2], e[2][2])}
Meets(e, y) == IF e[1][2] < e[2][2] THEN EdgeAt(e[1], e[2], y) ELSE EdgeAt(e[2], e[1], y)
Inside(f, i, px) ==
    LET y == (i \div (resX \div px)) * px
    IN  \E e, g \in Crossing(f, y) : /\ Meets(e, y) \div px <= column(i, px)
                                     /\ column(i, px) < Meets(g, y) \div px
Within(f, i, px, textured) ==
    Inside(f, i, px) /\ (textured => column(i, px) > 0 /\ i >= resX \div px)

\* The two triangles of a face cover it: no cell between them is left out and
\* none is drawn twice (water would show there twice as thick), plain or
\* textured, in whole pixels or in squares; asked of all Quads before a frame.
\* Corners may lie outside the screen, but not where crossVec2S wraps.
FaceWhole ==
    phase = "idle" /\ ~shot /\ ~switched /\ beautifulSky /\ renderUnderwater =>
        LET Screen == 0..(resZBuffer(pixelSize) - 1)
            Cells(t, short) == IF ~renderTextured THEN PlainCells(t, pixelSize)
                               ELSE IF short THEN ShortCells(t, pixelSize)
                               ELSE TexturedCells(t, pixelSize)
        IN  \A q \in Quads, short \in {FALSE, Double} :
                LET one == Cells(First(q), short) \cap Screen
                    two == Cells(Second(q), short) \cap Screen
                IN  /\ one \cap two = {}
                    /\ one \cup two = {i \in Screen : Within(q, i, pixelSize, renderTextured)}

Shows(f, i, textured, holed) ==
    /\ InView(f) /\ Within(f, i, pixelSize, textured)
    /\ holed => column(i, pixelSize) \notin f.holes
IsWater(f)  == kind(f) = "water" /\ renderUnderwater
IsOpaque(f) == f.front /\ kind(f) # "holed" /\ ~IsWater(f)
IsHoled(f)  == kind(f) = "holed"
SolidAt(i) ==
    SelectSeq(scene.chunks, LAMBDA f : IsOpaque(f) /\ Shows(f, i, renderTextured, FALSE))
    \o SelectSeq(scene.entities, LAMBDA f : Shows(f, i, ~f.hit, ~f.hit))
    \o SelectSeq(scene.chunks, LAMBDA f : IsHoled(f) /\ Shows(f, i, TRUE, TRUE))
nearest(fs) == fs[CHOOSE n \in DOMAIN fs : \A k \in DOMAIN fs :
                     fs[n].z < fs[k].z \/ (fs[n].z = fs[k].z /\ n <= k)]
depthOf(fs) == IF fs = <<>> THEN Far ELSE nearest(fs).z
WaterAt(i, z) ==
    LET fs == SelectSeq(scene.chunks, LAMBDA f : /\ IsWater(f) /\ f.z < z
                                                 /\ Shows(f, i, renderTextured, FALSE))
    IN  [n \in DOMAIN fs |-> [face |-> fs[n].id, lit |-> brightness(fs[n])]]
CracksAt(i, z) == SelectSeq(scene.cracks, LAMBDA f : f.z - 1 < z /\ Shows(f, i, TRUE, TRUE))

\* In a frame that began with cleared depths every cell shows the nearest of
\* the faces that cover it there (of equally near ones the first), in its own
\* light, behind the water that is nearer; in whatever order the faces come,
\* whichever loop draws them and in every setting.  The depths agree.
NearestShown ==
    phase = "clear" /\ ~began =>
        \A i \in 0..(resZBuffer(pixelSize) - 1) :
            LET solid == SolidAt(i)
                crack == CracksAt(i, depthOf(solid))
                back  == IF ~beautifulSky \/ renderSkybox(i) THEN Sky ELSE Old
            IN  IF crack # <<>>
                THEN /\ shown[i] = [face |-> nearest(crack).id, lit |-> 16, water |-> <<>>]
                     /\ ZBuffer[i] = nearest(crack).z - 1
                ELSE /\ ZBuffer[i] = depthOf(solid)
                     /\ shown[i] =
                          [face  |-> IF solid = <<>> THEN back.face ELSE nearest(solid).id,
                           lit   |-> IF solid = <<>> THEN 16 ELSE brightness(nearest(solid)),
                           water |-> WaterAt(i, depthOf(solid))]

\* Between frames the depths in use are clear, unless a screenshot was taken
\* or pixelSize went back to 1 since the last frame: what other sizes left
\* behind never reaches a second frame.
DepthsStartClear ==
    phase = "idle" /\ ~shot /\ ~switched =>
        \A i \in 0..(resZBuffer(pixelSize) - 1) : ZBuffer[i] = Far

\* Nothing is drawn outside the screen, but for plain faces in squares of two
\* by two, which may reach the one row of squares below it.
Drawn(i) == shown[i].face \notin {"sky", "old"} \/ shown[i].water # <<>>
OutsideOnlyBelow ==
    \A i \in Memory : Drawn(i) /\ i >= resZBuffer(pixelSize) =>
        /\ i < resZBuffer(pixelSize) + (resX \div pixelSize)
        /\ ~renderTextured \/ \E n \in DOMAIN scene.entities : scene.entities[n].hit

\* The memory that the z-buffer shares is in order between and during frames.
DepthsSound == TypeOK /\ DepthsStartClear /\ OutsideOnlyBelow
=============================================================================
