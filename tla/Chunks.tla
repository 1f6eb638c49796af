------------------------------- MODULE Chunks -------------------------------
(***************************************************************************)
(* Which chunks have a mesh: the gradual loading and unloading around the  *)
(* player (update, src/src/eninge.c 28102-28174), the loading of the spawn *)
(* area, leaving a world, resets by the settings, and the rebuilding of a  *)
(* chunk whose blocks were edited.                                         *)
(*                                                                         *)
(* A mesh is six buffers of the heap, behind pointers that are never set   *)
(* to NULL; tlsf_malloc of 0 bytes gives NULL.  Its size follows from the  *)
(* number of faces of the chunk and from the setting compressVertices.     *)
(*                                                                         *)
(* A pass of a second visits the chunks one after the other, one in a      *)
(* slice of the timer (0.015625 s = 1/64); a step of the model is a slice. *)
(* main() starts the game only on the fx-CG50 (12273-12278), so the budget *)
(* of the older calculators (28150) never refuses a chunk.                 *)
(***************************************************************************)
EXTENDS Integers, FiniteSets, Functions

CONSTANTS Side,         \* totalChunkWidth (code: 8)
          MaxDistance,  \* largest render distance (code: 8)
          MaxFaces,     \* bound: faces of a chunk
          MaxChanges    \* bound: steps of the player in a behaviour

ASSUME ChunksAssumption ==
    /\ Side \in Nat \ {0} /\ MaxDistance \in Nat
    /\ MaxFaces \in Nat \ {0} /\ MaxChanges \in Nat

N == Side * Side
Chunks == 0..(N - 1)
chunk2DPos(c) == [x |-> c % Side, y |-> c \div Side]

VARIABLES
    screen,        \* "menu", "outside" (UIState 15 or 19 without a world), "game"
    PPos,          \* the chunk the player is in
    renderDistance, compressVertices, stopChunkLoading,
    faces,         \* faces[c]: faces the blocks of c show
    chunk2DActive, chunk2DReset, activeChunks,
    mesh,          \* mesh[c]: [sizeV, sizeT, active, ptr] of allObj[c]
    verticesLength, triangleLength,
    currentChunkUpdated,
    mobs,          \* vertices and triangles of the mobs' meshes, in pairs
    lost, twice,   \* ghosts: a live mesh was overwritten, a freed one freed
    outside,       \* ghost: chunks may have the empty meshes of no world
    stray,         \* ghost: a chunk without a mesh was edited
    changes        \* steps of the player so far
vars == <<screen, PPos, renderDistance, compressVertices, stopChunkLoading,
          faces, chunk2DActive, chunk2DReset, activeChunks, mesh,
          verticesLength, triangleLength, currentChunkUpdated, mobs, lost, twice, outside,
          stray, changes>>
settings == <<renderDistance, compressVertices, stopChunkLoading>>

-----------------------------------------------------------------------------
abs_int(n) == IF n < 0 THEN -n ELSE n
Distance(c, p) == abs_int(chunk2DPos(c).x - chunk2DPos(p).x)
                  + abs_int(chunk2DPos(c).y - chunk2DPos(p).y)
InRange(p, d) == {c \in Chunks : Distance(c, p) <= d}

\* A mob's mesh counts 48 vertices and 28 triangles; here 2 and 1.
MobV == 2
MobT == 1

\* What one handler works on.
Meshes == [active |-> chunk2DActive, reset |-> chunk2DReset, count |-> activeChunks,
           mesh |-> mesh, faces |-> faces, v |-> verticesLength, t |-> triangleLength,
           lost |-> lost, twice |-> twice]
Set(s) ==
    /\ chunk2DActive' = s.active /\ chunk2DReset' = s.reset
    /\ activeChunks' = s.count /\ mesh' = s.mesh
    /\ verticesLength' = s.v /\ triangleLength' = s.t
    /\ lost' = s.lost /\ twice' = s.twice

NoMesh == [sizeV |-> 0, sizeT |-> 0, active |-> FALSE, ptr |-> "null"]
\* Every face has four vertices; with compressVertices they are shared.
Built(n) == [sizeV |-> IF compressVertices /\ n > 0 THEN 2 * n + 1 ELSE 4 * n,
             sizeT |-> n, active |-> TRUE, ptr |-> IF n = 0 THEN "null" ELSE "live"]

\* Vertices and triangles of all active meshes, those of the mobs included.
Vertices(ms) == SumFunction([c \in Chunks |-> IF ms[c].active THEN ms[c].sizeV ELSE 0])
Triangles(ms) == SumFunction([c \in Chunks |-> IF ms[c].active THEN ms[c].sizeT ELSE 0])
TotalV(ms) == mobs * MobV + Vertices(ms)
TotalT(ms) == mobs * MobT + Triangles(ms)

\* generateChunkV2: new buffers, whatever the pointers were, and the two
\* counters added up anew.
generateChunkV2(s, c) ==
    LET ms == [s.mesh EXCEPT ![c] = Built(s.faces[c])]
    IN  [s EXCEPT !.mesh = ms, !.v = TotalV(ms), !.t = TotalT(ms),
                  !.lost = @ \/ s.mesh[c].ptr = "live"]

\* tlsf_free of the six buffers: the pointers keep pointing there.
Free(s, c) ==
    [s EXCEPT !.mesh[c].ptr = IF @ = "live" THEN "freed" ELSE @,
              !.twice = @ \/ s.mesh[c].ptr = "freed"]

\* updateChunkV2: frees and builds again, without asking whether the chunk
\* has a mesh.
updateChunkV2(s, c) == generateChunkV2(Free(s, c), c)

\* update 28121-28142.  The numbers of triangles and vertices are taken off
\* the counter of the other (28128-28129).
Unload(s, c) ==
    LET freed == Free(s, c)
    IN  [freed EXCEPT !.v = @ - s.mesh[c].sizeT, !.t = @ - s.mesh[c].sizeV,
                      !.mesh[c] = [NoMesh EXCEPT !.ptr = freed.mesh[c].ptr],
                      !.active = @ \ {c}, !.reset = @ \ {c}, !.count = @ - 1]
Load(s, c) ==
    LET made == generateChunkV2(s, c)
    IN  [made EXCEPT !.count = @ + 1, !.active = @ \cup {c}]

\* The turn of chunk c in update (28117-28160).
Visit(s, c) ==
    LET inRange == Distance(c, PPos) <= renderDistance
        s1 == IF (~inRange \/ c \in s.reset) /\ c \in s.active THEN Unload(s, c) ELSE s
    IN  IF inRange /\ c \notin s1.active THEN Load(s1, c) ELSE s1

\* Mutant: the pass is over a chunk too early.
updateEndsEarly ==
    /\ screen \in {"outside", "game"} /\ ~stopChunkLoading
    /\ Set(Visit(Meshes, currentChunkUpdated))
    /\ currentChunkUpdated' = IF currentChunkUpdated + 2 >= N THEN 0
                              ELSE currentChunkUpdated + 1
    /\ outside' = (outside \/ screen = "outside")
    /\ UNCHANGED <<screen, PPos, settings, faces, mobs, stray, changes>>

\* update is called on every screen but those of the main menu (28191), on
\* the edit and texture screens outside a world too.  A frame visits the
\* chunks whose slice of the pass is over; it is a row of these steps.
update ==
    /\ screen \in {"outside", "game"} /\ ~stopChunkLoading
    /\ Set(Visit(Meshes, currentChunkUpdated))
    /\ currentChunkUpdated' = (currentChunkUpdated + 1) % N
    /\ outside' = (outside \/ screen = "outside")
    /\ UNCHANGED <<screen, PPos, settings, faces, mobs, stray, changes>>

-----------------------------------------------------------------------------
\* The player
Change == changes < MaxChanges /\ changes' = changes + 1
MeshesKept == UNCHANGED <<chunk2DActive, chunk2DReset, activeChunks, mesh,
                          verticesLength, triangleLength, lost, twice>>
TimerKept == UNCHANGED currentChunkUpdated

\* A world is opened or created: its blocks are in memory, and loadInChunks
\* makes a mesh of every chunk in range, without asking whether it has one.
EnterWorld ==
    /\ screen = "menu" /\ Change
    /\ faces' = [c \in Chunks |-> 1]
    /\ PPos' \in Chunks
    /\ screen' = "loading"
    /\ MeshesKept /\ TimerKept
    /\ UNCHANGED <<settings, mobs, outside, stray>>
loadInChunks ==
    /\ screen = "loading"
    /\ LET near == InRange(PPos, renderDistance)
           ms == [c \in Chunks |-> IF c \in near THEN Built(faces[c]) ELSE mesh[c]]
       IN  Set([Meshes EXCEPT !.mesh = ms, !.v = TotalV(ms), !.t = TotalT(ms),
                   !.lost = @ \/ \E c \in near : mesh[c].ptr = "live",
                   !.active = @ \cup near, !.count = @ + Cardinality(near)])
    /\ screen' = "game"
    /\ TimerKept
    /\ UNCHANGED <<PPos, settings, faces, mobs, outside, stray, changes>>

\* Mutant: the meshes are forgotten without being freed.
LeaveUnfreed ==
    /\ screen = "game" /\ Change
    /\ mesh' = [c \in Chunks |-> NoMesh]
    /\ chunk2DActive' = {} /\ activeChunks' = 0
    /\ verticesLength' = 0 /\ triangleLength' = 0 /\ mobs' = 0
    /\ lost' = (lost \/ \E c \in chunk2DActive : mesh[c].ptr = "live")
    /\ twice' = twice /\ faces' = [c \in Chunks |-> 0]
    /\ screen' = "menu"
    /\ outside' = FALSE
    /\ UNCHANGED <<chunk2DReset, PPos, settings, stray>> /\ TimerKept

\* clearAllChunks and clearAllEntitys, then the blocks are cleared.  The
\* resets that are pending stay.
LeaveWorld ==
    /\ screen = "game" /\ Change
    /\ mesh' = [c \in Chunks |->
                  IF c \notin chunk2DActive THEN mesh[c]
                  ELSE [NoMesh EXCEPT !.ptr = Free(Meshes, c).mesh[c].ptr]]
    /\ twice' = (twice \/ \E c \in chunk2DActive : mesh[c].ptr = "freed")
    /\ lost' = lost /\ chunk2DReset' = chunk2DReset
    /\ chunk2DActive' = {} /\ activeChunks' = 0
    /\ verticesLength' = 0 /\ triangleLength' = 0
    /\ mobs' = 0 /\ faces' = [c \in Chunks |-> 0]
    /\ screen' = "menu" /\ outside' = FALSE
    /\ UNCHANGED <<PPos, settings, stray>> /\ TimerKept

\* Screens without a world on which the frame goes on.
GoOutside == /\ screen = "menu" /\ Change /\ screen' = "outside"
             /\ MeshesKept /\ TimerKept
             /\ UNCHANGED <<PPos, settings, faces, mobs, outside, stray>>
ComeBack == /\ screen = "outside" /\ screen' = "menu"
            /\ MeshesKept /\ TimerKept
            /\ UNCHANGED <<PPos, settings, faces, mobs, outside, stray, changes>>

\* Walking into a neighbouring chunk, or dying and starting anew anywhere.
Walk == /\ screen = "game" /\ Change
        /\ PPos' \in Chunks \ {PPos}
        /\ MeshesKept /\ TimerKept
        /\ UNCHANGED <<screen, settings, faces, mobs, outside, stray>>

SetDistance == /\ screen \in {"menu", "game"} /\ Change
               /\ renderDistance' \in {renderDistance - 1, renderDistance + 1}
                                      \cap 0..MaxDistance
               /\ MeshesKept /\ TimerKept
               /\ UNCHANGED <<screen, PPos, compressVertices, stopChunkLoading,
                              faces, mobs, outside, stray>>
ToggleLoading == /\ screen \in {"menu", "game"} /\ Change
                 /\ stopChunkLoading' = ~stopChunkLoading
                 /\ MeshesKept /\ TimerKept
                 /\ UNCHANGED <<screen, PPos, renderDistance, compressVertices,
                                faces, mobs, outside, stray>>

\* Mutant: the chunks are not reset.
ToggleCompressOnly ==
    /\ screen \in {"menu", "game"} /\ Change
    /\ compressVertices' = ~compressVertices
    /\ MeshesKept /\ TimerKept
    /\ UNCHANGED <<screen, PPos, renderDistance, stopChunkLoading, faces, mobs, outside, stray>>
\* In a world ResetAllChunks marks every chunk that has a mesh; in the main
\* menu nothing is marked (23907).
ToggleCompress ==
    /\ screen \in {"menu", "game"} /\ Change
    /\ compressVertices' = ~compressVertices
    /\ chunk2DReset' = IF screen = "game" THEN chunk2DReset \cup chunk2DActive
                       ELSE chunk2DReset
    /\ UNCHANGED <<chunk2DActive, activeChunks, mesh, verticesLength,
                   triangleLength, lost, twice>>
    /\ TimerKept
    /\ UNCHANGED <<screen, PPos, renderDistance, stopChunkLoading, faces, mobs, outside, stray>>

\* destroyBlock, placeBlock and useBlock build the chunk of the block anew, and
\* so does updateMap (22340) up to the distance redstoneRenderDistance, each
\* whether or not the chunk has a mesh.
Edit == /\ screen = "game" /\ Change
        /\ \E c \in Chunks, n \in 0..MaxFaces :
              /\ n # faces[c]
              /\ faces' = [faces EXCEPT ![c] = n]
              /\ Set(updateChunkV2([Meshes EXCEPT !.faces[c] = n], c))
              /\ stray' = (stray \/ c \notin chunk2DActive)
        /\ TimerKept
        /\ UNCHANGED <<screen, PPos, settings, mobs, outside>>

\* A sheep or a pig counts its meshes in (27120, 27329); an item adds the
\* counters up anew (27024).  At the end all are taken off (26397, 26841).
MobMade == /\ screen = "game" /\ Change
           /\ mobs' = mobs + 1
           /\ \/ verticesLength' = verticesLength + MobV /\ triangleLength' = triangleLength + MobT
              \/ verticesLength' = TotalV(mesh) + MobV /\ triangleLength' = TotalT(mesh) + MobT
           /\ UNCHANGED <<chunk2DActive, chunk2DReset, activeChunks, mesh, lost, twice>>
           /\ TimerKept /\ UNCHANGED <<screen, PPos, settings, faces, outside, stray>>
MobGone == /\ screen = "game" /\ mobs > 0
           /\ mobs' = mobs - 1
           /\ verticesLength' = verticesLength - MobV /\ triangleLength' = triangleLength - MobT
           /\ UNCHANGED <<chunk2DActive, chunk2DReset, activeChunks, mesh, lost, twice>>
           /\ TimerKept /\ UNCHANGED <<screen, PPos, settings, faces, outside, stray, changes>>

Init == /\ screen = "menu" /\ PPos = 0
        /\ renderDistance \in 0..MaxDistance
        /\ compressVertices = TRUE /\ stopChunkLoading = FALSE
        /\ faces = [c \in Chunks |-> 0]
        /\ chunk2DActive = {} /\ chunk2DReset = {} /\ activeChunks = 0
        /\ mesh = [c \in Chunks |-> NoMesh]
        /\ verticesLength = 0 /\ triangleLength = 0
        /\ currentChunkUpdated = 0
        /\ mobs = 0 /\ lost = FALSE /\ twice = FALSE
        /\ outside = FALSE /\ stray = FALSE
        /\ changes = 0

Next == \/ update \/ EnterWorld \/ loadInChunks \/ LeaveWorld
        \/ GoOutside \/ ComeBack \/ Walk \/ SetDistance \/ ToggleLoading
        \/ ToggleCompress \/ Edit \/ MobMade \/ MobGone

\* Every screen of a world draws a frame after the other, and a frame lasts
\* some time.
Spec == Init /\ [][Next]_vars /\ WF_vars(update) /\ WF_vars(loadInChunks)

-----------------------------------------------------------------------------
TypeOK ==
    /\ screen \in {"menu", "loading", "outside", "game"}
    /\ PPos \in Chunks /\ renderDistance \in 0..MaxDistance
    /\ compressVertices \in BOOLEAN /\ stopChunkLoading \in BOOLEAN
    /\ faces \in [Chunks -> 0..MaxFaces]
    /\ chunk2DActive \subseteq Chunks /\ chunk2DReset \subseteq Chunks
    /\ activeChunks \in Nat
    /\ mesh \in [Chunks -> [sizeV : 0..(4 * MaxFaces), sizeT : 0..MaxFaces,
                            active : BOOLEAN, ptr : {"null", "live", "freed"}]]
    /\ verticesLength \in Int /\ triangleLength \in Int
    /\ currentChunkUpdated \in 0..(N - 1)
    /\ mobs \in Nat /\ lost \in BOOLEAN /\ twice \in BOOLEAN
    /\ outside \in BOOLEAN /\ stray \in BOOLEAN
    /\ changes \in 0..MaxChanges

\* The buffers of a mesh are freed once and never overwritten while they are
\* live, and a chunk has them exactly while it is active and shows a face --
\* as long as no chunk without a mesh was edited: updateChunkV2 (20139) frees
\* what was freed before.
HeapCareful ==
    ~stray => /\ ~lost /\ ~twice
              /\ \A c \in Chunks :
                    /\ mesh[c].active <=> c \in chunk2DActive
                    /\ (mesh[c].ptr = "live") <=> (c \in chunk2DActive /\ mesh[c].sizeT > 0)

\* The counters behind the display of the vertices and behind the budget of
\* the older calculators: unloading subtracts each from the other
\* (28128-28129), yet their sum stays that of all meshes.
SumOfCounters ==
    ~stray => verticesLength + triangleLength = TotalV(mesh) + TotalT(mesh)

\* activeChunks is the number of chunks that have a mesh.  Where a frame ran
\* on a screen outside a world, loadInChunks makes meshes over those it left
\* and counts them again: then the number is too large.
ActiveChunksCounted ==
    /\ activeChunks >= Cardinality(chunk2DActive)
    /\ ~outside => activeChunks = Cardinality(chunk2DActive)

\* The meshes, their buffers and the three counters agree.
MeshesSound == TypeOK /\ HeapCareful /\ SumOfCounters /\ ActiveChunksCounted

\* Whatever the player walked, edited and set: a mesh of a world shows its
\* blocks as they are, in the form of the settings, or it is marked for the
\* next pass.
ShowsItsBlocks(c) == /\ mesh[c].sizeT = faces[c]
                     /\ mesh[c].sizeV = Built(faces[c]).sizeV
StaleOnlyIfMarked ==
    screen = "game" /\ ~outside =>
        \A c \in chunk2DActive : ShowsItsBlocks(c) \/ c \in chunk2DReset

\* Once the player stays in a world with loading on, at last exactly the
\* chunks in range have a mesh, and each shows its blocks -- unless a frame ran
\* outside a world: a chunk whose empty mesh was made there is kept when the
\* player walks towards it before the pass comes to it.
RangeIsShown == /\ chunk2DActive = InRange(PPos, renderDistance)
                /\ outside \/ \A c \in chunk2DActive : ShowsItsBlocks(c)
RangeIsShownAtLast ==
    <>[](screen = "game" /\ ~stopChunkLoading) => <>[]RangeIsShown
=============================================================================
