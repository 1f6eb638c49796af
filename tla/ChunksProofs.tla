---------------------------- MODULE ChunksProofs ----------------------------
(***************************************************************************)
(* Proofs about Chunks, for every size of the map, every render distance   *)
(* and any number of faces: the buffers, the counters and the contents of  *)
(* the meshes.                                                             *)
(***************************************************************************)
EXTENDS Chunks, Sums, FiniteSetTheorems, TLAPS

Mesh == [sizeV : 0..(4 * MaxFaces), sizeT : 0..MaxFaces,
         active : BOOLEAN, ptr : {"null", "live", "freed"}]

Typed ==
    /\ screen \in {"menu", "loading", "outside", "game"}
    /\ PPos \in Chunks
    /\ compressVertices \in BOOLEAN
    /\ faces \in [Chunks -> 0..MaxFaces]
    /\ chunk2DActive \in SUBSET Chunks /\ chunk2DReset \in SUBSET Chunks
    /\ activeChunks \in Nat
    /\ mesh \in [Chunks -> Mesh]
    /\ currentChunkUpdated \in Chunks
    /\ lost \in BOOLEAN /\ twice \in BOOLEAN
    /\ outside \in BOOLEAN /\ stray \in BOOLEAN

LEMMA ChunksFinite == IsFiniteSet(Chunks) /\ N \in Nat \ {0} /\ 0 \in Chunks
<1>1. N \in Nat \ {0}
  BY ChunksAssumption DEF N
<1> QED BY <1>1, FS_Interval DEF Chunks

LEMMA BuiltTyped ==
    ASSUME NEW n \in 0..MaxFaces
    PROVE  Built(n) \in Mesh
<1>1. n \in Nat /\ MaxFaces \in Nat /\ n <= MaxFaces
  BY ChunksAssumption
<1>2. 4 * n \in 0..(4 * MaxFaces)
  BY <1>1
<1>3. n > 0 => 2 * n + 1 \in 0..(4 * MaxFaces)
  BY <1>1
<1> QED BY <1>2, <1>3 DEF Built, Mesh

\* What a visit does to a chunk: nothing, or one of these.
Released(m) == IF m.ptr = "live" THEN "freed" ELSE m.ptr

Unloaded(c) ==
    /\ c \in chunk2DActive
    /\ chunk2DActive' = chunk2DActive \ {c} /\ chunk2DReset' = chunk2DReset \ {c}
    /\ activeChunks' = activeChunks - 1
    /\ mesh' = [mesh EXCEPT ![c] = [NoMesh EXCEPT !.ptr = Released(mesh[c])]]
    /\ lost' = lost /\ twice' = (twice \/ mesh[c].ptr = "freed")
Loaded(c) ==
    /\ c \notin chunk2DActive
    /\ chunk2DActive' = chunk2DActive \cup {c} /\ chunk2DReset' = chunk2DReset
    /\ activeChunks' = activeChunks + 1
    /\ mesh' = [mesh EXCEPT ![c] = Built(faces[c])]
    /\ lost' = (lost \/ mesh[c].ptr = "live") /\ twice' = twice
Renewed(c) ==
    /\ c \in chunk2DActive
    /\ chunk2DActive' = chunk2DActive /\ chunk2DReset' = chunk2DReset \ {c}
    /\ activeChunks' = activeChunks
    /\ mesh' = [mesh EXCEPT ![c] = Built(faces[c])]
    /\ lost' = lost /\ twice' = (twice \/ mesh[c].ptr = "freed")

LEMMA FreeFields ==
    ASSUME Typed, NEW c \in Chunks
    PROVE  LET f == Free(Meshes, c)
           IN  /\ f.active = chunk2DActive /\ f.reset = chunk2DReset /\ f.count = activeChunks
               /\ f.faces = faces /\ f.lost = lost
               /\ f.mesh = [mesh EXCEPT ![c].ptr = Released(mesh[c])]
               /\ f.twice = (twice \/ mesh[c].ptr = "freed")
<1> DEFINE f == Free(Meshes, c)
<1>1. /\ f.active = chunk2DActive /\ f.reset = chunk2DReset /\ f.count = activeChunks
      /\ f.faces = faces /\ f.lost = lost
  BY DEF Free, Meshes
<1>2. f.mesh = [mesh EXCEPT ![c].ptr = Released(mesh[c])]
  BY DEF Free, Meshes, Released
<1>3. f.twice = (twice \/ mesh[c].ptr = "freed")
  BY DEF Free, Meshes, Typed
<1> QED BY <1>1, <1>2, <1>3

LEMMA UnloadFields ==
    ASSUME Typed, NEW c \in Chunks
    PROVE  LET u == Unload(Meshes, c)
           IN  /\ u.active = chunk2DActive \ {c} /\ u.reset = chunk2DReset \ {c}
               /\ u.count = activeChunks - 1 /\ u.faces = faces /\ u.lost = lost
               /\ u.mesh = [mesh EXCEPT ![c] = [NoMesh EXCEPT !.ptr = Released(mesh[c])]]
               /\ u.twice = (twice \/ mesh[c].ptr = "freed")
<1> DEFINE u == Unload(Meshes, c)
<1>1. /\ u.active = chunk2DActive \ {c} /\ u.reset = chunk2DReset \ {c}
      /\ u.count = activeChunks - 1 /\ u.faces = faces /\ u.lost = lost
  BY DEF Unload, Free, Meshes
<1>2. u.mesh = [mesh EXCEPT ![c] = [NoMesh EXCEPT !.ptr = Released(mesh[c])]]
  <2>1. Free(Meshes, c).mesh[c].ptr = Released(mesh[c])
    <3>1. mesh[c] \in Mesh
      BY DEF Typed
    <3>2. [mesh EXCEPT ![c].ptr = Released(mesh[c])][c].ptr = Released(mesh[c])
      BY <3>1 DEF Typed, Mesh
    <3> QED BY <3>2, FreeFields
  <2>2. u.mesh = [Free(Meshes, c).mesh EXCEPT ![c] = [NoMesh EXCEPT !.ptr = Released(mesh[c])]]
    BY <2>1 DEF Unload, Free, Meshes
  <2>3. [[mesh EXCEPT ![c].ptr = Released(mesh[c])] EXCEPT ![c] = [NoMesh EXCEPT !.ptr = Released(mesh[c])]]
        = [mesh EXCEPT ![c] = [NoMesh EXCEPT !.ptr = Released(mesh[c])]]
    BY DEF Typed
  <2> QED BY <2>2, <2>3, FreeFields
<1>3. u.twice = (twice \/ mesh[c].ptr = "freed")
  BY FreeFields DEF Unload, Free, Meshes, Typed
<1> QED BY <1>1, <1>2, <1>3

LEMMA UpdateCases ==
    ASSUME Typed, update
    PROVE  LET c == currentChunkUpdated IN
           \/ UNCHANGED <<chunk2DActive, chunk2DReset, activeChunks, mesh, lost, twice>>
           \/ Unloaded(c) \/ Loaded(c) \/ Renewed(c)
<1> DEFINE c == currentChunkUpdated
           inRange == Distance(c, PPos) <= renderDistance
           fr == Free(Meshes, c)
           un == Unload(Meshes, c)
<1>1. Set(Visit(Meshes, c)) /\ c \in Chunks
  BY DEF update, Typed
<1>2. CASE ~((~inRange \/ c \in chunk2DReset) /\ c \in chunk2DActive) /\ ~(inRange /\ c \notin chunk2DActive)
  <2>1. Visit(Meshes, c) = Meshes
    BY <1>2 DEF Visit, Meshes
  <2> QED BY <1>1, <2>1 DEF Set, Meshes
<1>3. CASE ~((~inRange \/ c \in chunk2DReset) /\ c \in chunk2DActive) /\ inRange /\ c \notin chunk2DActive
  <2>1. Visit(Meshes, c) = Load(Meshes, c)
    BY <1>3 DEF Visit, Meshes
  <2>2. Loaded(c)
    BY <1>1, <1>3, <2>1 DEF Set, Meshes, Load, generateChunkV2, Loaded
  <2> QED BY <2>2
<1>4. /\ un.active = chunk2DActive \ {c} /\ un.reset = chunk2DReset \ {c}
      /\ un.count = activeChunks - 1 /\ un.faces = faces /\ un.lost = lost
      /\ un.mesh = [mesh EXCEPT ![c] = [NoMesh EXCEPT !.ptr = Released(mesh[c])]]
      /\ un.twice = (twice \/ mesh[c].ptr = "freed")
  BY <1>1, UnloadFields
<1>5. CASE (~inRange \/ c \in chunk2DReset) /\ c \in chunk2DActive /\ ~inRange
  <2>1. Visit(Meshes, c) = un
    BY <1>5 DEF Visit, Meshes
  <2>2. Unloaded(c)
    BY <1>1, <1>4, <1>5, <2>1 DEF Set, Unloaded
  <2> QED BY <2>2
<1>6. CASE (~inRange \/ c \in chunk2DReset) /\ c \in chunk2DActive /\ inRange
  <2>1. Visit(Meshes, c) = Load(un, c)
    BY <1>4, <1>6 DEF Visit, Meshes
  <2> DEFINE ld == Load(un, c)
             idle == [mesh EXCEPT ![c] = [NoMesh EXCEPT !.ptr = Released(mesh[c])]]
  <2>2. /\ ld.active = un.active \cup {c} /\ ld.reset = un.reset /\ ld.count = un.count + 1
        /\ ld.mesh = [un.mesh EXCEPT ![c] = Built(un.faces[c])]
        /\ ld.lost = (un.lost \/ un.mesh[c].ptr = "live") /\ ld.twice = un.twice
    <3>1. ld.active = un.active \cup {c}
      BY DEF Unload, Free, Meshes, Load, generateChunkV2
    <3>2. ld.reset = un.reset
      BY DEF Unload, Free, Meshes, Load, generateChunkV2
    <3>3. ld.count = un.count + 1
      BY DEF Unload, Free, Meshes, Load, generateChunkV2
    <3>4. ld.mesh = [un.mesh EXCEPT ![c] = Built(un.faces[c])]
      BY DEF Unload, Free, Meshes, Load, generateChunkV2
    <3>5. ld.lost = (un.lost \/ un.mesh[c].ptr = "live")
      BY DEF Unload, Free, Meshes, Load, generateChunkV2
    <3>6. ld.twice = un.twice
      BY DEF Unload, Free, Meshes, Load, generateChunkV2
    <3> QED BY <3>1, <3>2, <3>3, <3>4, <3>5, <3>6
  <2>3. idle[c].ptr # "live" /\ [idle EXCEPT ![c] = Built(faces[c])] = [mesh EXCEPT ![c] = Built(faces[c])]
    BY <1>1 DEF Typed, NoMesh, Released
  <2>4. /\ chunk2DActive' = ld.active /\ chunk2DReset' = ld.reset /\ activeChunks' = ld.count
        /\ mesh' = ld.mesh /\ lost' = ld.lost /\ twice' = ld.twice
    BY <1>1, <2>1 DEF Set
  <2>5. mesh' = [mesh EXCEPT ![c] = Built(faces[c])] /\ lost' = lost
    BY <1>4, <2>2, <2>3, <2>4 DEF Typed
  <2>6. /\ chunk2DActive' = chunk2DActive /\ chunk2DReset' = chunk2DReset \ {c}
        /\ activeChunks' = activeChunks /\ twice' = (twice \/ mesh[c].ptr = "freed")
    <3> HIDE DEF un, ld, c
    <3> QED BY <1>4, <1>6, <2>2, <2>4 DEF Typed
  <2>7. Renewed(c)
    BY <1>6, <2>5, <2>6 DEF Renewed
  <2> QED BY <2>7
<1> QED BY <1>2, <1>3, <1>5, <1>6

(***************************************************************************)
(* The invariant.                                                          *)
(***************************************************************************)

Counted ==
    /\ activeChunks >= Cardinality(chunk2DActive)
    /\ ~outside => activeChunks = Cardinality(chunk2DActive)

Fresh(c) == ShowsItsBlocks(c) \/ c \in chunk2DReset
UpToDate ==
    /\ screen = "game" /\ ~outside => \A c \in chunk2DActive : Fresh(c)
    /\ screen # "game" /\ ~outside => chunk2DActive = {}

\* The buffers of one chunk.  Between two worlds no mesh has any.
Careful(c) ==
    /\ mesh[c].active <=> c \in chunk2DActive
    /\ c \in chunk2DActive => mesh[c].ptr = IF mesh[c].sizeT = 0 THEN "null" ELSE "live"
    /\ c \notin chunk2DActive => mesh[c].ptr # "live"
    /\ screen # "game" => mesh[c].ptr # "live"
NoWorld == screen \in {"menu", "outside"} => \A c \in Chunks : faces[c] = 0
HeapInv == ~stray => ~lost /\ ~twice /\ \A c \in Chunks : Careful(c)

IInv == Typed /\ Counted /\ UpToDate /\ NoWorld /\ HeapInv

\* Steps that leave the meshes and the blocks alone.
Quiet == \/ EnterWorld \/ GoOutside \/ ComeBack \/ Walk \/ SetDistance
         \/ ToggleLoading \/ ToggleCompress \/ MobMade \/ MobGone

LEMMA ActiveFinite ==
    ASSUME Typed
    PROVE  IsFiniteSet(chunk2DActive) /\ Cardinality(chunk2DActive) \in Nat
  BY ChunksFinite, FS_Subset, FS_CardinalityType DEF Typed

LEMMA BuiltAt ==
    ASSUME Typed, NEW c \in Chunks, NEW n \in 0..MaxFaces,
           mesh' = [mesh EXCEPT ![c] = Built(n)]
    PROVE  /\ mesh' \in [Chunks -> Mesh]
           /\ mesh'[c] = Built(n)
           /\ \A d \in Chunks : d # c => mesh'[d] = mesh[d]
  BY BuiltTyped DEF Typed

\* What a new mesh is.
LEMMA BuiltMeans ==
    ASSUME NEW n \in 0..MaxFaces
    PROVE  /\ Built(n).sizeT = n /\ Built(n).active = TRUE
           /\ Built(n).ptr = IF n = 0 THEN "null" ELSE "live"
  BY DEF Built

LEMMA VisitTyped ==
    ASSUME Typed, Counted, update
    PROVE  Typed' /\ Counted'
<1> DEFINE c == currentChunkUpdated
<1>1. c \in Chunks /\ c \in Nat /\ N \in Nat \ {0}
  BY ChunksFinite DEF Typed, Chunks
<1>2. currentChunkUpdated' \in Chunks
  <2>1. currentChunkUpdated' = (c + 1) % N
    BY DEF update
  <2>2. (c + 1) % N \in 0..(N - 1)
    <3> HIDE DEF c
    <3> QED BY <1>1
  <2> QED BY <2>1, <2>2 DEF Chunks
<1>3. IsFiniteSet(chunk2DActive) /\ Cardinality(chunk2DActive) \in Nat
  BY ActiveFinite
<1>4. /\ screen' = screen /\ PPos' = PPos /\ compressVertices' = compressVertices
      /\ faces' = faces /\ stray' = stray /\ outside' \in BOOLEAN
      /\ outside' = (outside \/ screen = "outside")
  BY DEF update, settings, Typed
<1>5. ASSUME chunk2DActive' \in SUBSET Chunks, chunk2DReset' \in SUBSET Chunks,
             activeChunks' \in Nat, mesh' \in [Chunks -> Mesh],
             lost' \in BOOLEAN, twice' \in BOOLEAN
      PROVE  Typed'
  BY <1>2, <1>4, <1>5 DEF Typed
<1>6. CASE UNCHANGED <<chunk2DActive, chunk2DReset, activeChunks, mesh, lost, twice>>
  BY <1>4, <1>5, <1>6 DEF Typed, Counted
<1>7. CASE Unloaded(c)
  <2>1. Cardinality(chunk2DActive \ {c}) = Cardinality(chunk2DActive) - 1
    BY <1>3, <1>7, FS_RemoveElement DEF Unloaded
  <2>2. Cardinality(chunk2DActive) - 1 \in Nat
    BY <1>3, <2>1, FS_RemoveElement, FS_CardinalityType
  <2>3. /\ activeChunks' = activeChunks - 1
        /\ Cardinality(chunk2DActive') = Cardinality(chunk2DActive) - 1
    BY <1>7, <2>1 DEF Unloaded
  <2>4. activeChunks' \in Nat /\ Counted'
    BY <1>3, <1>4, <2>2, <2>3 DEF Typed, Counted
  <2>5. mesh' \in [Chunks -> Mesh]
    <3>1. [NoMesh EXCEPT !.ptr = Released(mesh[c])] \in Mesh
      <4>1. mesh[c] \in Mesh /\ 0 \in 0..(4 * MaxFaces) /\ 0 \in 0..MaxFaces
        BY <1>1, ChunksAssumption DEF Typed
      <4>2. Released(mesh[c]) \in {"null", "live", "freed"}
        BY <4>1 DEF Released, Mesh
      <4> QED BY <4>1, <4>2 DEF NoMesh, Mesh
    <3> QED BY <1>1, <1>7, <3>1 DEF Unloaded, Typed
  <2> QED BY <1>5, <1>7, <2>4, <2>5 DEF Unloaded, Typed
<1>8. faces[c] \in 0..MaxFaces
  BY <1>1 DEF Typed
<1>9. CASE Loaded(c)
  <2>1. Cardinality(chunk2DActive \cup {c}) = Cardinality(chunk2DActive) + 1
    BY <1>3, <1>9, FS_AddElement DEF Loaded
  <2>2. /\ activeChunks' = activeChunks + 1
        /\ Cardinality(chunk2DActive') = Cardinality(chunk2DActive) + 1
    BY <1>9, <2>1 DEF Loaded
  <2>3. activeChunks' \in Nat /\ Counted'
    BY <1>3, <1>4, <2>2 DEF Typed, Counted
  <2>4. mesh' \in [Chunks -> Mesh]
    BY <1>1, <1>8, <1>9, BuiltAt DEF Loaded
  <2> QED BY <1>1, <1>5, <1>9, <2>3, <2>4 DEF Loaded, Typed
<1>10. CASE Renewed(c)
  <2>1. mesh' \in [Chunks -> Mesh]
    BY <1>1, <1>8, <1>10, BuiltAt DEF Renewed
  <2> QED BY <1>4, <1>5, <1>10, <2>1 DEF Renewed, Typed, Counted
<1> QED BY <1>6, <1>7, <1>9, <1>10, UpdateCases

\* After its turn a chunk shows its blocks or has no mesh; the others stay.
LEMMA VisitKept ==
    ASSUME Typed, UpToDate, NoWorld, HeapInv, update
    PROVE  UpToDate' /\ NoWorld' /\ HeapInv'
<1> DEFINE c == currentChunkUpdated
<1>1. /\ screen' = screen /\ faces' = faces /\ stray' = stray
      /\ compressVertices' = compressVertices
      /\ outside' = (outside \/ screen = "outside")
      /\ screen \in {"outside", "game"}
  BY DEF update, settings
<1>2. c \in Chunks /\ faces[c] \in 0..MaxFaces
  BY DEF Typed
<1>3. NoWorld'
  BY <1>1 DEF NoWorld
<1>4. CASE UNCHANGED <<chunk2DActive, chunk2DReset, activeChunks, mesh, lost, twice>>
  BY <1>1, <1>3, <1>4 DEF UpToDate, HeapInv, Careful, Fresh, ShowsItsBlocks, Built
<1>5. CASE Unloaded(c)
  <2>1. /\ \A d \in Chunks : d # c => mesh'[d] = mesh[d]
        /\ mesh'[c].ptr = Released(mesh[c]) /\ mesh'[c].active = FALSE
    BY <1>2, <1>5 DEF Unloaded, NoMesh, Typed
  <2>2. ASSUME ~stray PROVE ~lost' /\ ~twice' /\ \A d \in Chunks : Careful(d)'
    <3>1. ~lost /\ ~twice /\ \A d \in Chunks : Careful(d)
      BY <2>2 DEF HeapInv
    <3>2. ~lost' /\ ~twice'
      BY <1>2, <1>5, <3>1 DEF Unloaded, Careful
    <3>3. ASSUME NEW d \in Chunks PROVE Careful(d)'
      BY <1>1, <1>5, <2>1, <3>1, <3>3 DEF Unloaded, Careful, Released
    <3> QED BY <3>2, <3>3
  <2>3. UpToDate'
    BY <1>1, <1>5, <2>1 DEF Unloaded, UpToDate, Fresh, ShowsItsBlocks, Built, Typed
  <2> QED BY <1>1, <1>3, <2>2, <2>3 DEF HeapInv
<1>6. ASSUME mesh' = [mesh EXCEPT ![c] = Built(faces[c])],
             c \in chunk2DActive' /\ chunk2DActive' = chunk2DActive \cup {c},
             chunk2DReset \ {c} \subseteq chunk2DReset',
             ~stray => ~lost' /\ ~twice'
      PROVE  UpToDate' /\ NoWorld' /\ HeapInv'
  <2>1. /\ \A d \in Chunks : d # c => mesh'[d] = mesh[d]
        /\ mesh'[c] = Built(faces[c])
    BY <1>2, <1>6, BuiltAt
  <2>2. /\ mesh'[c].sizeT = faces[c] /\ mesh'[c].active = TRUE
        /\ mesh'[c].ptr = IF faces[c] = 0 THEN "null" ELSE "live"
    BY <1>2, <2>1, BuiltMeans
  <2>3. ASSUME NEW d \in Chunks, ~stray PROVE Careful(d)'
    <3>1. Careful(d)
      BY <2>3 DEF HeapInv
    <3>2. screen # "game" => faces[c] = 0
      BY <1>1, <1>2 DEF NoWorld
    <3>3. CASE d = c
      BY <1>1, <1>6, <2>2, <3>2, <3>3 DEF Careful
    <3>4. CASE d # c
      BY <1>1, <1>6, <2>1, <2>3, <3>1, <3>4 DEF Careful
    <3> QED BY <3>3, <3>4
  <2>4. UpToDate'
    <3>1. ASSUME NEW d \in chunk2DActive', screen = "game", ~outside PROVE Fresh(d)'
      <4>1. CASE d = c
        BY <1>1, <2>1, <2>2, <4>1 DEF Fresh, ShowsItsBlocks, Built
      <4>2. CASE d # c
        <5>1. d \in chunk2DActive /\ d \in Chunks
          BY <1>6, <3>1, <4>2 DEF Typed
        <5>2. Fresh(d)
          BY <3>1, <5>1 DEF UpToDate
        <5> QED BY <1>1, <1>6, <2>1, <4>2, <5>1, <5>2 DEF Fresh, ShowsItsBlocks, Built
      <4> QED BY <4>1, <4>2
    <3> QED BY <1>1, <3>1 DEF UpToDate
  <2> QED BY <1>1, <1>3, <1>6, <2>3, <2>4 DEF HeapInv
<1>7. CASE Loaded(c)
  <2>1. ~stray => ~lost' /\ ~twice'
    BY <1>2, <1>7 DEF Loaded, HeapInv, Careful
  <2> QED BY <1>6, <1>7, <2>1 DEF Loaded
<1>8. CASE Renewed(c)
  <2>1. ~stray => ~lost' /\ ~twice'
    BY <1>2, <1>8 DEF Renewed, HeapInv, Careful
  <2> QED BY <1>6, <1>8, <2>1 DEF Renewed
<1> QED BY <1>4, <1>5, <1>7, <1>8, UpdateCases

\* The spawn area is loaded: over the empty meshes of no world, if there are
\* any, and into none that has buffers.
LEMMA LoadKept ==
    ASSUME IInv, loadInChunks
    PROVE  IInv'
<1> DEFINE near == InRange(PPos, renderDistance)
           ms == [c \in Chunks |-> IF c \in near THEN Built(faces[c]) ELSE mesh[c]]
<1>1. Typed /\ near \in SUBSET Chunks
  BY DEF IInv, InRange
<1>2. /\ screen = "loading" /\ screen' = "game" /\ PPos' = PPos /\ faces' = faces
      /\ compressVertices' = compressVertices /\ outside' = outside /\ stray' = stray
      /\ currentChunkUpdated' = currentChunkUpdated
  BY DEF loadInChunks, settings, TimerKept
<1>3. /\ mesh' = ms /\ chunk2DActive' = chunk2DActive \cup near /\ chunk2DReset' = chunk2DReset
      /\ activeChunks' = activeChunks + Cardinality(near)
  BY DEF loadInChunks, Set, Meshes
<1>4. twice' = twice /\ lost' = (lost \/ \E c \in near : mesh[c].ptr = "live")
  BY DEF loadInChunks, Set, Meshes, IInv, Typed
<1>5. \A c \in Chunks : faces[c] \in 0..MaxFaces
  BY <1>1 DEF Typed
<1>6. mesh' \in [Chunks -> Mesh]
  BY <1>1, <1>3, <1>5, BuiltTyped DEF Typed
<1>7. \A c \in near : /\ mesh'[c] = Built(faces[c]) /\ mesh'[c].sizeT = faces[c]
                      /\ mesh'[c].active = TRUE
                      /\ mesh'[c].ptr = IF faces[c] = 0 THEN "null" ELSE "live"
  BY <1>1, <1>3, <1>5, BuiltMeans
<1>8. \A c \in Chunks \ near : mesh'[c] = mesh[c]
  BY <1>3
<1>9. /\ IsFiniteSet(near) /\ Cardinality(near) \in Nat
      /\ IsFiniteSet(chunk2DActive) /\ Cardinality(chunk2DActive) \in Nat
  BY <1>1, ChunksFinite, ActiveFinite, FS_Subset, FS_CardinalityType
<1>10. Typed'
  BY <1>1, <1>2, <1>3, <1>4, <1>6, <1>9 DEF Typed
<1>11. Counted'
  <2>1. Cardinality(chunk2DActive \cup near) <= Cardinality(chunk2DActive) + Cardinality(near)
    <3>1. Cardinality(chunk2DActive \cap near) \in Nat
      BY <1>9, FS_Intersection, FS_CardinalityType
    <3>2. Cardinality(chunk2DActive \cup near) =
              Cardinality(chunk2DActive) + Cardinality(near) - Cardinality(chunk2DActive \cap near)
      BY <1>9, FS_Union
    <3> QED BY <1>9, <3>1, <3>2
  <2>2. Cardinality(chunk2DActive \cup near) \in Nat
    BY <1>9, FS_Union, FS_CardinalityType
  <2>3. Cardinality(chunk2DActive') = Cardinality(chunk2DActive \cup near)
    BY <1>3
  <2>4. activeChunks' >= Cardinality(chunk2DActive')
    BY <1>3, <1>9, <2>1, <2>2, <2>3 DEF IInv, Counted, Typed
  <2>5. ASSUME ~outside PROVE activeChunks' = Cardinality(chunk2DActive')
    <3>1. chunk2DActive = {} /\ chunk2DActive \cup near = near
      BY <1>2, <2>5 DEF IInv, UpToDate
    <3>2. activeChunks = 0
      BY <2>5, <3>1, FS_EmptySet DEF IInv, Counted
    <3>3. Cardinality(chunk2DActive') = Cardinality(near)
      BY <2>3, <3>1
    <3> QED BY <1>3, <1>9, <3>2, <3>3
  <2> QED BY <1>2, <2>4, <2>5 DEF Counted
<1>12. UpToDate'
  <2>1. ASSUME NEW c \in near, ~outside PROVE Fresh(c)'
    BY <1>2, <1>7 DEF Fresh, ShowsItsBlocks, Built
  <2>2. ~outside => chunk2DActive = {}
    BY <1>2 DEF IInv, UpToDate
  <2> QED BY <1>2, <1>3, <2>1, <2>2 DEF UpToDate
<1>13. HeapInv'
  <2>1. ASSUME ~stray PROVE ~lost' /\ ~twice' /\ \A c \in Chunks : Careful(c)'
    <3>1. ~lost /\ ~twice /\ \A c \in Chunks : Careful(c)
      BY <2>1 DEF IInv, HeapInv
    <3>2. ~lost' /\ ~twice'
      BY <1>1, <1>2, <1>4, <3>1 DEF Careful
    <3>3. ASSUME NEW c \in near PROVE Careful(c)'
      BY <1>1, <1>2, <1>3, <1>7 DEF Careful
    <3>4. ASSUME NEW c \in Chunks \ near PROVE Careful(c)'
      BY <1>2, <1>3, <1>8, <3>1 DEF Careful
    <3> QED BY <3>2, <3>3, <3>4
  <2> QED BY <1>2, <2>1 DEF HeapInv
<1>14. NoWorld'
  BY <1>2 DEF NoWorld
<1> QED BY <1>10, <1>11, <1>12, <1>13, <1>14 DEF IInv

\* An edit builds the mesh of its chunk anew; if the chunk has none, the
\* buffers are not accounted for any more.
LEMMA EditKept ==
    ASSUME IInv, Edit
    PROVE  IInv'
<1>1. PICK c \in Chunks, n \in 0..MaxFaces :
        /\ faces' = [faces EXCEPT ![c] = n]
        /\ Set(updateChunkV2([Meshes EXCEPT !.faces[c] = n], c))
        /\ stray' = (stray \/ c \notin chunk2DActive)
  BY DEF Edit
<1>2. /\ screen = "game" /\ screen' = "game" /\ PPos' = PPos
      /\ compressVertices' = compressVertices /\ outside' = outside
      /\ currentChunkUpdated' = currentChunkUpdated
  BY DEF Edit, settings, TimerKept
<1>3. Typed
  BY DEF IInv
<1> DEFINE s == [Meshes EXCEPT !.faces[c] = n]
           u == updateChunkV2(s, c)
<1>4. u.active = chunk2DActive /\ u.reset = chunk2DReset /\ u.count = activeChunks
  BY DEF updateChunkV2, generateChunkV2, Free, Meshes
<1>5. u.mesh = [mesh EXCEPT ![c] = Built(n)]
  <2>1. s.faces[c] = n
    BY <1>3 DEF Meshes, Typed
  <2>2. u.mesh = [Free(s, c).mesh EXCEPT ![c] = Built(Free(s, c).faces[c])]
    BY DEF updateChunkV2, generateChunkV2, Free, Meshes
  <2>3. Free(s, c).faces = s.faces
    BY DEF Free, Meshes
  <2>4. Free(s, c).mesh = [mesh EXCEPT ![c].ptr = Released(mesh[c])]
    BY DEF Free, Meshes, Released
  <2> QED BY <1>3, <2>1, <2>2, <2>3, <2>4 DEF Typed
<1>6. u.twice = (twice \/ mesh[c].ptr = "freed")
  BY <1>3 DEF updateChunkV2, generateChunkV2, Free, Meshes, Typed
<1>7. u.lost = lost
  <2>1. Free(s, c).mesh[c].ptr # "live"
    <3>1. mesh[c] \in Mesh
      BY <1>3 DEF Typed
    <3>2. [mesh EXCEPT ![c].ptr = Released(mesh[c])][c].ptr # "live"
      BY <1>3, <3>1 DEF Typed, Mesh, Released
    <3>3. Free(s, c).mesh = [mesh EXCEPT ![c].ptr = Released(mesh[c])]
      BY DEF Free, Meshes, Released
    <3> QED BY <3>2, <3>3
  <2>2. u.lost = (Free(s, c).lost \/ Free(s, c).mesh[c].ptr = "live")
    BY DEF updateChunkV2, generateChunkV2, Free, Meshes
  <2>3. Free(s, c).lost = lost
    BY DEF Free, Meshes
  <2> QED BY <1>3, <2>1, <2>2, <2>3 DEF Typed
<1>8. /\ chunk2DActive' = chunk2DActive /\ chunk2DReset' = chunk2DReset
      /\ activeChunks' = activeChunks
      /\ mesh' = [mesh EXCEPT ![c] = Built(n)]
      /\ lost' = lost /\ twice' = (twice \/ mesh[c].ptr = "freed")
  BY <1>1, <1>4, <1>5, <1>6, <1>7 DEF Set
<1>9. /\ mesh' \in [Chunks -> Mesh] /\ mesh'[c] = Built(n)
      /\ \A d \in Chunks : d # c => mesh'[d] = mesh[d]
      /\ mesh'[c].sizeT = n /\ mesh'[c].active = TRUE
      /\ mesh'[c].ptr = IF n = 0 THEN "null" ELSE "live"
  BY <1>3, <1>8, BuiltAt, BuiltMeans
<1>10. faces' \in [Chunks -> 0..MaxFaces] /\ faces'[c] = n
       /\ \A d \in Chunks : d # c => faces'[d] = faces[d]
  BY <1>1, <1>3 DEF Typed
<1>11. Typed'
  BY <1>1, <1>2, <1>3, <1>8, <1>9, <1>10 DEF Typed
<1>12. Counted' /\ NoWorld'
  BY <1>2, <1>8 DEF IInv, Counted, NoWorld
<1>13. UpToDate'
  <2>1. ASSUME NEW d \in chunk2DActive, ~outside PROVE Fresh(d)'
    <3>1. CASE d = c
      BY <1>2, <1>9, <1>10, <3>1 DEF Fresh, ShowsItsBlocks, Built
    <3>2. CASE d # c
      <4>1. Fresh(d) /\ d \in Chunks
        BY <1>2, <2>1 DEF IInv, UpToDate, Typed
      <4> QED BY <1>2, <1>8, <1>9, <1>10, <3>2, <4>1 DEF Fresh, ShowsItsBlocks, Built
    <3> QED BY <3>1, <3>2
  <2> QED BY <1>2, <1>8, <2>1 DEF UpToDate
<1>14. HeapInv'
  <2>1. ASSUME ~stray' PROVE ~lost' /\ ~twice' /\ \A d \in Chunks : Careful(d)'
    <3>1. c \in chunk2DActive /\ ~lost /\ ~twice /\ \A d \in Chunks : Careful(d)
      BY <1>1, <2>1 DEF IInv, HeapInv
    <3>2. ~lost' /\ ~twice'
      BY <1>8, <3>1 DEF Careful
    <3>3. ASSUME NEW d \in Chunks PROVE Careful(d)'
      <4>1. CASE d = c
        BY <1>2, <1>8, <1>9, <3>1, <4>1 DEF Careful
      <4>2. CASE d # c
        BY <1>2, <1>8, <1>9, <3>1, <4>2 DEF Careful
      <4> QED BY <4>1, <4>2
    <3> QED BY <3>2, <3>3
  <2> QED BY <2>1 DEF HeapInv
<1> QED BY <1>11, <1>12, <1>13, <1>14 DEF IInv

\* A world is left without meshes, and no buffer of it is live.
LEMMA LeaveKept ==
    ASSUME IInv, LeaveWorld
    PROVE  IInv'
<1>1. Typed
  BY DEF IInv
<1>2. /\ screen' = "menu" /\ outside' = FALSE /\ chunk2DActive' = {} /\ activeChunks' = 0
      /\ faces' = [c \in Chunks |-> 0] /\ lost' = lost /\ chunk2DReset' = chunk2DReset
      /\ PPos' = PPos /\ compressVertices' = compressVertices /\ stray' = stray
      /\ currentChunkUpdated' = currentChunkUpdated
      /\ twice' = (twice \/ \E c \in chunk2DActive : mesh[c].ptr = "freed")
  BY DEF LeaveWorld, settings, TimerKept
<1>3. \A c \in Chunks : mesh'[c] = IF c \notin chunk2DActive THEN mesh[c]
                                  ELSE [NoMesh EXCEPT !.ptr = Released(mesh[c])]
  <2>1. ASSUME NEW c \in Chunks PROVE Free(Meshes, c).mesh[c].ptr = Released(mesh[c])
    <3>1. mesh[c] \in Mesh
      BY <1>1 DEF Typed
    <3>2. [mesh EXCEPT ![c].ptr = Released(mesh[c])][c].ptr = Released(mesh[c])
      BY <1>1, <3>1 DEF Typed, Mesh
    <3> QED BY <1>1, <3>2, FreeFields
  <2> QED BY <2>1 DEF LeaveWorld
<1>4. \A c \in Chunks : [NoMesh EXCEPT !.ptr = Released(mesh[c])] \in Mesh
  <2> SUFFICES ASSUME NEW c \in Chunks PROVE [NoMesh EXCEPT !.ptr = Released(mesh[c])] \in Mesh
    OBVIOUS
  <2>1. mesh[c] \in Mesh /\ 0 \in 0..(4 * MaxFaces) /\ 0 \in 0..MaxFaces
    BY <1>1, ChunksAssumption DEF Typed
  <2>2. Released(mesh[c]) \in {"null", "live", "freed"}
    BY <2>1 DEF Released, Mesh
  <2> QED BY <2>1, <2>2 DEF NoMesh, Mesh
<1>5. mesh' \in [Chunks -> Mesh]
  <2>1. \A c \in Chunks : mesh'[c] \in Mesh
    BY <1>1, <1>3, <1>4 DEF Typed
  <2>2. mesh' = [c \in Chunks |-> mesh'[c]]
    BY DEF LeaveWorld
  <2> QED BY <2>1, <2>2
<1>6. faces' \in [Chunks -> 0..MaxFaces]
  BY <1>2, ChunksAssumption
<1>7. Typed'
  BY <1>1, <1>2, <1>5, <1>6 DEF Typed
<1>8. Counted' /\ UpToDate'
  BY <1>2, FS_EmptySet DEF Counted, UpToDate
<1>9. NoWorld'
  BY <1>2 DEF NoWorld
<1>10. HeapInv'
  <2>1. ASSUME ~stray PROVE ~lost' /\ ~twice' /\ \A c \in Chunks : Careful(c)'
    <3>1. ~lost /\ ~twice /\ \A c \in Chunks : Careful(c)
      BY <2>1 DEF IInv, HeapInv
    <3>2. ~lost' /\ ~twice'
      BY <1>1, <1>2, <3>1 DEF Careful, Typed
    <3>3. ASSUME NEW c \in Chunks PROVE Careful(c)'
      <4>1. CASE c \in chunk2DActive
        <5>1. mesh'[c].active = FALSE /\ mesh'[c].ptr = Released(mesh[c])
          BY <1>3, <4>1 DEF NoMesh
        <5> QED BY <1>2, <5>1 DEF Careful, Released
      <4>2. CASE c \notin chunk2DActive
        BY <1>2, <1>3, <3>1, <4>2 DEF Careful
      <4> QED BY <4>1, <4>2
    <3> QED BY <3>2, <3>3
  <2> QED BY <1>2, <2>1 DEF HeapInv
<1> QED BY <1>7, <1>8, <1>9, <1>10 DEF IInv

LEMMA QuietKept ==
    ASSUME IInv, Quiet \/ UNCHANGED vars
    PROVE  IInv'
<1>1. Typed
  BY DEF IInv
<1>2. /\ UNCHANGED <<chunk2DActive, activeChunks, mesh, lost, twice, stray, outside,
                     currentChunkUpdated>>
      /\ chunk2DReset \subseteq chunk2DReset'
  BY DEF Quiet, EnterWorld, GoOutside, ComeBack, Walk, SetDistance, ToggleLoading,
         ToggleCompress, MobMade, MobGone, MeshesKept, TimerKept, vars
<1>3. Typed'
  <2>1. PPos' \in Chunks /\ compressVertices' \in BOOLEAN /\ chunk2DReset' \in SUBSET Chunks
        /\ screen' \in {"menu", "loading", "outside", "game"}
    BY <1>1 DEF Typed, Quiet, EnterWorld, GoOutside, ComeBack, Walk, SetDistance, ToggleLoading,
         ToggleCompress, MobMade, MobGone, MeshesKept, TimerKept, settings, vars
  <2>2. faces' \in [Chunks -> 0..MaxFaces]
    <3>1. CASE EnterWorld
      BY <3>1, ChunksAssumption DEF EnterWorld
    <3>2. CASE ~EnterWorld
      BY <1>1, <3>2 DEF Typed, Quiet, GoOutside, ComeBack, Walk, SetDistance, ToggleLoading,
         ToggleCompress, MobMade, MobGone, vars
    <3> QED BY <3>1, <3>2
  <2> QED BY <1>1, <1>2, <2>1, <2>2 DEF Typed
<1>4. Counted'
  BY <1>2 DEF IInv, Counted
<1>5. screen' = "game" <=> screen = "game"
  BY <1>1 DEF Typed, Quiet, EnterWorld, GoOutside, ComeBack, Walk, SetDistance, ToggleLoading,
         ToggleCompress, MobMade, MobGone, settings, vars
<1>6. HeapInv'
  BY <1>2, <1>5 DEF IInv, HeapInv, Careful
<1>7. NoWorld'
  BY <1>1 DEF IInv, NoWorld, Typed, Quiet, EnterWorld, GoOutside, ComeBack, Walk, SetDistance,
         ToggleLoading, ToggleCompress, MobMade, MobGone, vars
<1>8. UpToDate'
  <2>1. CASE screen # "game"
    BY <1>2, <1>5, <2>1 DEF IInv, UpToDate
  <2>2. CASE screen = "game" /\ ToggleCompress
    <3>1. chunk2DActive' \subseteq chunk2DReset'
      BY <1>2, <2>2 DEF ToggleCompress
    <3> QED BY <1>5, <2>2, <3>1 DEF UpToDate, Fresh
  <2>3. CASE screen = "game" /\ ~ToggleCompress
    <3>1. faces' = faces /\ compressVertices' = compressVertices
      BY <2>3 DEF Quiet, EnterWorld, GoOutside, ComeBack, Walk, SetDistance, ToggleLoading,
         MobMade, MobGone, settings, vars
    <3> QED BY <1>2, <1>5, <2>3, <3>1 DEF IInv, UpToDate, Fresh, ShowsItsBlocks, Built
  <2> QED BY <2>1, <2>2, <2>3
<1> QED BY <1>3, <1>4, <1>6, <1>7, <1>8 DEF IInv

LEMMA InvariantInit == Init => IInv
<1> SUFFICES ASSUME Init PROVE IInv
  OBVIOUS
<1>1. NoMesh \in Mesh /\ 0 \in 0..MaxFaces
  <2>1. 0 \in 0..(4 * MaxFaces) /\ 0 \in 0..MaxFaces
    BY ChunksAssumption
  <2> QED BY <2>1 DEF NoMesh, Mesh
<1>2. Typed
  BY <1>1, ChunksFinite DEF Init, Typed
<1>3. Counted
  BY FS_EmptySet DEF Init, Counted
<1>4. \A c \in Chunks : Careful(c)
  BY DEF Init, Careful, NoMesh
<1> QED BY <1>2, <1>3, <1>4 DEF Init, IInv, UpToDate, NoWorld, HeapInv

LEMMA InvariantStep ==
    ASSUME IInv, [Next]_vars
    PROVE  IInv'
<1>1. CASE update
  BY <1>1, VisitTyped, VisitKept DEF IInv
<1>2. CASE loadInChunks
  BY <1>2, LoadKept
<1>3. CASE Edit
  BY <1>3, EditKept
<1>4. CASE LeaveWorld
  BY <1>4, LeaveKept
<1>5. CASE Quiet \/ UNCHANGED vars
  BY <1>5, QuietKept
<1> QED BY <1>1, <1>2, <1>3, <1>4, <1>5 DEF Next, Quiet

LEMMA InvariantMeans ==
    ASSUME IInv
    PROVE  HeapCareful /\ ActiveChunksCounted
<1>1. ASSUME ~stray, NEW c \in Chunks
      PROVE  /\ ~lost /\ ~twice
             /\ mesh[c].active <=> c \in chunk2DActive
             /\ mesh[c].ptr = "live" <=> c \in chunk2DActive /\ mesh[c].sizeT > 0
  <2>1. ~lost /\ ~twice /\ Careful(c)
    BY <1>1 DEF IInv, HeapInv
  <2>2. mesh[c].sizeT \in Nat
    <3>1. mesh[c] \in Mesh
      BY DEF IInv, Typed
    <3> QED BY <3>1, ChunksAssumption DEF Mesh
  <2> QED BY <2>1, <2>2 DEF Careful
<1> QED BY <1>1, ChunksFinite DEF HeapCareful, IInv, Counted, ActiveChunksCounted

(***************************************************************************)
(* The counters of vertices and triangles.                                 *)
(***************************************************************************)

Settled ==
    /\ renderDistance \in 0..MaxDistance /\ stopChunkLoading \in BOOLEAN
    /\ mobs \in Nat /\ changes \in 0..MaxChanges
CountersTyped == verticesLength \in Int /\ triangleLength \in Int

CountersInv == IInv /\ Settled /\ CountersTyped /\ SumOfCounters

LEMMA SumsInt ==
    ASSUME NEW ms \in [Chunks -> Mesh]
    PROVE  Vertices(ms) \in Int /\ Triangles(ms) \in Int
<1> DEFINE v == [c \in Chunks |-> IF ms[c].active THEN ms[c].sizeV ELSE 0]
           t == [c \in Chunks |-> IF ms[c].active THEN ms[c].sizeT ELSE 0]
<1>1. \A c \in Chunks : v[c] \in Int /\ t[c] \in Int
  <2> SUFFICES ASSUME NEW c \in Chunks PROVE v[c] \in Int /\ t[c] \in Int
    OBVIOUS
  <2>1. ms[c] \in Mesh
    OBVIOUS
  <2> QED BY <2>1, ChunksAssumption DEF Mesh
<1>2. DOMAIN v = Chunks /\ DOMAIN t = Chunks
  OBVIOUS
<1>3. Vertices(ms) = SumFunctionOnSet(v, Chunks) /\ Triangles(ms) = SumFunctionOnSet(t, Chunks)
  BY <1>2 DEF Vertices, Triangles, SumFunction
<1> HIDE DEF v, t
<1> QED BY <1>1, <1>3, ChunksFinite, SumIsInt

\* No mesh, nothing counted.
LEMMA SumsOfNone ==
    ASSUME NEW ms, \A c \in Chunks : ms[c].active = FALSE
    PROVE  Vertices(ms) = 0 /\ Triangles(ms) = 0
<1> DEFINE v == [c \in Chunks |-> IF ms[c].active THEN ms[c].sizeV ELSE 0]
           t == [c \in Chunks |-> IF ms[c].active THEN ms[c].sizeT ELSE 0]
<1>1. /\ \A c \in Chunks : v[c] = 0 /\ t[c] = 0
      /\ DOMAIN v = Chunks /\ DOMAIN t = Chunks
  OBVIOUS
<1>2. Vertices(ms) = SumFunctionOnSet(v, Chunks) /\ Triangles(ms) = SumFunctionOnSet(t, Chunks)
  BY <1>1 DEF Vertices, Triangles, SumFunction
<1> HIDE DEF v, t
<1> QED BY <1>1, <1>2, ChunksFinite, SumZero

\* One mesh goes.
LEMMA SumsWithout ==
    ASSUME NEW ms \in [Chunks -> Mesh], NEW ns \in [Chunks -> Mesh], NEW c \in Chunks,
           ms[c].active = TRUE, ns[c].active = FALSE,
           \A d \in Chunks : d # c => ns[d] = ms[d]
    PROVE  /\ Vertices(ns) = Vertices(ms) - ms[c].sizeV
           /\ Triangles(ns) = Triangles(ms) - ms[c].sizeT
<1> DEFINE v == [d \in Chunks |-> IF ms[d].active THEN ms[d].sizeV ELSE 0]
           t == [d \in Chunks |-> IF ms[d].active THEN ms[d].sizeT ELSE 0]
           w == [d \in Chunks |-> IF ns[d].active THEN ns[d].sizeV ELSE 0]
           u == [d \in Chunks |-> IF ns[d].active THEN ns[d].sizeT ELSE 0]
<1>1. \A d \in Chunks : v[d] \in Int /\ t[d] \in Int /\ w[d] \in Int /\ u[d] \in Int
  <2> SUFFICES ASSUME NEW d \in Chunks
               PROVE  v[d] \in Int /\ t[d] \in Int /\ w[d] \in Int /\ u[d] \in Int
    OBVIOUS
  <2>1. ms[d] \in Mesh /\ ns[d] \in Mesh
    OBVIOUS
  <2> QED BY <2>1, ChunksAssumption DEF Mesh
<1>2. /\ \A d \in Chunks \ {c} : v[d] = w[d] /\ t[d] = u[d]
      /\ v[c] = ms[c].sizeV /\ t[c] = ms[c].sizeT /\ w[c] = 0 /\ u[c] = 0
      /\ DOMAIN v = Chunks /\ DOMAIN t = Chunks /\ DOMAIN w = Chunks /\ DOMAIN u = Chunks
  OBVIOUS
<1>3. /\ Vertices(ms) = SumFunctionOnSet(v, Chunks) /\ Triangles(ms) = SumFunctionOnSet(t, Chunks)
      /\ Vertices(ns) = SumFunctionOnSet(w, Chunks) /\ Triangles(ns) = SumFunctionOnSet(u, Chunks)
  BY <1>2 DEF Vertices, Triangles, SumFunction
<1> HIDE DEF v, t, w, u
<1>4. /\ SumFunctionOnSet(w, Chunks) = SumFunctionOnSet(v, Chunks) - v[c] + w[c]
      /\ SumFunctionOnSet(u, Chunks) = SumFunctionOnSet(t, Chunks) - t[c] + u[c]
  BY <1>1, <1>2, ChunksFinite, SumChanged
<1>5. Vertices(ms) \in Int /\ Triangles(ms) \in Int
  BY SumsInt
<1> QED BY <1>1, <1>2, <1>3, <1>4, <1>5

\* What a step that adds the counters up anew, or leaves them, makes of them.
LEMMA AddedUpAnew ==
    ASSUME mobs' \in Nat, mesh' \in [Chunks -> Mesh],
           verticesLength' = mobs' * MobV + Vertices(mesh'),
           triangleLength' = mobs' * MobT + Triangles(mesh')
    PROVE  CountersTyped' /\ SumOfCounters'
<1>1. Vertices(mesh') \in Int /\ Triangles(mesh') \in Int
  BY SumsInt
<1> QED BY <1>1 DEF CountersTyped, SumOfCounters, TotalV, TotalT, MobV, MobT

LEMMA SumOfBoth ==
    ASSUME mobs \in Nat, mesh \in [Chunks -> Mesh]
    PROVE  /\ Vertices(mesh) \in Int /\ Triangles(mesh) \in Int
           /\ TotalV(mesh) + TotalT(mesh) = 3 * mobs + Vertices(mesh) + Triangles(mesh)
  BY SumsInt DEF TotalV, TotalT, MobV, MobT

\* The counters after the turn of a chunk.
LEMMA VisitCounters ==
    ASSUME Typed, update
    PROVE  LET c == currentChunkUpdated IN
           \/ UNCHANGED <<mesh, verticesLength, triangleLength>>
           \/ /\ Unloaded(c)
              /\ verticesLength' = verticesLength - mesh[c].sizeT
              /\ triangleLength' = triangleLength - mesh[c].sizeV
           \/ verticesLength' = TotalV(mesh') /\ triangleLength' = TotalT(mesh')
<1> DEFINE c == currentChunkUpdated
           inRange == Distance(c, PPos) <= renderDistance
           un == Unload(Meshes, c)
<1>1. Set(Visit(Meshes, c)) /\ c \in Chunks
  BY DEF update, Typed
<1>2. CASE ~((~inRange \/ c \in chunk2DReset) /\ c \in chunk2DActive) /\ ~(inRange /\ c \notin chunk2DActive)
  <2>1. Visit(Meshes, c) = Meshes
    BY <1>2 DEF Visit, Meshes
  <2> QED BY <1>1, <2>1 DEF Set, Meshes
<1>3. CASE ~((~inRange \/ c \in chunk2DReset) /\ c \in chunk2DActive) /\ inRange /\ c \notin chunk2DActive
  <2>1. Visit(Meshes, c) = Load(Meshes, c)
    BY <1>3 DEF Visit, Meshes
  <2> DEFINE ms == [mesh EXCEPT ![c] = Built(faces[c])]
  <2>2. Load(Meshes, c).v = TotalV(ms)
    BY DEF Load, generateChunkV2, Meshes
  <2>3. Load(Meshes, c).t = TotalT(ms)
    BY DEF Load, generateChunkV2, Meshes
  <2>4. Load(Meshes, c).mesh = ms
    BY DEF Load, generateChunkV2, Meshes
  <2>5. verticesLength' = TotalV(mesh') /\ triangleLength' = TotalT(mesh')
    BY <1>1, <2>1, <2>2, <2>3, <2>4 DEF Set
  <2> QED BY <2>5
<1>4. CASE (~inRange \/ c \in chunk2DReset) /\ c \in chunk2DActive /\ ~inRange
  <2>1. Visit(Meshes, c) = un
    BY <1>4 DEF Visit, Meshes
  <2>2. un.v = verticesLength - mesh[c].sizeT /\ un.t = triangleLength - mesh[c].sizeV
    BY DEF Unload, Free, Meshes
  <2>3. /\ un.active = chunk2DActive \ {c} /\ un.reset = chunk2DReset \ {c}
        /\ un.count = activeChunks - 1 /\ un.lost = lost
        /\ un.mesh = [mesh EXCEPT ![c] = [NoMesh EXCEPT !.ptr = Released(mesh[c])]]
        /\ un.twice = (twice \/ mesh[c].ptr = "freed")
    BY <1>1, UnloadFields
  <2>4. /\ chunk2DActive' = un.active /\ chunk2DReset' = un.reset /\ activeChunks' = un.count
        /\ mesh' = un.mesh /\ lost' = un.lost /\ twice' = un.twice
        /\ verticesLength' = un.v /\ triangleLength' = un.t
    BY <1>1, <2>1 DEF Set
  <2>5. Unloaded(c)
    BY <1>4, <2>3, <2>4 DEF Unloaded
  <2> QED BY <2>2, <2>4, <2>5
<1>5. CASE (~inRange \/ c \in chunk2DReset) /\ c \in chunk2DActive /\ inRange
  <2>1. c \notin un.active
    BY <1>1, UnloadFields
  <2>2. Visit(Meshes, c) = Load(un, c)
    BY <1>5, <2>1 DEF Visit, Meshes
  <2>3. /\ Load(un, c).v = TotalV(Load(un, c).mesh) /\ Load(un, c).t = TotalT(Load(un, c).mesh)
    <3> DEFINE ms == [un.mesh EXCEPT ![c] = Built(un.faces[c])]
               made == generateChunkV2(un, c)
    <3>1. made.v = TotalV(ms) /\ made.t = TotalT(ms) /\ made.mesh = ms
      BY DEF generateChunkV2, Unload, Free, Meshes
    <3>2. /\ Load(un, c).v = made.v /\ Load(un, c).t = made.t /\ Load(un, c).mesh = made.mesh
      <4>1. Load(un, c).v = made.v
        BY DEF Load, generateChunkV2, Unload, Free, Meshes
      <4>2. Load(un, c).t = made.t
        BY DEF Load, generateChunkV2, Unload, Free, Meshes
      <4>3. Load(un, c).mesh = made.mesh
        BY DEF Load, generateChunkV2, Unload, Free, Meshes
      <4> QED BY <4>1, <4>2, <4>3
    <3> QED BY <3>1, <3>2
  <2>4. /\ verticesLength' = TotalV(mesh') /\ triangleLength' = TotalT(mesh')
    BY <1>1, <2>2, <2>3 DEF Set
  <2> QED BY <2>4
<1> QED BY <1>2, <1>3, <1>4, <1>5

LEMMA CountersInit == Init => CountersInv
<1> SUFFICES ASSUME Init PROVE CountersInv
  OBVIOUS
<1>1. IInv
  BY InvariantInit
<1>2. Settled
  <2>1. changes = 0 /\ 0 \in 0..MaxChanges
    BY ChunksAssumption DEF Init
  <2> QED BY <2>1 DEF Init, Settled
<1>3. \A c \in Chunks : mesh[c].active = FALSE
  BY DEF Init, NoMesh
<1>4. Vertices(mesh) = 0 /\ Triangles(mesh) = 0
  BY <1>3, SumsOfNone
<1>5. mobs = 0 /\ verticesLength = 0 /\ triangleLength = 0
  BY DEF Init
<1>6. CountersTyped /\ SumOfCounters
  BY <1>4, <1>5 DEF CountersTyped, SumOfCounters, TotalV, TotalT, MobV, MobT
<1> QED BY <1>1, <1>2, <1>6 DEF CountersInv

LEMMA SettledKept ==
    ASSUME Settled, [Next]_vars
    PROVE  Settled'
<1>1. mobs' \in Nat
  <2>1. CASE MobMade
    BY <2>1 DEF MobMade, Settled
  <2>2. CASE MobGone
    BY <2>2 DEF MobGone, Settled
  <2>3. CASE LeaveWorld
    BY <2>3 DEF LeaveWorld
  <2>4. CASE ~MobMade /\ ~MobGone /\ ~LeaveWorld
    BY <2>4 DEF Settled, Next, update, EnterWorld, loadInChunks, GoOutside, ComeBack, Walk,
       SetDistance, ToggleLoading, ToggleCompress, Edit, vars
  <2> QED BY <2>1, <2>2, <2>3, <2>4
<1>2. changes' = changes \/ Change
  BY DEF Next, update, EnterWorld, loadInChunks, LeaveWorld, GoOutside, ComeBack, Walk,
       SetDistance, ToggleLoading, ToggleCompress, Edit, MobMade, MobGone, vars
<1>3. changes' \in 0..MaxChanges
  BY <1>2, ChunksAssumption DEF Change, Settled
<1>4. renderDistance' \in 0..MaxDistance /\ stopChunkLoading' \in BOOLEAN
  BY DEF Settled, Next, update, EnterWorld, loadInChunks, LeaveWorld, GoOutside, ComeBack, Walk,
       SetDistance, ToggleLoading, ToggleCompress, Edit, MobMade, MobGone, settings, vars
<1> QED BY <1>1, <1>3, <1>4 DEF Settled

LEMMA CountersStep ==
    ASSUME CountersInv, [Next]_vars
    PROVE  CountersInv'
<1>1. IInv' /\ Settled'
  BY InvariantStep, SettledKept DEF CountersInv
<1>2. /\ Typed /\ mesh \in [Chunks -> Mesh] /\ mesh' \in [Chunks -> Mesh]
      /\ mobs \in Nat /\ mobs' \in Nat
      /\ verticesLength \in Int /\ triangleLength \in Int
  BY <1>1 DEF CountersInv, IInv, Typed, Settled, CountersTyped
<1>3. /\ Vertices(mesh) \in Int /\ Triangles(mesh) \in Int
      /\ TotalV(mesh) + TotalT(mesh) = 3 * mobs + Vertices(mesh) + Triangles(mesh)
  BY <1>2, SumOfBoth
<1>4. ASSUME verticesLength' = mobs' * MobV + Vertices(mesh'),
             triangleLength' = mobs' * MobT + Triangles(mesh')
      PROVE  CountersTyped' /\ SumOfCounters'
  BY <1>2, <1>4, AddedUpAnew
<1>5. ASSUME update
      PROVE  CountersTyped' /\ SumOfCounters'
  <2> DEFINE c == currentChunkUpdated
  <2>1. mobs' = mobs /\ stray' = stray /\ c \in Chunks
    BY <1>2, <1>5 DEF update, Typed
  <2>2. CASE UNCHANGED <<mesh, verticesLength, triangleLength>>
    BY <1>2, <2>1, <2>2 DEF CountersInv, CountersTyped, SumOfCounters, TotalV, TotalT
  <2>3. CASE verticesLength' = TotalV(mesh') /\ triangleLength' = TotalT(mesh')
    BY <1>4, <2>1, <2>3 DEF TotalV, TotalT
  <2>4. CASE /\ Unloaded(c)
             /\ verticesLength' = verticesLength - mesh[c].sizeT
             /\ triangleLength' = triangleLength - mesh[c].sizeV
    <3>1. mesh[c].sizeV \in Int /\ mesh[c].sizeT \in Int
      <4>1. mesh[c] \in Mesh
        BY <1>2, <2>1
      <4> QED BY <4>1, ChunksAssumption DEF Mesh
    <3>2. CountersTyped'
      BY <1>2, <2>4, <3>1 DEF CountersTyped
    <3>3. ASSUME ~stray
          PROVE  verticesLength' + triangleLength' = 3 * mobs + Vertices(mesh') + Triangles(mesh')
      <4>1. verticesLength + triangleLength = TotalV(mesh) + TotalT(mesh)
        BY <3>3 DEF CountersInv, SumOfCounters
      <4>2. mesh[c].active = TRUE
        BY <1>2, <2>1, <2>4, <3>3 DEF CountersInv, IInv, HeapInv, Careful, Unloaded, Mesh
      <4>3. mesh'[c].active = FALSE /\ \A d \in Chunks : d # c => mesh'[d] = mesh[d]
        BY <1>2, <2>1, <2>4 DEF Unloaded, NoMesh
      <4>4. /\ Vertices(mesh') = Vertices(mesh) - mesh[c].sizeV
            /\ Triangles(mesh') = Triangles(mesh) - mesh[c].sizeT
        <5> HIDE DEF c
        <5> QED BY <1>2, <2>1, <4>2, <4>3, SumsWithout
      <4>5. verticesLength + triangleLength = 3 * mobs + Vertices(mesh) + Triangles(mesh)
        BY <1>3, <4>1
      <4>6. verticesLength' + triangleLength'
            = (verticesLength + triangleLength) - (mesh[c].sizeV + mesh[c].sizeT)
        BY <1>2, <2>4, <3>1
      <4> HIDE DEF c
      <4> QED BY <1>2, <1>3, <3>1, <4>4, <4>5, <4>6
    <3>4. /\ Vertices(mesh') \in Int /\ Triangles(mesh') \in Int
          /\ TotalV(mesh)' + TotalT(mesh)' = 3 * mobs' + Vertices(mesh') + Triangles(mesh')
      BY <1>2, SumsInt DEF TotalV, TotalT, MobV, MobT
    <3> QED BY <2>1, <3>2, <3>3, <3>4 DEF SumOfCounters
  <2> QED BY <1>2, <1>5, <2>2, <2>3, <2>4, VisitCounters
<1>6. ASSUME loadInChunks
      PROVE  CountersTyped' /\ SumOfCounters'
  <2>1. mobs' = mobs /\ verticesLength' = TotalV(mesh') /\ triangleLength' = TotalT(mesh')
    BY <1>6 DEF loadInChunks, Set, Meshes
  <2> QED BY <1>4, <2>1 DEF TotalV, TotalT
<1>7. ASSUME Edit
      PROVE  CountersTyped' /\ SumOfCounters'
  <2>1. PICK c \in Chunks, n \in 0..MaxFaces :
            Set(updateChunkV2([Meshes EXCEPT !.faces[c] = n], c))
    BY <1>7 DEF Edit
  <2> DEFINE u == updateChunkV2([Meshes EXCEPT !.faces[c] = n], c)
  <2>2. u.v = TotalV(u.mesh)
    BY DEF updateChunkV2, generateChunkV2, Free, Meshes
  <2>3. u.t = TotalT(u.mesh)
    BY DEF updateChunkV2, generateChunkV2, Free, Meshes
  <2>4. mobs' = mobs /\ verticesLength' = TotalV(mesh') /\ triangleLength' = TotalT(mesh')
    BY <1>7, <2>1, <2>2, <2>3 DEF Edit, Set
  <2> QED BY <1>4, <2>4 DEF TotalV, TotalT
<1>8. ASSUME LeaveWorld
      PROVE  CountersTyped' /\ SumOfCounters'
  <2>1. mobs' = 0 /\ verticesLength' = 0 /\ triangleLength' = 0 /\ stray' = stray
    BY <1>8 DEF LeaveWorld
  <2>2. ASSUME ~stray PROVE \A c \in Chunks : mesh'[c].active = FALSE
    <3>1. chunk2DActive' = {} /\ \A c \in Chunks : Careful(c)'
      BY <1>1, <1>8, <2>1, <2>2 DEF LeaveWorld, IInv, HeapInv
    <3> QED BY <1>2, <3>1 DEF Careful, Mesh
  <2>3. ASSUME ~stray PROVE Vertices(mesh') = 0 /\ Triangles(mesh') = 0
    BY <2>2, <2>3, SumsOfNone
  <2> QED BY <2>1, <2>3 DEF CountersTyped, SumOfCounters, TotalV, TotalT, MobV, MobT
<1>9. ASSUME MobMade
      PROVE  CountersTyped' /\ SumOfCounters'
  <2>1. mobs' = mobs + 1 /\ mesh' = mesh /\ stray' = stray
    BY <1>9 DEF MobMade
  <2>2. CASE verticesLength' = verticesLength + MobV /\ triangleLength' = triangleLength + MobT
    BY <1>2, <1>3, <2>1, <2>2
       DEF CountersInv, CountersTyped, SumOfCounters, TotalV, TotalT, MobV, MobT
  <2>3. CASE verticesLength' = TotalV(mesh) + MobV /\ triangleLength' = TotalT(mesh) + MobT
    BY <1>2, <1>3, <1>4, <2>1, <2>3 DEF TotalV, TotalT, MobV, MobT
  <2> QED BY <1>9, <2>2, <2>3 DEF MobMade
<1>10. ASSUME MobGone
      PROVE  CountersTyped' /\ SumOfCounters'
  <2>1. /\ mobs' = mobs - 1 /\ mesh' = mesh /\ stray' = stray
        /\ verticesLength' = verticesLength - MobV /\ triangleLength' = triangleLength - MobT
    BY <1>10 DEF MobGone
  <2> QED BY <1>2, <1>3, <2>1
      DEF CountersInv, CountersTyped, SumOfCounters, TotalV, TotalT, MobV, MobT
<1>11. ASSUME \/ EnterWorld \/ GoOutside \/ ComeBack \/ Walk \/ SetDistance
             \/ ToggleLoading \/ ToggleCompress \/ UNCHANGED vars
      PROVE  CountersTyped' /\ SumOfCounters'
  <2>1. UNCHANGED <<mobs, mesh, stray, verticesLength, triangleLength>>
    BY <1>11 DEF EnterWorld, GoOutside, ComeBack, Walk, SetDistance, ToggleLoading,
       ToggleCompress, MeshesKept, vars
  <2> QED BY <2>1 DEF CountersInv, CountersTyped, SumOfCounters, TotalV, TotalT
<1>12. CountersTyped' /\ SumOfCounters'
  BY <1>5, <1>6, <1>7, <1>8, <1>9, <1>10, <1>11 DEF Next
<1> QED BY <1>1, <1>12 DEF CountersInv

(***************************************************************************)
(* The theorems.                                                           *)
(***************************************************************************)

\* Whatever the player walked, edited and set, a mesh of a world shows its
\* blocks in the form of the settings or waits for the next pass, for every
\* size of the map and every distance.
THEOREM StaleCorrect == Spec => []StaleOnlyIfMarked
<1>1. IInv => StaleOnlyIfMarked
  BY DEF IInv, UpToDate, StaleOnlyIfMarked, Fresh
<1>2. IInv /\ [Next]_vars => IInv'
  BY InvariantStep
<1> QED BY <1>1, <1>2, InvariantInit, PTL DEF Spec

\* As long as no chunk without a mesh is edited, no buffer of a chunk is freed
\* twice and none is lost, through passes, resets, edits and worlds.
THEOREM HeapCorrect == Spec => []HeapCareful
<1>1. IInv => HeapCareful
  BY InvariantMeans
<1>2. IInv /\ [Next]_vars => IInv'
  BY InvariantStep
<1> QED BY <1>1, <1>2, InvariantInit, PTL DEF Spec

\* activeChunks is the number of chunks with a mesh, or, where a frame ran
\* outside a world, at least that.
THEOREM CountCorrect == Spec => []ActiveChunksCounted
<1>1. IInv => ActiveChunksCounted
  BY InvariantMeans
<1>2. IInv /\ [Next]_vars => IInv'
  BY InvariantStep
<1> QED BY <1>1, <1>2, InvariantInit, PTL DEF Spec
\* Meshes, buffers and the three counters agree: the buffers of a mesh are
\* freed once, the sum of the counters of vertices and triangles is that of
\* all meshes though unloading subtracts each from the other, and
\* activeChunks is the number of meshes.
THEOREM MeshesCorrect == Spec => []MeshesSound
<1>1. CountersInv => MeshesSound
  <2> SUFFICES ASSUME CountersInv PROVE MeshesSound
    OBVIOUS
  <2>1. TypeOK
    BY DEF CountersInv, CountersTyped, Settled, IInv, Typed, TypeOK, Mesh, Chunks
  <2>2. HeapCareful /\ ActiveChunksCounted
    BY InvariantMeans DEF CountersInv
  <2> QED BY <2>1, <2>2 DEF MeshesSound, CountersInv
<1>2. CountersInv /\ [Next]_vars => CountersInv'
  BY CountersStep
<1> QED BY <1>1, <1>2, CountersInit, PTL DEF Spec
===========================================================================
