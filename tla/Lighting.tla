------------------------------ MODULE Lighting ------------------------------
(***************************************************************************)
(* The light of the map (src/src/eninge.c 22483-22711) and the meshes of   *)
(* the chunks that show it (19747-20792).                                  *)
(*                                                                         *)
(* The light of the whole map is computed when a world is loaded and when  *)
(* the sky grows brighter or darker; of single chunks, where blocks change.*)
(* A mesh lists the faces of the blocks of a chunk that no neighbour       *)
(* hides, in the order of a scan, each with the light of the cell before   *)
(* it.  A refresh of its light scans the blocks again and writes the i-th  *)
(* face it finds into place i, whatever the mesh was built with.           *)
(*                                                                         *)
(* A cell is <<x, y, z>>.  The maps of the runs keep their blocks off row  *)
(* and column 0, beyond which the code looks into the row before.          *)
(***************************************************************************)
EXTENDS Integers, FiniteSets, TLC

CONSTANTS width, height,    \* of a chunk (code: 12, 40)
          totalChunkWidth,  \* chunks in a row (code: 8)
          FullLight,        \* of the sky by day, and of a torch (code: 16)
          Near,             \* chunks that an edit lights anew begin nearer than
                            \* this to it, in steps (code: 16)
          Layouts,          \* the worlds to start in: [blocks, places, lamps, blasts]
          MaxChanges        \* bound: what happens to a world

ASSUME LightingAssumption ==
    {width, height, totalChunkWidth, FullLight, Near, MaxChanges} \subseteq Nat \ {0}

VARIABLES
    layout,         \* the world it started in
    blocks, lightmap, skyBrightness,
    lighting,       \* the setting
    active, reset,  \* chunks with a mesh, and those to be built anew
    mesh,           \* the faces of each mesh, with their light
    changes,        \* bound
    strained,       \* ghost: chunks whose neighbour changed at their border since
                    \* they were built
    behind,         \* ghost: cells changed without their chunk being lit anew
    overrun         \* ghost: meshes a refresh has written beyond the end of
vars == <<layout, blocks, lightmap, skyBrightness, lighting, active, reset, mesh,
          changes, strained, behind, overrun>>

Row   == 0..(width * totalChunkWidth - 1)
Pos   == Row \X (0..(height - 1)) \X Row
Chunk == (0..(totalChunkWidth - 1)) \X (0..(totalChunkWidth - 1))
ChunkOf(c) == <<c[1] \div width, c[3] \div width>>
Cells(ch)  == {c \in Pos : ChunkOf(c) = ch}
Sides == <<<<1, 0, 0>>, <<-1, 0, 0>>, <<0, 1, 0>>, <<0, -1, 0>>, <<0, 0, 1>>, <<0, 0, -1>>>>
Plus(c, d) == <<c[1] + d[1], c[2] + d[2], c[3] + d[3]>>
Beside(c)  == {Plus(c, Sides[i]) : i \in 1..6} \cap Pos

\* Kinds of blocks, by what they do with light.
Kinds == {"air", "stone", "glass", "slab", "torch", "lampOff", "lampOn"}
brightness(k) == IF k \in {"torch", "lampOn"} THEN FullLight ELSE 0
lightGetsThroughP1(k) == k \in {"air", "glass", "torch"}
lightGetsThroughP1Half(k) == k = "slab"
lightGetsThroughP2(k) == k \in {"air", "glass", "torch", "lampOn"}
isTransprent(k) == k = "glass"
\* Mutant: a lit lamp hides nothing.
SolidUnlessLit(k) == k \in {"stone", "glass", "lampOff"}
Solid(k) == k \in {"stone", "glass", "lampOff", "lampOn"}

-----------------------------------------------------------------------------
(* Light.                                                                  *)

\* What a cell has of itself: the sky falls straight down to the first block
\* it does not pass.
Source(bs, sky, c) ==
    LET open == \A y \in (c[2] + 1)..(height - 1) : lightGetsThroughP1(bs[<<c[1], y, c[3]>>])
        k == bs[c]
    IN  IF brightness(k) # 0 THEN brightness(k)
        ELSE IF open /\ (lightGetsThroughP1(k) \/ lightGetsThroughP1Half(k)) THEN sky ELSE 1

\* The cells of a level light those beside them that are darker; not those in
\* row, column and layer 0.
Spread(bs, lm, from, level) ==
    LET lit == {c \in Pos : /\ \A i \in 1..3 : c[i] > 0
                            /\ lm[c] < level - 1
                            /\ lightGetsThroughP2(bs[c]) \/ lightGetsThroughP1Half(bs[c])
                            /\ \E n \in Beside(c) \cap from :
                                   lm[n] = level /\ lightGetsThroughP2(bs[n])}
    IN  [c \in lit |-> level - 1] @@ lm

\* The light starting anew in the cells "from".  As many levels are gone
\* through as the sky is bright (22537), so that by night a torch lights
\* fewer cells than by day.
Lit(bs, sky, lm, from) ==
    LET after[n \in 0..(FullLight - 1)] ==
            IF n = 0 THEN [c \in from |-> Source(bs, sky, c)] @@ lm
            ELSE LET before == after[n - 1]
                 IN  Spread(bs, before, from, FullLight + 1 - n)
    IN  after[sky - 1]
Dark == [c \in Pos |-> 0]
loadLighting2(bs, sky) == Lit(bs, sky, Dark, Pos)
\* Mutant: the map is cleared before a chunk is lit.
UpdateChunkLightingDark(bs, sky, lm, ch) == Lit(bs, sky, Dark, Cells(ch))
updateChunkLighting2(bs, sky, lm, ch) == Lit(bs, sky, lm, Cells(ch))

abs_int(n) == IF n < 0 THEN -n ELSE n
NearTo(p, ch) == abs_int(ch[1] * width - p[1]) + abs_int(ch[2] * width - p[3]) < Near
ChunkAt(n) == <<n \div totalChunkWidth, n % totalChunkWidth>>
\* The chunks one after the other, each by itself.
updateLighting2(bs, sky, lm, p) ==
    LET after[n \in 0..(totalChunkWidth * totalChunkWidth)] ==
            IF n = 0 THEN lm
            ELSE LET before == after[n - 1]
                 IN  IF NearTo(p, ChunkAt(n - 1))
                     THEN updateChunkLighting2(bs, sky, before, ChunkAt(n - 1)) ELSE before
    IN  after[totalChunkWidth * totalChunkWidth]

-----------------------------------------------------------------------------
(* Meshes.  A face is its place in the scan and the cell before it.        *)
Order(c, i) == ((((c[1] % width) * height) + c[2]) * width + (c[3] % width)) * 6 + i
Hidden(k, by) == Solid(by) /\ ~(isTransprent(by) /\ ~isTransprent(k))
Faces(bs, ch) ==
    UNION {{<<Order(c, i), Plus(c, Sides[i])>> :
               i \in {j \in 1..6 : LET n == Plus(c, Sides[j])
                                   IN  bs[c] = "torch" \/ (n \in Pos /\ ~Hidden(bs[c], bs[n]))}} :
           c \in {d \in Cells(ch) : bs[d] # "air"}}
LightBefore(sky, lm, on, f) == IF ~on THEN sky ELSE IF f[2] \in Pos THEN lm[f[2]] ELSE 0
\* generateChunkV2, updateChunkV2
Built(bs, sky, lm, on, ch) == [f \in Faces(bs, ch) |-> LightBefore(sky, lm, on, f)]

\* updateChunkLightFacesV2: the i-th face found gives its light to the i-th
\* of the mesh.
Place(F, f) == Cardinality({g \in F : g[1] < f[1]})
Refreshed(bs, sky, lm, on, m, ch) ==
    LET now == Faces(bs, ch)
        of(f) == {g \in now : Place(now, g) = Place(DOMAIN m, f)}
    IN  IF now = DOMAIN m THEN Built(bs, sky, lm, on, ch)
        ELSE [f \in DOMAIN m |-> IF of(f) = {} THEN m[f]
                                 ELSE LightBefore(sky, lm, on, CHOOSE g \in of(f) : TRUE)]
Overruns(bs, m, ch) == Cardinality(Faces(bs, ch)) > Cardinality(DOMAIN m)

\* updateAllChunkLighting: of the chunks "chs", all that are shown.  Mutant:
\* the last chunk of the map is left out.
RefreshedButLast(bs, sky, lm, on, ms, chs) ==
    [ch \in DOMAIN ms |-> IF ch \in chs \ {<<totalChunkWidth - 1, totalChunkWidth - 1>>}
                          THEN Refreshed(bs, sky, lm, on, ms[ch], ch) ELSE ms[ch]]
RefreshedAll(bs, sky, lm, on, ms, chs) ==
    [ch \in DOMAIN ms |-> IF ch \in chs
                          THEN Refreshed(bs, sky, lm, on, ms[ch], ch) ELSE ms[ch]]

-----------------------------------------------------------------------------
(* The steps.                                                              *)

Init ==
    /\ layout \in Layouts
    /\ blocks = layout.blocks
    /\ skyBrightness \in layout.sky
    /\ lighting \in BOOLEAN
    /\ lightmap = IF lighting THEN loadLighting2(blocks, skyBrightness) ELSE Dark
    /\ active = Chunk /\ reset = {}
    /\ mesh = [ch \in Chunk |-> Built(blocks, skyBrightness, lightmap, lighting, ch)]
    /\ changes = 0 /\ strained = {} /\ behind = {} /\ overrun = {}

Change == changes < MaxChanges /\ changes' = changes + 1

\* Chunks, other than those built now, with a face that the changed cells bare
\* or hide.
Strain(cells) == {ch \in Chunk : \E c \in cells : ChunkOf(c) # ch
                                                 /\ \E n \in Beside(c) : ChunkOf(n) = ch}
Unlit(cells, p) == {ch \in {ChunkOf(c) : c \in cells} : ~NearTo(p, ch)}
LitAnew(p) == {ch \in Chunk : NearTo(p, ch)}

\* placeBlock, from 19202 on
PlaceBlock(c, k) ==
    /\ Change
    /\ blocks[c] = "air" /\ ChunkOf(c) \in active
    /\ blocks' = [blocks EXCEPT ![c] = k]
    /\ strained' = (strained \cup Strain({c})) \ {ChunkOf(c)}
    /\ LET built == [mesh EXCEPT ![ChunkOf(c)] =
                         Built(blocks', skyBrightness, lightmap, lighting, ChunkOf(c))]
           lit   == updateLighting2(blocks', skyBrightness, lightmap, c)
       IN  IF lighting
           THEN /\ lightmap' = lit
                /\ mesh' = RefreshedAll(blocks', skyBrightness, lit, TRUE, built, active)
                /\ behind' = (behind \ LitAnew(c)) \cup Unlit({c}, c)
                /\ overrun' = overrun \cup
                                  {ch \in active : Overruns(blocks', built[ch], ch)}
           ELSE mesh' = built /\ UNCHANGED <<lightmap, behind, overrun>>
    /\ UNCHANGED <<layout, skyBrightness, lighting, active, reset>>

\* destroyBlock, from 19017 on: the light starts from the free cell before the
\* block, and only the chunk of the block is drawn.
DestroyBlock(c, addBlock) ==
    /\ Change
    /\ blocks[c] # "air" /\ blocks[addBlock] = "air" /\ ChunkOf(c) \in active
    /\ blocks' = [blocks EXCEPT ![c] = "air"]
    /\ strained' = (strained \cup Strain({c})) \ {ChunkOf(c)}
    /\ IF lighting
       THEN /\ lightmap' = updateLighting2(blocks', skyBrightness, lightmap, addBlock)
            /\ behind' = (behind \ LitAnew(addBlock)) \cup Unlit({c}, addBlock)
       ELSE UNCHANGED <<lightmap, behind>>
    /\ mesh' = [mesh EXCEPT ![ChunkOf(c)] =
                    Built(blocks', skyBrightness, lightmap', lighting, ChunkOf(c))]
    /\ UNCHANGED <<layout, skyBrightness, lighting, active, reset, overrun>>

\* makeExplosion: each chunk it strikes is built, then the light found and
\* shown by all, those still to be built among them.
Blasted(bs, p, struck) ==
    LET after[n \in 0..(totalChunkWidth * totalChunkWidth)] ==
            LET before == after[n - 1]
                ch     == <<(n - 1) % totalChunkWidth, (n - 1) \div totalChunkWidth>>
                built  == [before.mesh EXCEPT ![ch] =
                               Built(bs, skyBrightness, before.lightmap, lighting, ch)]
                lit    == updateLighting2(bs, skyBrightness, before.lightmap, p)
            IN  IF n = 0 THEN [lightmap |-> lightmap, mesh |-> mesh, overrun |-> overrun]
                ELSE IF ch \notin struck THEN before
                ELSE IF ~lighting THEN [before EXCEPT !.mesh = built]
                ELSE [lightmap |-> lit,
                      mesh |-> RefreshedAll(bs, skyBrightness, lit, TRUE, built, active),
                      overrun |-> before.overrun \cup
                                      {c \in active : Overruns(bs, built[c], c)}]
    IN  after[totalChunkWidth * totalChunkWidth]
MakeExplosion(p, cells) ==
    /\ Change
    /\ blocks' = [c \in cells |-> "air"] @@ blocks
    /\ LET struck == {ChunkOf(c) : c \in cells} \cap active
           after  == Blasted(blocks', p, struck)
       IN  /\ lightmap' = after.lightmap
           /\ mesh' = after.mesh
           /\ overrun' = after.overrun
           /\ strained' = (strained \cup Strain({c \in cells : blocks[c] # "air"})) \ struck
           /\ behind' = IF lighting /\ struck # {}
                        THEN (behind \ LitAnew(p)) \cup Unlit(cells, p)
                        ELSE IF lighting THEN behind \cup {ChunkOf(c) : c \in cells}
                        ELSE behind
    /\ UNCHANGED <<layout, skyBrightness, lighting, active, reset>>

\* updateMap lights or puts out a lamp of a chunk: its own light and faces only.
UpdateLamp(c) ==
    /\ Change
    /\ blocks[c] \in {"lampOff", "lampOn"} /\ ChunkOf(c) \in active
    /\ blocks' = [blocks EXCEPT ![c] = IF @ = "lampOff" THEN "lampOn" ELSE "lampOff"]
    /\ IF lighting
       THEN /\ lightmap' = updateChunkLighting2(blocks', skyBrightness, lightmap, ChunkOf(c))
            /\ mesh' = RefreshedAll(blocks', skyBrightness, lightmap', TRUE, mesh, {ChunkOf(c)})
            /\ behind' = behind \ {ChunkOf(c)}
            /\ overrun' = overrun \cup
                             {ch \in {ChunkOf(c)} : Overruns(blocks', mesh[ch], ch)}
       ELSE UNCHANGED <<lightmap, mesh, behind, overrun>>
    /\ UNCHANGED <<layout, skyBrightness, lighting, active, reset, strained>>

\* The clock makes the sky a step brighter or darker (28271-28297), or a key
\* does (28702-28735), which finds the light even when it is not shown.
SkyMoves(step, key) ==
    /\ Change
    /\ skyBrightness + step \in 1..FullLight
    /\ skyBrightness' = skyBrightness + step
    /\ IF lighting \/ key
       THEN lightmap' = loadLighting2(blocks, skyBrightness') /\ behind' = {}
       ELSE UNCHANGED <<lightmap, behind>>
    /\ mesh' = RefreshedAll(blocks, skyBrightness', lightmap', lighting, mesh, active)
    /\ overrun' = overrun \cup {ch \in active : Overruns(blocks, mesh[ch], ch)}
    /\ UNCHANGED <<layout, blocks, lighting, active, reset, strained>>

\* The setting (24405-24418).
ToggleLighting ==
    /\ Change
    /\ lighting' = ~lighting
    /\ lightmap' = IF lighting' THEN loadLighting2(blocks, skyBrightness) ELSE Dark
    /\ reset' = Chunk
    /\ behind' = {}
    /\ UNCHANGED <<layout, blocks, skyBrightness, active, mesh, strained, overrun>>

\* The visit of a chunk (28118-28167), as Chunks has it.
Unload(ch) ==
    /\ Change
    /\ ch \in active
    /\ active' = active \ {ch} /\ reset' = reset \ {ch}
    /\ mesh' = [mesh EXCEPT ![ch] = <<>>]
    /\ strained' = strained \ {ch}
    /\ UNCHANGED <<layout, blocks, lightmap, skyBrightness, lighting, behind, overrun>>
Build(ch) ==
    /\ ch \notin active \/ ch \in reset
    /\ active' = active \cup {ch}
    /\ reset' = IF ch \in active THEN reset \ {ch} ELSE reset
    /\ mesh' = [mesh EXCEPT ![ch] = Built(blocks, skyBrightness, lightmap, lighting, ch)]
    /\ strained' = strained \ {ch}
    /\ UNCHANGED <<layout, blocks, lightmap, skyBrightness, lighting, changes, behind, overrun>>

Next ==
    \/ \E c \in layout.places, k \in layout.kinds : PlaceBlock(c, k)
    \/ \E c \in layout.places : \E a \in Beside(c) : DestroyBlock(c, a)
    \/ \E b \in layout.blasts : MakeExplosion(b.at, b.cells)
    \/ \E c \in layout.places : UpdateLamp(c)
    \/ \E step \in {-1, 1}, key \in BOOLEAN : SkyMoves(step, key)
    \/ ToggleLighting
    \/ \E ch \in Chunk : Unload(ch) \/ Build(ch)
Spec == Init /\ [][Next]_vars

-----------------------------------------------------------------------------
(* Properties.                                                             *)

\* Light has 16 levels, and chunks out of sight have no mesh.
TypeOK ==
    /\ blocks \in [Pos -> Kinds]
    /\ lightmap \in [Pos -> 0..FullLight]
    /\ skyBrightness \in 1..FullLight
    /\ active \subseteq Chunk /\ reset \subseteq Chunk
    /\ \A ch \in Chunk : \A f \in DOMAIN mesh[ch] : mesh[ch][f] \in 0..FullLight
    /\ \A ch \in Chunk \ active : mesh[ch] = <<>>
    /\ changes \in 0..MaxChanges
    /\ strained \cup behind \cup overrun \subseteq Chunk

\* A mesh lists the faces that a scan of the blocks finds now, unless a
\* neighbour's block changed at its border: a lamp that is lit or goes out,
\* which has only the light written anew (22330), bares and hides nothing.
MeshIsItsBlocks ==
    \A ch \in active \ strained : DOMAIN mesh[ch] = Faces(blocks, ch)

\* A refresh writes beyond the end of a mesh only where a change at its border
\* left it behind, or in the midst of an explosion, which has chunks shown
\* that it struck and has yet to build (20829-20850).
WritesWithinMesh ==
    [][(\E b \in layout.blasts : MakeExplosion(b.at, b.cells))
       \/ overrun' \ overrun \subseteq strained']_vars

\* The light that the whole map is given, level by level, is the one that
\* falls by a step with each cell it passes: a cell has what it has of itself
\* or a step less than a cell beside it (22495).
Exact(bs, sky, lm) ==
    \A c \in Pos :
        LET given == IF \/ ~(lightGetsThroughP2(bs[c]) \/ lightGetsThroughP1Half(bs[c]))
                        \/ \E i \in 1..3 : c[i] = 0
                     THEN {}
                     ELSE {lm[n] - 1 : n \in {m \in Beside(c) : /\ lightGetsThroughP2(bs[m])
                                                                /\ lm[m] >= FullLight + 2 - sky}}
        IN  /\ lm[c] \in given \cup {Source(bs, sky, c)}
            /\ \A l \in given \cup {Source(bs, sky, c)} : lm[c] >= l
LoadIsExact ==
    [][(\E step \in {-1, 1} : SkyMoves(step, TRUE)) \/ (ToggleLighting /\ lighting')
       => Exact(blocks', skyBrightness', lightmap')]_vars

\* However chunks near an edit are lit one after the other, each over the
\* light of the others, no chunk has less light than its own sky and torches
\* give it (22600, 22696), unless a change in it was not followed.
OwnLight ==
    lighting => \A ch \in Chunk \ behind :
                    LET own == updateChunkLighting2(blocks, skyBrightness, Dark, ch)
                    IN  \A c \in Cells(ch) : lightmap[c] >= own[c]

\* After a block is placed, and after the sky has changed, every chunk on the
\* screen shows the light as it is, wherever it has changed (19206, 28280).
Shown(ch) == mesh'[ch] = Built(blocks', skyBrightness', lightmap', lighting', ch)
ShowsAllLight ==
    [][(\E c \in layout.places, k \in layout.kinds : lighting /\ PlaceBlock(c, k))
       \/ (\E step \in {-1, 1}, key \in BOOLEAN : SkyMoves(step, key))
       => \A ch \in active' \ (strained' \cup reset') : Shown(ch)]_vars

\* A new sky is computed right and reaches the screen.
LightFollows == LoadIsExact /\ ShowsAllLight

\* With the lighting off the faces of every chunk are as bright as the sky,
\* as soon as the chunk has been built again (doc: new features.txt:26).
FlatWithoutLighting ==
    ~lighting => \A ch \in active \ (reset \cup strained) :
                     \A f \in DOMAIN mesh[ch] : mesh[ch][f] = skyBrightness

\* Between edits the meshes, the light map and the setting agree.
LightSound == TypeOK /\ MeshIsItsBlocks /\ OwnLight /\ FlatWithoutLighting
=============================================================================
