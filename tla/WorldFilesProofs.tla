-------------------------- MODULE WorldFilesProofs --------------------------
(***************************************************************************)
(* Proofs about WorldFiles, for any number of slots and of chunks and any  *)
(* number of contents and resets.                                          *)
(***************************************************************************)
EXTENDS WorldFiles, FiniteSetTheorems, SequenceTheorems, TLAPS

----------------------------------------------------------------------------
(* The order of the operations in a sequence.                              *)

Has(s, A) == \E i \in DOMAIN s : s[i] \in A
\* Every operation of A is followed by one of B.
Then(s, A, B) ==
    \A i \in DOMAIN s : s[i] \in A => \E j \in DOMAIN s : i < j /\ s[j] \in B
\* Every operation of B is preceded by one of A.
First(s, A, B) ==
    \A j \in DOMAIN s : s[j] \in B => \E i \in DOMAIN s : i < j /\ s[i] \in A
\* No operation of A is followed by one of B.
Never(s, A, B) ==
    \A i, j \in DOMAIN s : i < j /\ s[i] \in A => s[j] \notin B

----------------------------------------------------------------------------
(* The operations.                                                         *)

OpNames == {"create", "write", "fit", "delete", "load", "loadV4", "loadRaw",
            "saveGame", "setVersion4", "setVersion5", "replaceOldWater", "list",
            "loaded", "made", "saved", "leave"}
Ops == [op : OpNames, file : Files]
Named(names) == {o \in Ops : o.op \in names}
On(name, f) == {o \in Ops : o.op = name /\ o.file = f}

WorldData == <<"worldData", 0>>
EntityData == <<"entityData", 0>>
ChunkFiles == {"chunk"} \X Chunks

FileOps == {"create", "write", "fit", "delete"}
Reads == {"load", "loadV4", "loadRaw"}
Conversions == {"setVersion4", "setVersion5", "replaceOldWater", "made"}
Promises == {"made", "saved"}
Changes == FileOps \cup Conversions \cup {"list"}

\* The files that an operation is used on.
FilesFor(name) ==
    CASE name \in {"create", "write", "load"} -> Listed
      [] name = "fit" -> ChunkFiles
      [] name = "delete" -> Files \ {WorldData, EntityData}
      [] name = "loadV4" -> {<<"playerData", 0>>, <<"chestData", 0>>}
      [] name = "loadRaw" -> {"chunk", "chunkED"} \X Chunks
      [] OTHER -> {WorldData}

GameOps == {o \in Ops : o.file \in FilesFor(o.op)}
EditOps == {o \in GameOps : o.op \in {"load", "saveGame"} /\ o.file = WorldData}
MenuOps == {o \in GameOps : o.op \in {"create", "write", "saveGame"}
                            /\ o.file = WorldData}

----------------------------------------------------------------------------
(* The invariant.                                                          *)

\* What is written in a chunk's name before the version is set.
ChunkSaves == {o \in Ops : o.op \in {"create", "write", "fit"} /\ o.file[1] = "chunk"}

\* A script is in order: a change of the list is saved, a conversion reads
\* nothing and ends with a promise, a promise and a departure end the script,
\* what is deleted is written again, and so is everything after the old
\* water has been replaced.
InOrder(s) ==
    /\ Then(s, Named({"setVersion4", "setVersion5", "list"}), Named({"saveGame"}))
    /\ Then(s, Named({"setVersion4"}), Named({"setVersion5"}))
    /\ Then(s, Named({"setVersion4", "setVersion5", "replaceOldWater"}), Named({"made"}))
    /\ Then(s, Named({"fit", "list"}), Named({"saved"}))
    /\ Never(s, Named(Promises), Named(OpNames \ {"leave"}))
    /\ Never(s, Named({"leave"}), Ops)
    /\ Never(s, Named(Conversions \cup {"loaded"}), Named(Reads \cup {"loaded"}))
    /\ \A f \in Listed : Then(s, On("delete", f), On("write", f))
    /\ \A f \in ChunkFiles : Then(s, Named({"replaceOldWater"}), On("write", f))
    /\ Has(s, Named(Promises)) =>
          \A f \in Listed : Then(s, Named({"loaded"}), On("write", f))
    /\ Has(s, Named({"saved"})) =>
          ~Has(s, Named(Reads \cup Conversions \cup {"loaded"}))

Saving == Has(todo, Named({"saved"}))
Loading == Has(todo, Named({"loaded"}))

Script ==
    /\ screen = "menu" => todo \in Seq(MenuOps)
    /\ screen = "edit" => todo \in Seq(EditOps)
    /\ screen = "game" => todo \in Seq(GameOps) /\ Then(todo, Named(Reads), Named({"loaded"}))
    /\ Has(todo, Named({"create", "write"})) => world # 0
    /\ InOrder(todo)

Snapshots == [parts : Parts, version : Nat, by : {"creation", "save"}]
\* Only what has a length may be cut, and only what is longer than its file.
FilesSound ==
    \A w \in Worlds, f \in Files : LET d == disk[w][f] IN
        /\ d.form = "missing" => d = Missing
        /\ d.cut => /\ d.form = "new" /\ ~grows
                    /\ f[1] \in {"playerData", "chestData", "chunk"}
        /\ d.form # "missing" /\ f[1] \in {"worldData", "entityData"} => d.room >= 1

Types ==
    /\ TypeOK
    /\ saved \in [Worlds -> SUBSET Snapshots]
    /\ begun \in [Worlds -> Nat]
    /\ FilesSound

\* The list of worlds: on the medium or about to be; the world in play is
\* on it, with the present version or about to have it (a refused one is
\* saved or left alone); the chunks are not written before it has one of the
\* compressed formats.
Listing ==
    /\ gameData = [exists |-> worldExists, version |-> worldVersion]
       \/ Has(todo, Named({"saveGame"}))
    /\ screen = "game" =>
          /\ worldExists[world]
          /\ worldVersion[world] < 5 => Has(todo, Named({"setVersion5"}))
          /\ worldVersion[world] > 5 => todo = <<>> \/ Has(todo, Named({"list"}))
          /\ \/ worldVersion[world] >= 4
             \/ First(todo, Named({"setVersion4", "setVersion5"}), ChunkSaves)
    /\ Saving =>
          /\ worldVersion[world] = 5 \/ Has(todo, Named({"list"}))
          /\ saved[world] # {} => worldVersion[world] = 5 /\ gameData.version[world] = 5

\* A world of a newer version has its entities: only entering it reads none.
NewerThere ==
    \A w \in Worlds : worldVersion[w] > 5 \/ gameData.version[w] > 5 =>
        disk[w][EntityData].form # "missing"

Own == {0} \cup (IF screen = "game" THEN {world} ELSE {})
\* Nothing of another world in what is cleared and what is loaded.
Apart ==
    /\ NothingFromAnotherWorld
    /\ mem.player.of \in Own /\ mem.entities.of \in Own
    /\ \A c \in Chunks : mem.blocks[c].of \in Own

\* What a snapshot says of a file.
Holds(s, f, file) ==
    /\ file.form = FormOf(s.version, f)
    /\ file.main = MainPart(s.parts, f)
    /\ FormOf(s.version, f) = "new" => file.extra = ExtraPart(s.parts, f)

LostChunks(w) ==
    {f \in ChunkFiles : ~disk[w][f].cut /\ \A s \in saved[w] : ~Holds(s, f, disk[w][f])}
\* The chunk a save is busy with is not counted: it may be lost for a while.
AtRisk(w) ==
    {f \in LostChunks(w) : ~(Saving /\ w = world /\ Head(todo).file = f)}

\* While the files of a world are promised something (Snapshots in saved),
\* the list says its format, every file but a chunk holds what a snapshot
\* says, few chunks do not, and after a save none is cut.
VersionsAgree(w) ==
    \A s \in saved[w] : SameForm(s.version, worldVersion[w])
                        /\ SameForm(s.version, gameData.version[w])
FilesHeld(w) ==
    \A t \in saved[w] : \A f \in FilesOf(t.version) \ ChunkFiles :
        disk[w][f].cut \/ \E s \in saved[w] : Holds(s, f, disk[w][f])
FewLost(w) ==
    Cardinality(AtRisk(w)) + (IF Saving /\ w = world THEN 1 ELSE 0) <= begun[w]
WholeChunks(w) ==
    (\E s \in saved[w] : saved[w] = {s} /\ s.by = "save") =>
        \A f \in ChunkFiles : ~disk[w][f].cut
Kept(w) ==
    saved[w] # {} => VersionsAgree(w) /\ FilesHeld(w) /\ FewLost(w) /\ WholeChunks(w)

\* A write finds its file.
WritesFind ==
    /\ \A i \in DOMAIN todo, f \in Listed : todo[i] \in On("write", f) =>
          \/ i > 1 /\ todo[i - 1] \in On("create", f)
          \/ /\ Entry(f).form # "missing"
             /\ i = 1 \/ f = EntityData
    /\ screen = "game" =>
          \/ Entry(EntityData).form # "missing"
          \/ Has(todo, On("create", EntityData) \cup On("load", EntityData))
\* What is promised is on the medium or about to be.
Matches(file, f) ==
    \/ file.cut
    \/ file.form = "new" /\ file.main = MainPart(mem, f) /\ file.extra = ExtraPart(mem, f)
PromisedWritten ==
    Has(todo, Named(Promises)) =>
        \A f \in Listed : \/ Matches(Entry(f), f)
                          \/ Has(todo, On("write", f) \cup On("fit", f))
\* A save writes its chunks to files that fit them.
CutRewritten(f) ==
    Entry(f).cut => Has(todo, On("fit", f) \cup On("delete", f) \cup On("write", f))
ChunkOps(f) ==
    \A i \in DOMAIN todo :
        /\ todo[i] \in On("delete", f) =>
              i = 1 /\ Len(todo) >= 3 /\ todo[2] \in On("create", f) /\ todo[3] \in On("write", f)
        /\ todo[i] \in On("create", f) =>
              /\ i + 1 \in DOMAIN todo /\ todo[i + 1] \in On("write", f)
              /\ \/ i = 1 /\ Entry(f).form = "missing"
                 \/ i = 2 /\ todo[1] \in On("delete", f)
        /\ todo[i] \in On("write", f) =>
              \/ i = 1 /\ Entry(f).room = Content(mem, f).room
              \/ i > 1 /\ todo[i - 1] \in On("create", f)
SavingFits ==
    Saving =>
        /\ \A f \in Files \ ChunkFiles : ~Has(todo, On("delete", f))
        /\ saved[world] # {} => Snapshot(mem, 5, "save") \in saved[world]
        /\ \A f \in ChunkFiles : CutRewritten(f) /\ ChunkOps(f)
\* While a world is loaded nothing changes before it is known what for.
LoadsFirst ==
    screen = "game" /\ ~Saving /\ saved[world] # {} =>
        /\ First(todo, Named({"loaded"}), Named(Changes))
        /\ worldVersion[world] = 5 => ~Has(todo, Named(Changes))
\* The options that are about to be written are those of a snapshot.
OptionsKnown ==
    screen = "menu" /\ Has(todo, Named({"write"})) /\ saved[world] # {} =>
        \E s \in saved[world] : s.version <= 5 /\ s.parts.info = mem.info
Writing == WritesFind /\ PromisedWritten /\ SavingFits /\ LoadsFirst /\ OptionsKnown

\* What is still to be read fits the version, and what has been read is there.
ReadsFit ==
    \A i \in DOMAIN todo :
        /\ todo[i].op = "load" => FormOf(worldVersion[world], todo[i].file) = "new"
        /\ todo[i].op \in {"loadV4", "loadRaw"} =>
              FormOf(worldVersion[world], todo[i].file) = "old"
        /\ todo[i].op = "loadRaw" => worldVersion[world] < 4
        /\ todo[i].op = "load" /\ todo[i].file = EntityData => worldVersion[world] >= 4
ReadBack ==
    saved[world] # {} =>
        \A f \in FilesOf(worldVersion[world]) :
            \/ Has(todo, On("load", f) \cup On("loadV4", f) \cup On("loadRaw", f))
            \/ Entry(f).cut
            \/ f \in LostChunks(world)
            \/ /\ MainPart(mem, f) = Entry(f).main
               /\ FormOf(worldVersion[world], f) = "new" => ExtraPart(mem, f) = Entry(f).extra
Reading == Loading => ReadsFit /\ ReadBack

IInv == Types /\ Script /\ Listing /\ NewerThere /\ Apart /\ (\A w \in Worlds : Kept(w))
        /\ Writing /\ Reading

----------------------------------------------------------------------------
(* Sequences, cut at the front and put together.                           *)

LEMMA TailIs ==
    ASSUME NEW S, NEW s \in Seq(S), s # <<>>
    PROVE  /\ Len(s) \in Nat \ {0} /\ DOMAIN s = 1..Len(s)
           /\ Head(s) = s[1] /\ Head(s) \in S
           /\ Tail(s) \in Seq(S)
           /\ Len(Tail(s)) = Len(s) - 1 /\ DOMAIN Tail(s) = 1..(Len(s) - 1)
           /\ \A i \in 1..(Len(s) - 1) : Tail(s)[i] = s[i + 1]
    OBVIOUS

LEMMA ConcatIs ==
    ASSUME NEW S, NEW s \in Seq(S), NEW t \in Seq(S)
    PROVE  /\ s \o t \in Seq(S)
           /\ Len(s) \in Nat /\ Len(t) \in Nat
           /\ DOMAIN s = 1..Len(s) /\ DOMAIN t = 1..Len(t)
           /\ DOMAIN (s \o t) = 1..(Len(s) + Len(t))
           /\ \A i \in 1..Len(s) : (s \o t)[i] = s[i]
           /\ \A i \in 1..Len(t) : (s \o t)[Len(s) + i] = t[i]
    OBVIOUS

\* Where an operation of the whole stands in one of the parts.
LEMMA ConcatPart ==
    ASSUME NEW S, NEW s \in Seq(S), NEW t \in Seq(S), NEW i \in DOMAIN (s \o t)
    PROVE  \/ i \in DOMAIN s /\ (s \o t)[i] = s[i]
           \/ /\ i \notin DOMAIN s /\ i - Len(s) \in DOMAIN t
              /\ i > Len(s) /\ (s \o t)[i] = t[i - Len(s)]
    BY ConcatIs

LEMMA HasNothing == \A A : ~Has(<<>>, A)
    BY DEF Has

LEMMA HasTail ==
    ASSUME NEW S, NEW s \in Seq(S), s # <<>>, NEW A
    PROVE  Has(s, A) <=> Head(s) \in A \/ Has(Tail(s), A)
<1>1. ASSUME Has(s, A), Head(s) \notin A PROVE Has(Tail(s), A)
    <2>1. PICK i \in DOMAIN s : s[i] \in A
        BY <1>1 DEF Has
    <2>2. i - 1 \in DOMAIN Tail(s) /\ Tail(s)[i - 1] = s[i]
        BY <1>1, <2>1, TailIs
    <2>. QED
        BY <2>1, <2>2 DEF Has
<1>2. ASSUME Head(s) \in A PROVE Has(s, A)
    BY <1>2, TailIs DEF Has
<1>3. ASSUME Has(Tail(s), A) PROVE Has(s, A)
    <2>1. PICK i \in DOMAIN Tail(s) : Tail(s)[i] \in A
        BY <1>3 DEF Has
    <2>2. i + 1 \in DOMAIN s /\ s[i + 1] \in A
        BY <2>1, TailIs
    <2>. QED
        BY <2>2 DEF Has
<1>. QED
    BY <1>1, <1>2, <1>3

LEMMA HasConcat ==
    ASSUME NEW S, NEW s \in Seq(S), NEW t \in Seq(S), NEW A
    PROVE  Has(s \o t, A) <=> Has(s, A) \/ Has(t, A)
<1>1. ASSUME Has(s \o t, A) PROVE Has(s, A) \/ Has(t, A)
    BY <1>1, ConcatPart DEF Has
<1>2. ASSUME Has(s, A) PROVE Has(s \o t, A)
    <2>1. PICK i \in DOMAIN s : s[i] \in A
        BY <1>2 DEF Has
    <2>2. i \in DOMAIN (s \o t) /\ (s \o t)[i] \in A
        BY <2>1, ConcatIs
    <2>. QED
        BY <2>2 DEF Has
<1>3. ASSUME Has(t, A) PROVE Has(s \o t, A)
    <2>1. PICK i \in DOMAIN t : t[i] \in A
        BY <1>3 DEF Has
    <2>2. Len(s) + i \in DOMAIN (s \o t) /\ (s \o t)[Len(s) + i] \in A
        BY <2>1, ConcatIs
    <2>. QED
        BY <2>2 DEF Has
<1>. QED
    BY <1>1, <1>2, <1>3

LEMMA ThenTail ==
    ASSUME NEW S, NEW s \in Seq(S), s # <<>>, NEW A, NEW B, Then(s, A, B)
    PROVE  /\ Then(Tail(s), A, B)
           /\ Head(s) \in A => Has(Tail(s), B)
<1>1. ASSUME NEW i \in DOMAIN Tail(s), Tail(s)[i] \in A
      PROVE  \E j \in DOMAIN Tail(s) : i < j /\ Tail(s)[j] \in B
    <2>1. i + 1 \in DOMAIN s /\ s[i + 1] \in A
        BY <1>1, TailIs
    <2>2. PICK j \in DOMAIN s : i + 1 < j /\ s[j] \in B
        BY <2>1 DEF Then
    <2>3. j - 1 \in DOMAIN Tail(s) /\ i < j - 1 /\ Tail(s)[j - 1] = s[j]
        BY <2>2, TailIs
    <2>. QED
        BY <2>2, <2>3
<1>2. ASSUME Head(s) \in A PROVE Has(Tail(s), B)
    <2>1. 1 \in DOMAIN s /\ s[1] \in A
        BY <1>2, TailIs
    <2>2. PICK j \in DOMAIN s : 1 < j /\ s[j] \in B
        BY <2>1 DEF Then
    <2>3. j - 1 \in DOMAIN Tail(s) /\ Tail(s)[j - 1] = s[j]
        BY <2>2, TailIs
    <2>. QED
        BY <2>2, <2>3 DEF Has
<1>. QED
    BY <1>1, <1>2 DEF Then

LEMMA ThenConcat ==
    ASSUME NEW S, NEW s \in Seq(S), NEW t \in Seq(S), NEW A, NEW B,
           Then(s, A, B) \/ Has(t, B), Then(t, A, B)
    PROVE  Then(s \o t, A, B)
<1>1. ASSUME NEW i \in DOMAIN (s \o t), (s \o t)[i] \in A
      PROVE  \E j \in DOMAIN (s \o t) : i < j /\ (s \o t)[j] \in B
    <2>1. CASE i \in DOMAIN s /\ Has(t, B)
        <3>1. PICK j \in DOMAIN t : t[j] \in B
            BY <2>1 DEF Has
        <3>2. Len(s) + j \in DOMAIN (s \o t) /\ (s \o t)[Len(s) + j] \in B
              /\ i < Len(s) + j
            BY <2>1, <3>1, ConcatIs
        <3>. QED
            BY <3>2
    <2>2. CASE i \in DOMAIN s /\ Then(s, A, B)
        <3>1. s[i] \in A
            BY <1>1, <2>2, ConcatIs
        <3>2. PICK j \in DOMAIN s : i < j /\ s[j] \in B
            BY <2>2, <3>1 DEF Then
        <3>3. j \in DOMAIN (s \o t) /\ (s \o t)[j] \in B
            BY <3>2, ConcatIs
        <3>. QED
            BY <3>2, <3>3
    <2>3. CASE i \notin DOMAIN s
        <3>1. i - Len(s) \in DOMAIN t /\ t[i - Len(s)] \in A
            BY <1>1, <2>3, ConcatPart
        <3>2. PICK j \in DOMAIN t : i - Len(s) < j /\ t[j] \in B
            BY <3>1 DEF Then
        <3>3. Len(s) + j \in DOMAIN (s \o t) /\ (s \o t)[Len(s) + j] \in B
              /\ i < Len(s) + j
            BY <3>1, <3>2, <1>1, ConcatIs
        <3>. QED
            BY <3>3
    <2>. QED
        BY <2>1, <2>2, <2>3
<1>. QED
    BY <1>1 DEF Then

LEMMA FirstTail ==
    ASSUME NEW S, NEW s \in Seq(S), s # <<>>, NEW A, NEW B, First(s, A, B)
    PROVE  /\ Head(s) \notin B
           /\ Head(s) \notin A => First(Tail(s), A, B)
<1>1. Head(s) \notin B
    BY TailIs DEF First
<1>2. ASSUME Head(s) \notin A, NEW j \in DOMAIN Tail(s), Tail(s)[j] \in B
      PROVE  \E i \in DOMAIN Tail(s) : i < j /\ Tail(s)[i] \in A
    <2>1. j + 1 \in DOMAIN s /\ s[j + 1] \in B
        BY <1>2, TailIs
    <2>2. PICK i \in DOMAIN s : i < j + 1 /\ s[i] \in A
        BY <2>1 DEF First
    <2>3. i - 1 \in DOMAIN Tail(s) /\ i - 1 < j /\ Tail(s)[i - 1] = s[i]
        BY <1>2, <2>1, <2>2, TailIs
    <2>. QED
        BY <2>2, <2>3
<1>. QED
    BY <1>1, <1>2 DEF First

LEMMA FirstConcat ==
    ASSUME NEW S, NEW s \in Seq(S), NEW t \in Seq(S), NEW A, NEW B,
           First(s, A, B), First(t, A, B) \/ Has(s, A)
    PROVE  First(s \o t, A, B)
<1>1. ASSUME NEW j \in DOMAIN (s \o t), (s \o t)[j] \in B
      PROVE  \E i \in DOMAIN (s \o t) : i < j /\ (s \o t)[i] \in A
    <2>1. CASE j \in DOMAIN s
        <3>1. s[j] \in B
            BY <1>1, <2>1, ConcatIs
        <3>2. PICK i \in DOMAIN s : i < j /\ s[i] \in A
            BY <2>1, <3>1 DEF First
        <3>3. i \in DOMAIN (s \o t) /\ (s \o t)[i] \in A
            BY <3>2, ConcatIs
        <3>. QED
            BY <3>2, <3>3
    <2>2. CASE j \notin DOMAIN s /\ Has(s, A)
        <3>1. PICK i \in DOMAIN s : s[i] \in A
            BY <2>2 DEF Has
        <3>2. i \in DOMAIN (s \o t) /\ (s \o t)[i] \in A /\ i < j
            BY <2>2, <3>1, ConcatIs, ConcatPart
        <3>. QED
            BY <3>2
    <2>3. CASE j \notin DOMAIN s /\ First(t, A, B)
        <3>1. j - Len(s) \in DOMAIN t /\ t[j - Len(s)] \in B
            BY <1>1, <2>3, ConcatPart
        <3>2. PICK i \in DOMAIN t : i < j - Len(s) /\ t[i] \in A
            BY <2>3, <3>1 DEF First
        <3>3. Len(s) + i \in DOMAIN (s \o t) /\ (s \o t)[Len(s) + i] \in A
              /\ Len(s) + i < j
            BY <3>1, <3>2, <1>1, ConcatIs
        <3>. QED
            BY <3>3
    <2>. QED
        BY <2>1, <2>2, <2>3
<1>. QED
    BY <1>1 DEF First

LEMMA NeverTail ==
    ASSUME NEW S, NEW s \in Seq(S), s # <<>>, NEW A, NEW B, Never(s, A, B)
    PROVE  /\ Never(Tail(s), A, B)
           /\ Head(s) \in A => ~Has(Tail(s), B)
<1>1. ASSUME NEW i \in DOMAIN Tail(s), NEW j \in DOMAIN Tail(s), i < j,
             Tail(s)[i] \in A
      PROVE  Tail(s)[j] \notin B
    <2>1. i + 1 \in DOMAIN s /\ s[i + 1] \in A /\ j + 1 \in DOMAIN s
          /\ i + 1 < j + 1 /\ Tail(s)[j] = s[j + 1]
        BY <1>1, TailIs
    <2>. QED
        BY <2>1 DEF Never
<1>2. ASSUME Head(s) \in A, NEW j \in DOMAIN Tail(s) PROVE Tail(s)[j] \notin B
    <2>1. 1 \in DOMAIN s /\ s[1] \in A /\ j + 1 \in DOMAIN s
          /\ 1 < j + 1 /\ Tail(s)[j] = s[j + 1]
        BY <1>2, TailIs
    <2>. QED
        BY <2>1 DEF Never
<1>. QED
    BY <1>1, <1>2 DEF Never, Has

LEMMA NeverConcat ==
    ASSUME NEW S, NEW s \in Seq(S), NEW t \in Seq(S), NEW A, NEW B,
           Never(s, A, B), Never(t, A, B), ~(Has(s, A) /\ Has(t, B))
    PROVE  Never(s \o t, A, B)
<1>1. ASSUME NEW i \in DOMAIN (s \o t), NEW j \in DOMAIN (s \o t), i < j,
             (s \o t)[i] \in A, (s \o t)[j] \in B
      PROVE  FALSE
    <2>1. CASE i \in DOMAIN s /\ j \in DOMAIN s
        <3>1. s[i] \in A /\ s[j] \in B
            BY <1>1, <2>1, ConcatIs
        <3>. QED
            BY <1>1, <2>1, <3>1 DEF Never
    <2>2. CASE i \in DOMAIN s /\ j \notin DOMAIN s
        <3>1. s[i] \in A /\ j - Len(s) \in DOMAIN t /\ t[j - Len(s)] \in B
            BY <1>1, <2>2, ConcatIs, ConcatPart
        <3>. QED
            BY <2>2, <3>1 DEF Has
    <2>3. CASE i \notin DOMAIN s
        <3>1. /\ i - Len(s) \in DOMAIN t /\ t[i - Len(s)] \in A
              /\ j - Len(s) \in DOMAIN t /\ t[j - Len(s)] \in B
              /\ i - Len(s) < j - Len(s)
            BY <1>1, <2>3, ConcatIs, ConcatPart
        <3>. QED
            BY <3>1 DEF Never
    <2>. QED
        BY <2>1, <2>2, <2>3
<1>. QED
    BY <1>1 DEF Never

LEMMA HasNone ==
    ASSUME NEW s, NEW A, NEW B, ~Has(s, A)
    PROVE  Then(s, A, B) /\ Never(s, A, B) /\ Never(s, B, A) /\ First(s, B, A)
    BY DEF Has, Then, Never, First

LEMMA HasMore ==
    ASSUME NEW s, NEW A, NEW B, A \subseteq B, Has(s, A)
    PROVE  Has(s, B)
    BY DEF Has

----------------------------------------------------------------------------
(* The scripts: what is in them.                                           *)

LEMMA OneOp ==
    ASSUME NEW S, NEW a \in S
    PROVE  /\ <<a>> \in Seq(S) /\ Len(<<a>>) = 1 /\ DOMAIN <<a>> = {1}
           /\ \A A : Has(<<a>>, A) <=> a \in A
<1>1. <<a>> \in Seq(S) /\ Len(<<a>>) = 1 /\ DOMAIN <<a>> = {1} /\ <<a>>[1] = a
    OBVIOUS
<1>. QED
    BY <1>1 DEF Has

LEMMA TwoOps ==
    ASSUME NEW S, NEW a \in S, NEW b \in S
    PROVE  /\ <<a, b>> \in Seq(S) /\ Len(<<a, b>>) = 2
           /\ DOMAIN <<a, b>> = {1, 2} /\ <<a, b>>[1] = a /\ <<a, b>>[2] = b
           /\ \A A : Has(<<a, b>>, A) <=> a \in A \/ b \in A
<1>1. /\ <<a, b>> \in Seq(S) /\ Len(<<a, b>>) = 2 /\ DOMAIN <<a, b>> = {1, 2}
      /\ <<a, b>>[1] = a /\ <<a, b>>[2] = b
    OBVIOUS
<1>. QED
    BY <1>1 DEF Has

LEMMA LengthIs ==
    ASSUME NEW S, NEW n \in Nat, NEW s \in [1..n -> S]
    PROVE  s \in Seq(S) /\ Len(s) = n /\ DOMAIN s = 1..n
<1>1. s \in Seq(S)
    BY SeqDef
<1>2. Len(s) \in Nat /\ DOMAIN s = 1..Len(s)
    BY <1>1, LenProperties
<1>. QED
    BY <1>1, <1>2

LEMMA ForChunksOne ==
    ASSUME NEW op, NEW name, NEW S, \A c \in Chunks : Op(op, <<name, c>>) \in S
    PROVE  LET s == ForChunks(<< <<op, name>> >>)
           IN  /\ s \in Seq(S) /\ Len(s) = WorldChunks /\ DOMAIN s = Chunks
               /\ \A c \in Chunks : s[c] = Op(op, <<name, c>>)
               /\ \A A : Has(s, A) <=> \E c \in Chunks : Op(op, <<name, c>>) \in A
<1>. DEFINE ops == << <<op, name>> >>
            s == ForChunks(ops)
<1>1. WorldChunks \in Nat
    BY WorldFilesAssumption
<1>2. Len(ops) = 1 /\ ops[1] = <<op, name>>
    OBVIOUS
<1>3. Len(ops) * WorldChunks = WorldChunks
    BY <1>1, <1>2
<1>4. \A i \in 1..WorldChunks : ((i - 1) % Len(ops)) + 1 = 1 /\ ((i - 1) \div Len(ops)) + 1 = i
    BY <1>1, <1>2
<1>5. DOMAIN s = Chunks
    BY <1>3 DEF ForChunks, Chunks
<1>6. \A c \in Chunks : s[c] = Op(op, <<name, c>>)
    <2>. SUFFICES ASSUME NEW c \in Chunks PROVE s[c] = Op(op, <<name, c>>)
        OBVIOUS
    <2>1. c \in 1..(Len(ops) * WorldChunks) /\ c \in 1..WorldChunks
        BY <1>3 DEF Chunks
    <2>2. s[c] = LET o == ops[((c - 1) % Len(ops)) + 1]
                 IN  Op(o[1], <<o[2], ((c - 1) \div Len(ops)) + 1>>)
        BY <2>1 DEF ForChunks
    <2>3. ((c - 1) % Len(ops)) + 1 = 1 /\ ((c - 1) \div Len(ops)) + 1 = c
        BY <2>1, <1>4
    <2>. QED
        BY <2>2, <2>3, <1>2
<1>7. s \in [1..WorldChunks -> S]
    <2>1. s = [i \in 1..WorldChunks |-> s[i]]
        BY <1>3 DEF ForChunks
    <2>. HIDE DEF s
    <2>. QED
        BY <2>1, <1>6 DEF Chunks
<1>8. s \in Seq(S) /\ Len(s) = WorldChunks
    <2>. HIDE DEF s
    <2>. QED
        BY <1>1, <1>7, LengthIs
<1>9. \A A : Has(s, A) <=> \E c \in Chunks : Op(op, <<name, c>>) \in A
    <2>. HIDE DEF s
    <2>. QED
        BY <1>5, <1>6 DEF Has
<1>. QED
    BY <1>5, <1>6, <1>8, <1>9

LEMMA ForChunksTwo ==
    ASSUME NEW p, NEW m, NEW q, NEW n, NEW S,
           \A c \in Chunks : Op(p, <<m, c>>) \in S /\ Op(q, <<n, c>>) \in S
    PROVE  LET s == ForChunks(<< <<p, m>>, <<q, n>> >>)
           IN  /\ s \in Seq(S)
               /\ \A i \in DOMAIN s :
                     \/ \E c \in Chunks : s[i] = Op(p, <<m, c>>)
                     \/ \E c \in Chunks : /\ s[i] = Op(q, <<n, c>>)
                                          /\ i > 1 /\ i - 1 \in DOMAIN s
                                          /\ s[i - 1] = Op(p, <<m, c>>)
               /\ \A A : Has(s, A) <=> \E c \in Chunks : \/ Op(p, <<m, c>>) \in A
                                                         \/ Op(q, <<n, c>>) \in A
<1>. DEFINE ops == << <<p, m>>, <<q, n>> >>
            s == ForChunks(ops)
<1>1. WorldChunks \in Nat
    BY WorldFilesAssumption
<1>2. Len(ops) = 2 /\ ops[1] = <<p, m>> /\ ops[2] = <<q, n>>
    OBVIOUS
<1>3. Len(ops) * WorldChunks = 2 * WorldChunks
    BY <1>2
<1>4. \A c \in Chunks :
        /\ 2 * c - 1 \in 1..(2 * WorldChunks) /\ 2 * c \in 1..(2 * WorldChunks)
        /\ ((2 * c - 1 - 1) % 2) + 1 = 1 /\ ((2 * c - 1 - 1) \div 2) + 1 = c
        /\ ((2 * c - 1) % 2) + 1 = 2 /\ ((2 * c - 1) \div 2) + 1 = c
    BY <1>1 DEF Chunks
<1>5. DOMAIN s = 1..(2 * WorldChunks)
    BY <1>3 DEF ForChunks
<1>6. \A i \in 1..(2 * WorldChunks) :
         s[i] = LET o == ops[((i - 1) % 2) + 1]
                IN  Op(o[1], <<o[2], ((i - 1) \div 2) + 1>>)
    BY <1>2, <1>3 DEF ForChunks
<1>7. \A c \in Chunks : s[2 * c - 1] = Op(p, <<m, c>>) /\ s[2 * c] = Op(q, <<n, c>>)
    <2>. HIDE DEF s
    <2>. SUFFICES ASSUME NEW c \in Chunks
                  PROVE  s[2 * c - 1] = Op(p, <<m, c>>) /\ s[2 * c] = Op(q, <<n, c>>)
        OBVIOUS
    <2>1. s[2 * c - 1] = LET o == ops[1] IN Op(o[1], <<o[2], c>>)
        BY <1>4, <1>6
    <2>2. s[2 * c] = LET o == ops[2] IN Op(o[1], <<o[2], c>>)
        BY <1>4, <1>6
    <2>. QED
        BY <2>1, <2>2, <1>2
<1>8. \A i \in 1..(2 * WorldChunks) :
         \E c \in Chunks : i = 2 * c - 1 \/ (i = 2 * c /\ i > 1 /\ i - 1 = 2 * c - 1)
    <2>. SUFFICES ASSUME NEW i \in 1..(2 * WorldChunks)
                  PROVE  \E c \in Chunks : i = 2 * c - 1 \/ (i = 2 * c /\ i > 1 /\ i - 1 = 2 * c - 1)
        OBVIOUS
    <2>. DEFINE c == ((i - 1) \div 2) + 1
    <2>1. c \in Chunks /\ (i = 2 * c - 1 \/ (i = 2 * c /\ i > 1 /\ i - 1 = 2 * c - 1))
        BY <1>1 DEF Chunks
    <2>. QED
        BY <2>1
<1>. HIDE DEF s
<1>9. \A i \in DOMAIN s :
         \/ \E c \in Chunks : s[i] = Op(p, <<m, c>>)
         \/ \E c \in Chunks : /\ s[i] = Op(q, <<n, c>>)
                              /\ i > 1 /\ i - 1 \in DOMAIN s
                              /\ s[i - 1] = Op(p, <<m, c>>)
    <2>. SUFFICES ASSUME NEW i \in DOMAIN s
                  PROVE  \/ \E c \in Chunks : s[i] = Op(p, <<m, c>>)
                         \/ \E c \in Chunks : /\ s[i] = Op(q, <<n, c>>)
                                              /\ i > 1 /\ i - 1 \in DOMAIN s
                                              /\ s[i - 1] = Op(p, <<m, c>>)
        OBVIOUS
    <2>1. PICK c \in Chunks : i = 2 * c - 1 \/ (i = 2 * c /\ i > 1 /\ i - 1 = 2 * c - 1)
        BY <1>5, <1>8
    <2>2. 2 * c - 1 \in DOMAIN s
        BY <1>4, <1>5
    <2>. QED
        BY <2>1, <2>2, <1>7
<1>10. s \in [1..(2 * WorldChunks) -> S]
    <2>1. s = [i \in 1..(2 * WorldChunks) |-> s[i]]
        BY <1>3 DEF ForChunks, s
    <2>2. \A i \in 1..(2 * WorldChunks) : s[i] \in S
        BY <1>5, <1>9
    <2>. QED
        BY <2>1, <2>2
<1>11. s \in Seq(S)
    BY <1>1, <1>10, LengthIs
<1>12. ASSUME NEW A PROVE Has(s, A) <=> \E c \in Chunks : \/ Op(p, <<m, c>>) \in A
                                                            \/ Op(q, <<n, c>>) \in A
    <2>1. ASSUME Has(s, A)
          PROVE  \E c \in Chunks : Op(p, <<m, c>>) \in A \/ Op(q, <<n, c>>) \in A
        <3>1. PICK i \in DOMAIN s : s[i] \in A
            BY <2>1 DEF Has
        <3>. QED
            BY <3>1, <1>9
    <2>2. ASSUME NEW c \in Chunks, Op(p, <<m, c>>) \in A \/ Op(q, <<n, c>>) \in A
          PROVE  Has(s, A)
        <3>1. 2 * c - 1 \in DOMAIN s /\ 2 * c \in DOMAIN s
            BY <1>4, <1>5
        <3>. QED
            BY <2>2, <3>1, <1>7 DEF Has
    <2>. QED
        BY <2>1, <2>2
<1>. QED
    BY <1>9, <1>11, <1>12 DEF s

----------------------------------------------------------------------------
(* The scripts: their order.                                               *)

LEMMA HasNo ==
    ASSUME NEW s, NEW M, NEW N \in SUBSET M, ~Has(s, Named(M))
    PROVE  ~Has(s, Named(N))
<1>1. Named(N) \subseteq Named(M)
    BY DEF Named
<1>. QED
    BY <1>1, HasMore

LEMMA HasNotIn ==
    ASSUME NEW S, NEW s \in Seq(S), NEW A, S \cap A = {}
    PROVE  ~Has(s, A)
<1>1. \A i \in DOMAIN s : s[i] \in S
    OBVIOUS
<1>. QED
    BY <1>1 DEF Has

\* Operations that change no format, promise nothing and end nothing.
Plain == OpNames \ (Conversions \cup Promises \cup {"loaded", "leave", "list"})

\* Such operations may be put before a script in order, if what they delete
\* is written again.
LEMMA PlainBefore ==
    ASSUME NEW s \in Seq(GameOps), NEW t \in Seq(GameOps), InOrder(t),
           ~Has(s, Named(OpNames \ Plain)),
           Has(s, Named(Reads)) => ~Has(t, Named({"saved"})),
           Has(s, Named({"fit"})) => Has(t, Named({"saved"})),
           \A f \in Listed : Then(s, On("delete", f), On("write", f))
                             \/ Has(t, On("write", f))
    PROVE  InOrder(s \o t)
<1>1. /\ Then(s \o t, Named({"setVersion4", "setVersion5", "list"}), Named({"saveGame"}))
      /\ Then(s \o t, Named({"setVersion4"}), Named({"setVersion5"}))
      /\ Then(s \o t, Named({"setVersion4", "setVersion5", "replaceOldWater"}), Named({"made"}))
    <2>1. /\ ~Has(s, Named({"setVersion4", "setVersion5", "list"}))
          /\ ~Has(s, Named({"setVersion4"}))
          /\ ~Has(s, Named({"setVersion4", "setVersion5", "replaceOldWater"}))
        <3>1. /\ {"setVersion4", "setVersion5", "list"} \in SUBSET (OpNames \ Plain)
              /\ {"setVersion4"} \in SUBSET (OpNames \ Plain)
              /\ {"setVersion4", "setVersion5", "replaceOldWater"} \in SUBSET (OpNames \ Plain)
            BY DEF Plain, OpNames, Conversions
        <3>. QED
            BY <3>1, HasNo
    <2>. QED
        BY <2>1, HasNone, ThenConcat DEF InOrder
<1>2. Then(s \o t, Named({"fit", "list"}), Named({"saved"}))
    <2>1. CASE Has(t, Named({"saved"}))
        BY <2>1, ThenConcat DEF InOrder
    <2>2. CASE ~Has(s, Named({"fit"}))
        <3>1. ~Has(s, Named({"list"}))
            BY HasNo DEF Plain, OpNames, Conversions
        <3>2. ~Has(s, Named({"fit", "list"}))
            BY <2>2, <3>1 DEF Has, Named
        <3>. QED
            BY <3>2, HasNone, ThenConcat DEF InOrder
    <2>. QED
        BY <2>1, <2>2
<1>3. /\ Never(s \o t, Named(Promises), Named(OpNames \ {"leave"}))
      /\ Never(s \o t, Named({"leave"}), Ops)
      /\ Never(s \o t, Named(Conversions \cup {"loaded"}), Named(Reads \cup {"loaded"}))
    <2>1. /\ ~Has(s, Named(Promises)) /\ ~Has(s, Named({"leave"}))
          /\ ~Has(s, Named(Conversions \cup {"loaded"}))
        <3>1. /\ Promises \in SUBSET (OpNames \ Plain)
              /\ {"leave"} \in SUBSET (OpNames \ Plain)
              /\ (Conversions \cup {"loaded"}) \in SUBSET (OpNames \ Plain)
            BY DEF Plain, OpNames, Conversions, Promises
        <3>. QED
            BY <3>1, HasNo
    <2>. QED
        BY <2>1, HasNone, NeverConcat DEF InOrder
<1>4. \A f \in Listed : Then(s \o t, On("delete", f), On("write", f))
    BY ThenConcat DEF InOrder
<1>5. \A f \in ChunkFiles : Then(s \o t, Named({"replaceOldWater"}), On("write", f))
    <2>1. ~Has(s, Named({"replaceOldWater"}))
        <3>1. {"replaceOldWater"} \in SUBSET (OpNames \ Plain)
            BY DEF Plain, OpNames, Conversions
        <3>. QED
            BY <3>1, HasNo
    <2>. QED
        BY <2>1, HasNone, ThenConcat DEF InOrder
<1>6. ASSUME Has(s \o t, Named(Promises))
      PROVE  \A f \in Listed : Then(s \o t, Named({"loaded"}), On("write", f))
    <2>1. ~Has(s, Named(Promises)) /\ ~Has(s, Named({"loaded"}))
        <3>1. /\ Promises \in SUBSET (OpNames \ Plain)
              /\ {"loaded"} \in SUBSET (OpNames \ Plain)
            BY DEF Plain, OpNames, Conversions, Promises
        <3>. QED
            BY <3>1, HasNo
    <2>2. Has(t, Named(Promises))
        BY <1>6, <2>1, HasConcat
    <2>. QED
        BY <2>1, <2>2, HasNone, ThenConcat DEF InOrder
<1>7. ASSUME Has(s \o t, Named({"saved"}))
      PROVE  ~Has(s \o t, Named(Reads \cup Conversions \cup {"loaded"}))
    <2>1. /\ ~Has(s, Named({"saved"})) /\ ~Has(s, Named(Conversions \cup {"loaded"}))
        <3>1. /\ {"saved"} \in SUBSET (OpNames \ Plain)
              /\ (Conversions \cup {"loaded"}) \in SUBSET (OpNames \ Plain)
            BY DEF Plain, OpNames, Conversions, Promises
        <3>. QED
            BY <3>1, HasNo
    <2>2. Has(t, Named({"saved"}))
        BY <1>7, <2>1, HasConcat
    <2>3. ~Has(t, Named(Reads \cup Conversions \cup {"loaded"}))
        BY <2>2 DEF InOrder
    <2>4. ~Has(s, Named(Reads \cup Conversions \cup {"loaded"}))
        BY <2>1, <2>2 DEF Has, Named
    <2>. QED
        BY <2>3, <2>4, HasConcat
<1>. QED
    BY <1>1, <1>2, <1>3, <1>4, <1>5, <1>6, <1>7 DEF InOrder

LEMMA EmptyInOrder == InOrder(<<>>)
    BY HasNothing, HasNone DEF InOrder

LEMMA TailInOrder ==
    ASSUME NEW s \in Seq(Ops), s # <<>>, InOrder(s)
    PROVE  InOrder(Tail(s))
<1>1. ASSUME Has(Tail(s), Named(Promises))
      PROVE  \A f \in Listed : Then(Tail(s), Named({"loaded"}), On("write", f))
    BY <1>1, HasTail, ThenTail DEF InOrder
<1>2. ASSUME Has(Tail(s), Named({"saved"}))
      PROVE  ~Has(Tail(s), Named(Reads \cup Conversions \cup {"loaded"}))
    BY <1>2, HasTail DEF InOrder
<1>3. /\ Then(Tail(s), Named({"setVersion4", "setVersion5", "list"}), Named({"saveGame"}))
      /\ Then(Tail(s), Named({"setVersion4"}), Named({"setVersion5"}))
      /\ Then(Tail(s), Named({"setVersion4", "setVersion5", "replaceOldWater"}), Named({"made"}))
      /\ Then(Tail(s), Named({"fit", "list"}), Named({"saved"}))
    BY ThenTail DEF InOrder
<1>4. /\ Never(Tail(s), Named(Promises), Named(OpNames \ {"leave"}))
      /\ Never(Tail(s), Named({"leave"}), Ops)
      /\ Never(Tail(s), Named(Conversions \cup {"loaded"}), Named(Reads \cup {"loaded"}))
    BY NeverTail DEF InOrder
<1>5. \A f \in Listed : Then(Tail(s), On("delete", f), On("write", f))
    BY ThenTail DEF InOrder
<1>6. \A f \in ChunkFiles : Then(Tail(s), Named({"replaceOldWater"}), On("write", f))
    BY ThenTail DEF InOrder
<1>. QED
    BY <1>1, <1>2, <1>3, <1>4, <1>5, <1>6 DEF InOrder

\* Any other operation may be put before a script in order if what follows
\* is what it calls for.
LEMMA OneBefore ==
    ASSUME NEW a \in GameOps, NEW t \in Seq(GameOps), InOrder(t),
           a.op \in {"loaded", "leave", "list", "saveGame"} \cup Conversions \cup Promises,
           a.op \in {"setVersion4", "setVersion5", "list"} => Has(t, Named({"saveGame"})),
           a.op = "setVersion4" => Has(t, Named({"setVersion5"})),
           a.op \in {"setVersion4", "setVersion5", "replaceOldWater"} => Has(t, Named({"made"})),
           a.op = "list" => Has(t, Named({"saved"})),
           a.op \in Promises => ~Has(t, Named(OpNames \ {"leave"})),
           a.op = "leave" => t = <<>>,
           a.op \in Conversions \cup {"loaded"} =>
               ~Has(t, Named(Reads \cup {"loaded", "saved"})),
           a.op = "replaceOldWater" => \A f \in ChunkFiles : Has(t, On("write", f)),
           a.op = "loaded" /\ Has(t, Named(Promises)) => \A f \in Listed : Has(t, On("write", f))
    PROVE  InOrder(<<a>> \o t)
<1>. DEFINE s == <<a>>
<1>. a \in Ops
    BY DEF GameOps
<1>0. s \in Seq(GameOps) /\ (\A A : Has(s, A) <=> a \in A) /\ DOMAIN s = {1} /\ s[1] = a
    <2>1. s \in Seq(GameOps) /\ (\A A : Has(s, A) <=> a \in A) /\ DOMAIN s = {1}
        BY OneOp
    <2>. QED
        BY <2>1
<1>. HIDE DEF s
<1>1. \A A, B : a \notin A => Then(s, A, B)
    BY <1>0, HasNone
<1>2. \A A, B : Never(s, A, B)
    BY <1>0 DEF Never
<1>3. \A N : a \in Named(N) <=> a.op \in N
    BY DEF Named
<1>4. /\ Then(s \o t, Named({"setVersion4", "setVersion5", "list"}), Named({"saveGame"}))
      /\ Then(s \o t, Named({"setVersion4"}), Named({"setVersion5"}))
      /\ Then(s \o t, Named({"setVersion4", "setVersion5", "replaceOldWater"}), Named({"made"}))
    <2>1. Then(s \o t, Named({"setVersion4", "setVersion5", "list"}), Named({"saveGame"}))
        BY <1>0, <1>1, <1>3, ThenConcat DEF InOrder
    <2>2. Then(s \o t, Named({"setVersion4"}), Named({"setVersion5"}))
        BY <1>0, <1>1, <1>3, ThenConcat DEF InOrder
    <2>3. Then(s \o t, Named({"setVersion4", "setVersion5", "replaceOldWater"}), Named({"made"}))
        BY <1>0, <1>1, <1>3, ThenConcat DEF InOrder
    <2>. QED
        BY <2>1, <2>2, <2>3
<1>5. Then(s \o t, Named({"fit", "list"}), Named({"saved"}))
    <2>1. a.op # "fit"
        BY DEF Conversions, Promises
    <2>. QED
        BY <2>1, <1>0, <1>1, <1>3, ThenConcat DEF InOrder
<1>6. Never(s \o t, Named(Promises), Named(OpNames \ {"leave"}))
    BY <1>0, <1>2, <1>3, NeverConcat DEF InOrder
<1>7. Never(s \o t, Named({"leave"}), Ops)
    BY <1>0, <1>2, <1>3, NeverConcat, HasNothing DEF InOrder
<1>8. Never(s \o t, Named(Conversions \cup {"loaded"}), Named(Reads \cup {"loaded"}))
    <2>1. a.op \in Conversions \cup {"loaded"} => ~Has(t, Named(Reads \cup {"loaded"}))
        BY HasNo
    <2>. QED
        BY <2>1, <1>0, <1>2, <1>3, NeverConcat DEF InOrder
<1>9. \A f \in Listed : Then(s \o t, On("delete", f), On("write", f))
    <2>1. \A f : a \notin On("delete", f)
        BY DEF On, Conversions, Promises
    <2>. QED
        BY <2>1, <1>0, <1>1, ThenConcat DEF InOrder
<1>10. \A f \in ChunkFiles : Then(s \o t, Named({"replaceOldWater"}), On("write", f))
    BY <1>0, <1>1, <1>3, ThenConcat DEF InOrder
<1>11. ASSUME Has(s \o t, Named(Promises)), NEW f \in Listed
       PROVE  Then(s \o t, Named({"loaded"}), On("write", f))
    <2>1. CASE Has(t, Named(Promises))
        <3>1. Then(t, Named({"loaded"}), On("write", f))
            BY <2>1 DEF InOrder
        <3>. QED
            BY <2>1, <3>1, <1>0, <1>1, <1>3, ThenConcat
    <2>2. CASE a.op \in Promises
        <3>1. ~Has(t, Named({"loaded"}))
            <4>1. {"loaded"} \in SUBSET (OpNames \ {"leave"})
                BY DEF OpNames
            <4>. QED
                BY <2>2, <4>1, HasNo
        <3>2. Then(t, Named({"loaded"}), On("write", f))
            BY <3>1, HasNone
        <3>3. a \notin Named({"loaded"})
            BY <2>2, <1>3 DEF Promises
        <3>. QED
            BY <3>2, <3>3, <1>0, <1>1, ThenConcat
    <2>. QED
        BY <1>11, <2>1, <2>2, <1>0, <1>3, HasConcat
<1>12. ASSUME Has(s \o t, Named({"saved"}))
       PROVE  ~Has(s \o t, Named(Reads \cup Conversions \cup {"loaded"}))
    <2>1. CASE Has(t, Named({"saved"}))
        <3>1. a.op \notin Reads \cup Conversions \cup {"loaded"}
            <4>1. a.op \in Conversions \cup {"loaded"} => ~Has(t, Named({"saved"}))
                BY HasNo
            <4>. QED
                BY <2>1, <4>1 DEF Reads, Conversions, Promises
        <3>. QED
            BY <2>1, <3>1, <1>0, <1>3, HasConcat DEF InOrder
    <2>2. CASE a.op = "saved"
        <3>1. (Reads \cup Conversions \cup {"loaded"}) \in SUBSET (OpNames \ {"leave"})
            BY DEF OpNames, Reads, Conversions
        <3>2. ~Has(t, Named(Reads \cup Conversions \cup {"loaded"}))
            BY <2>2, <3>1, HasNo DEF Promises
        <3>3. a.op \notin Reads \cup Conversions \cup {"loaded"}
            BY <2>2 DEF Reads, Conversions
        <3>. QED
            BY <3>2, <3>3, <1>0, <1>3, HasConcat
    <2>. QED
        BY <1>12, <2>1, <2>2, <1>0, <1>3, HasConcat
<1>13. InOrder(s \o t)
    BY <1>4, <1>5, <1>6, <1>7, <1>8, <1>9, <1>10, <1>11, <1>12 DEF InOrder
<1>. QED
    BY <1>13 DEF s

----------------------------------------------------------------------------
(* The files and what is done with them.                                   *)

LEMMA FilesAre ==
    /\ WorldData \in Listed /\ EntityData \in Listed
    /\ <<"playerData", 0>> \in Listed /\ <<"chestData", 0>> \in Listed
    /\ Listed \subseteq Files /\ ChunkFiles \subseteq Listed
    /\ \A c \in Chunks : <<"chunk", c>> \in ChunkFiles /\ <<"chunkED", c>> \in Files
    /\ \A f \in Files :
          \/ f \in {WorldData, EntityData, <<"playerData", 0>>, <<"chestData", 0>>}
          \/ \E c \in Chunks : f = <<"chunk", c>> \/ f = <<"chunkED", c>>
    /\ \A f \in Listed :
          \/ f \in {WorldData, EntityData, <<"playerData", 0>>, <<"chestData", 0>>}
          \/ f \in ChunkFiles
    /\ \A f \in Files : f[1] = "chunk" <=> f \in ChunkFiles
    BY DEF WorldData, EntityData, ChunkFiles, Listed, Files

LEMMA OpIs ==
    ASSUME NEW name \in OpNames, NEW f \in Files
    PROVE  /\ Op(name, f) \in Ops
           /\ Op(name, f).op = name /\ Op(name, f).file = f
           /\ \A N : Op(name, f) \in Named(N) <=> name \in N
           /\ \A n, g : Op(name, f) \in On(n, g) <=> name = n /\ f = g
           /\ Op(name, f) \in GameOps <=> f \in FilesFor(name)
    BY DEF Op, Ops, Named, On, GameOps

LEMMA DoIs ==
    ASSUME NEW name \in OpNames
    PROVE  /\ Do(name) = Op(name, WorldData) /\ Do(name) \in Ops
           /\ Do(name).op = name /\ Do(name).file = WorldData
           /\ \A N : Do(name) \in Named(N) <=> name \in N
           /\ \A n, g : Do(name) \in On(n, g) <=> name = n /\ g = WorldData
           /\ Do(name) \in GameOps <=> WorldData \in FilesFor(name)
<1>1. Do(name) = Op(name, WorldData) /\ WorldData \in Files
    BY FilesAre DEF Do, WorldData
<1>. QED
    BY <1>1, OpIs

\* The scripts that use only operations with names in N.
Using(N) == Seq(GameOps \cap Named(N))

LEMMA UsingIs ==
    ASSUME NEW N \in SUBSET OpNames, NEW s \in Using(N)
    PROVE  /\ s \in Seq(GameOps)
           /\ \A M \in SUBSET OpNames : N \subseteq M => s \in Using(M)
           /\ \A M : M \cap N = {} => ~Has(s, Named(M))
<1>1. s \in Seq(GameOps)
    BY SeqMonotonic DEF Using
<1>2. ASSUME NEW M \in SUBSET OpNames, N \subseteq M PROVE s \in Using(M)
    <2>1. GameOps \cap Named(N) \subseteq GameOps \cap Named(M)
        BY <1>2 DEF Named
    <2>. QED
        BY <2>1, SeqMonotonic DEF Using
<1>3. ASSUME NEW M, M \cap N = {} PROVE ~Has(s, Named(M))
    <2>1. (GameOps \cap Named(N)) \cap Named(M) = {}
        BY <1>3 DEF Named
    <2>. QED
        BY <2>1, HasNotIn DEF Using
<1>. QED
    BY <1>1, <1>2, <1>3

LEMMA UsingConcat ==
    ASSUME NEW N \in SUBSET OpNames, NEW s \in Using(N), NEW t \in Using(N)
    PROVE  s \o t \in Using(N)
    BY ConcatProperties DEF Using

\* A file is created before it is written, but for those of G.
Paired(s, G) ==
    \A i \in DOMAIN s : \A f \in Listed \ G : s[i] \in On("write", f) =>
        i > 1 /\ i - 1 \in DOMAIN s /\ s[i - 1] \in On("create", f)

LEMMA PairedConcat ==
    ASSUME NEW S, NEW s \in Seq(S), NEW t \in Seq(S), NEW G, Paired(s, G), Paired(t, G)
    PROVE  Paired(s \o t, G)
<1>1. ASSUME NEW i \in DOMAIN (s \o t), NEW f \in Listed \ G, (s \o t)[i] \in On("write", f)
      PROVE  i > 1 /\ i - 1 \in DOMAIN (s \o t) /\ (s \o t)[i - 1] \in On("create", f)
    <2>1. CASE i \in DOMAIN s
        <3>1. s[i] \in On("write", f)
            BY <1>1, <2>1, ConcatIs
        <3>2. i > 1 /\ i - 1 \in DOMAIN s /\ s[i - 1] \in On("create", f)
            BY <2>1, <3>1 DEF Paired
        <3>. QED
            BY <3>2, ConcatIs
    <2>2. CASE i \notin DOMAIN s
        <3>1. i - Len(s) \in DOMAIN t /\ t[i - Len(s)] \in On("write", f) /\ i > Len(s)
            BY <1>1, <2>2, ConcatPart
        <3>2. i - Len(s) > 1 /\ i - Len(s) - 1 \in DOMAIN t
              /\ t[i - Len(s) - 1] \in On("create", f)
            BY <3>1 DEF Paired
        <3>3. i - 1 = Len(s) + (i - Len(s) - 1) /\ i > 1
            <4>1. Len(s) \in Nat /\ i \in Nat
                BY ConcatIs
            <4>. QED
                BY <3>1, <3>2, <4>1
        <3>4. i - 1 \in DOMAIN (s \o t) /\ (s \o t)[i - 1] = t[i - Len(s) - 1]
            BY <3>2, <3>3, ConcatIs
        <3>. QED
            BY <3>2, <3>3, <3>4
    <2>. QED
        BY <2>1, <2>2
<1>. QED
    BY <1>1 DEF Paired

LEMMA NoWrites ==
    ASSUME NEW s, NEW G, ~Has(s, Named({"write"}))
    PROVE  Paired(s, G)
    BY DEF Paired, Has, On, Named

LEMMA SaveIs ==
    ASSUME NEW name \in {"worldData", "playerData", "chestData", "entityData"}
    PROVE  /\ Save(name) \in Using({"create", "write"})
           /\ \A A : Has(Save(name), A) <=> \/ Op("create", <<name, 0>>) \in A
                                            \/ Op("write", <<name, 0>>) \in A
           /\ \A G : Paired(Save(name), G)
<1>. DEFINE f == <<name, 0>>
<1>1. f \in Listed /\ f \in Files
    BY FilesAre DEF WorldData, EntityData
<1>2. "create" \in OpNames /\ "write" \in OpNames
    BY DEF OpNames
<1>3. f \in FilesFor("create") /\ f \in FilesFor("write")
    BY <1>1 DEF FilesFor
<1>. HIDE DEF f
<1>4. /\ Op("create", f) \in GameOps \cap Named({"create", "write"})
      /\ Op("write", f) \in GameOps \cap Named({"create", "write"})
    BY <1>1, <1>2, <1>3, OpIs
<1>. DEFINE s == <<Op("create", f), Op("write", f)>>
<1>5. /\ s \in Using({"create", "write"})
      /\ \A A : Has(s, A) <=> Op("create", f) \in A \/ Op("write", f) \in A
      /\ DOMAIN s = {1, 2} /\ s[1] = Op("create", f) /\ s[2] = Op("write", f)
    BY <1>4, TwoOps DEF Using
<1>. HIDE DEF s
<1>6. \A G : Paired(s, G)
    <2>1. ASSUME NEW i \in DOMAIN s, NEW g \in Listed, s[i] \in On("write", g)
          PROVE  i > 1 /\ i - 1 \in DOMAIN s /\ s[i - 1] \in On("create", g)
        <3>1. i = 2 /\ g = f
            BY <2>1, <1>1, <1>2, <1>5, OpIs
        <3>2. Op("create", f) \in On("create", f)
            BY <1>1, <1>2, OpIs
        <3>. QED
            BY <3>1, <3>2, <1>5
    <2>. QED
        BY <2>1 DEF Paired
<1>7. Save(name) = s
    BY DEF Save, s, f
<1>. QED
    BY <1>5, <1>6, <1>7 DEF f

LEMMA SaveChunksIs ==
    /\ SaveChunks(FALSE) \in Using({"create", "write"})
    /\ \A f \in ChunkFiles : Has(SaveChunks(FALSE), On("write", f))
    /\ \A G : Paired(SaveChunks(FALSE), G)
    /\ SaveChunks(TRUE) \in Using({"fit"})
    /\ \A f \in ChunkFiles : Has(SaveChunks(TRUE), On("fit", f))
<1>. DEFINE s == ForChunks(<< <<"create", "chunk">>, <<"write", "chunk">> >>)
            t == ForChunks(<< <<"fit", "chunk">> >>)
<1>1. SaveChunks(FALSE) = s /\ SaveChunks(TRUE) = t
    BY DEF SaveChunks
<1>2. "create" \in OpNames /\ "write" \in OpNames /\ "fit" \in OpNames
    BY DEF OpNames
<1>3. \A c \in Chunks : /\ <<"chunk", c>> \in Files /\ <<"chunk", c>> \in FilesFor("create")
                        /\ <<"chunk", c>> \in FilesFor("write")
                        /\ <<"chunk", c>> \in FilesFor("fit")
    BY FilesAre DEF FilesFor
<1>4. \A c \in Chunks :
         /\ Op("create", <<"chunk", c>>) \in GameOps \cap Named({"create", "write"})
         /\ Op("write", <<"chunk", c>>) \in GameOps \cap Named({"create", "write"})
         /\ Op("fit", <<"chunk", c>>) \in GameOps \cap Named({"fit"})
         /\ Op("create", <<"chunk", c>>) \in On("create", <<"chunk", c>>)
         /\ Op("write", <<"chunk", c>>) \in On("write", <<"chunk", c>>)
         /\ Op("fit", <<"chunk", c>>) \in On("fit", <<"chunk", c>>)
    <2>. SUFFICES ASSUME NEW c \in Chunks
                  PROVE  /\ Op("create", <<"chunk", c>>) \in GameOps \cap Named({"create", "write"})
                         /\ Op("write", <<"chunk", c>>) \in GameOps \cap Named({"create", "write"})
                         /\ Op("fit", <<"chunk", c>>) \in GameOps \cap Named({"fit"})
                         /\ Op("create", <<"chunk", c>>) \in On("create", <<"chunk", c>>)
                         /\ Op("write", <<"chunk", c>>) \in On("write", <<"chunk", c>>)
                         /\ Op("fit", <<"chunk", c>>) \in On("fit", <<"chunk", c>>)
        OBVIOUS
    <2>. DEFINE f == <<"chunk", c>>
    <2>1. f \in Files /\ f \in FilesFor("create") /\ f \in FilesFor("write")
          /\ f \in FilesFor("fit")
        BY <1>3
    <2>. HIDE DEF f
    <2>2. /\ Op("create", f) \in GameOps \cap Named({"create", "write"})
          /\ Op("create", f) \in On("create", f)
        BY <1>2, <2>1, OpIs
    <2>3. /\ Op("write", f) \in GameOps \cap Named({"create", "write"})
          /\ Op("write", f) \in On("write", f)
        BY <1>2, <2>1, OpIs
    <2>4. /\ Op("fit", f) \in GameOps \cap Named({"fit"})
          /\ Op("fit", f) \in On("fit", f)
        BY <1>2, <2>1, OpIs
    <2>. QED
        BY <2>2, <2>3, <2>4 DEF f
<1>5. /\ s \in Using({"create", "write"})
      /\ \A i \in DOMAIN s :
            \/ \E c \in Chunks : s[i] = Op("create", <<"chunk", c>>)
            \/ \E c \in Chunks : /\ s[i] = Op("write", <<"chunk", c>>)
                                 /\ i > 1 /\ i - 1 \in DOMAIN s
                                 /\ s[i - 1] = Op("create", <<"chunk", c>>)
      /\ \A A : Has(s, A) <=> \E c \in Chunks : \/ Op("create", <<"chunk", c>>) \in A
                                                \/ Op("write", <<"chunk", c>>) \in A
    <2>. DEFINE S == GameOps \cap Named({"create", "write"})
    <2>1. \A c \in Chunks : Op("create", <<"chunk", c>>) \in S /\ Op("write", <<"chunk", c>>) \in S
        BY <1>4
    <2>. HIDE DEF S
    <2>. QED
        <3>1. LET s1 == ForChunks(<< <<"create", "chunk">>, <<"write", "chunk">> >>)
              IN  /\ s1 \in Seq(S)
                  /\ \A i \in DOMAIN s1 :
                        \/ \E c \in Chunks : s1[i] = Op("create", <<"chunk", c>>)
                        \/ \E c \in Chunks : /\ s1[i] = Op("write", <<"chunk", c>>)
                                             /\ i > 1 /\ i - 1 \in DOMAIN s1
                                             /\ s1[i - 1] = Op("create", <<"chunk", c>>)
                  /\ \A A : Has(s1, A) <=> \E c \in Chunks : \/ Op("create", <<"chunk", c>>) \in A
                                                             \/ Op("write", <<"chunk", c>>) \in A
            BY Zenon, <2>1, ForChunksTwo
        <3>. QED
            BY <3>1 DEF Using, S
<1>6. /\ t \in Using({"fit"})
      /\ \A A : Has(t, A) <=> \E c \in Chunks : Op("fit", <<"chunk", c>>) \in A
    BY <1>4, ForChunksOne DEF Using
<1>. HIDE DEF s, t
<1>7. \A f \in ChunkFiles : Has(s, On("write", f)) /\ Has(t, On("fit", f))
    <2>1. \A f \in ChunkFiles : \E c \in Chunks : f = <<"chunk", c>>
        BY DEF ChunkFiles
    <2>. QED
        BY <2>1, <1>4, <1>5, <1>6
<1>8. \A G : Paired(s, G)
    <2>1. ASSUME NEW i \in DOMAIN s, NEW g \in Listed, s[i] \in On("write", g)
          PROVE  i > 1 /\ i - 1 \in DOMAIN s /\ s[i - 1] \in On("create", g)
        <3>1. \A c \in Chunks : s[i] # Op("create", <<"chunk", c>>)
            BY <2>1 DEF Op, On
        <3>2. PICK c \in Chunks : /\ s[i] = Op("write", <<"chunk", c>>)
                                  /\ i > 1 /\ i - 1 \in DOMAIN s
                                  /\ s[i - 1] = Op("create", <<"chunk", c>>)
            BY <3>1, <1>5
        <3>3. g = <<"chunk", c>>
            BY <2>1, <3>2, <1>2, <1>3, OpIs
        <3>. QED
            BY <3>2, <3>3, <1>4
    <2>. QED
        BY <2>1 DEF Paired
<1>. QED
    BY <1>1, <1>5, <1>6, <1>7, <1>8

\* saveAllChunk writes every file, after creating it if the world is new.
LEMMA SaveAllIs ==
    /\ saveAllChunk(FALSE) \in Using({"create", "write"})
    /\ \A f \in Listed : Has(saveAllChunk(FALSE), On("write", f))
    /\ Has(saveAllChunk(FALSE), On("create", EntityData))
    /\ \A G : Paired(saveAllChunk(FALSE), G)
    /\ saveAllChunk(TRUE) \in Using({"create", "write", "fit"})
    /\ \A f \in Listed : Has(saveAllChunk(TRUE), On("write", f) \cup On("fit", f))
    /\ \A f \in ChunkFiles : Has(saveAllChunk(TRUE), On("fit", f))
    /\ Paired(saveAllChunk(TRUE), {EntityData})
    /\ \A f \in ChunkFiles : /\ ~Has(saveAllChunk(TRUE), On("create", f))
                             /\ ~Has(saveAllChunk(TRUE), On("write", f))
<1>. DEFINE P == savePlayerData
            W == saveWorldData
            C == saveChestData
            N == {"create", "write"}
            M == {"create", "write", "fit"}
<1>0. N \in SUBSET OpNames /\ M \in SUBSET OpNames /\ N \subseteq M /\ {"fit"} \subseteq M
      /\ {"fit"} \in SUBSET OpNames /\ {"write"} \in SUBSET OpNames
    BY DEF OpNames
<1>1. /\ P \in Using(N) /\ W \in Using(N) /\ C \in Using(N)
      /\ \A A : Has(P, A) <=> \/ Op("create", <<"playerData", 0>>) \in A
                              \/ Op("write", <<"playerData", 0>>) \in A
      /\ \A A : Has(W, A) <=> Op("create", WorldData) \in A \/ Op("write", WorldData) \in A
      /\ \A A : Has(C, A) <=> \/ Op("create", <<"chestData", 0>>) \in A
                              \/ Op("write", <<"chestData", 0>>) \in A
      /\ \A G : Paired(P, G) /\ Paired(W, G) /\ Paired(C, G)
    BY SaveIs DEF savePlayerData, saveWorldData, saveChestData, WorldData
<1>2. /\ saveEntityData(FALSE) \in Using(N)
      /\ \A A : Has(saveEntityData(FALSE), A) <=>
                    Op("create", EntityData) \in A \/ Op("write", EntityData) \in A
      /\ \A G : Paired(saveEntityData(FALSE), G)
    BY SaveIs DEF saveEntityData, EntityData
<1>3. /\ \A f \in Listed : /\ Op("create", f) \in On("create", f)
                           /\ Op("write", f) \in On("write", f)
                           /\ Op("write", f) \in GameOps \cap Named(N)
    <2>1. \A f \in Listed : f \in Files /\ f \in FilesFor("write")
        BY FilesAre DEF FilesFor
    <2>2. "create" \in OpNames /\ "write" \in OpNames
        BY DEF OpNames
    <2>. QED
        BY <2>1, <2>2, OpIs
<1>4. /\ saveEntityData(TRUE) \in Using(N)
      /\ \A A : Has(saveEntityData(TRUE), A) <=> Op("write", EntityData) \in A
      /\ Paired(saveEntityData(TRUE), {EntityData})
    <2>. DEFINE e == <<Op("write", EntityData)>>
    <2>1. saveEntityData(TRUE) = e
        BY DEF saveEntityData, EntityData
    <2>2. e \in Using(N) /\ (\A A : Has(e, A) <=> Op("write", EntityData) \in A)
          /\ DOMAIN e = {1} /\ e[1] = Op("write", EntityData)
        BY <1>3, OneOp, FilesAre DEF Using
    <2>. HIDE DEF e
    <2>3. \A f \in Listed \ {EntityData} : e[1] \notin On("write", f)
        BY <2>2, OpIs, FilesAre DEF OpNames
    <2>4. Paired(e, {EntityData})
        BY <2>2, <2>3 DEF Paired
    <2>. QED
        BY <2>1, <2>2, <2>4
<1>. HIDE DEF N, M, P, W, C
<1>5. /\ P \in Using(M) /\ W \in Using(M) /\ C \in Using(M)
      /\ saveEntityData(TRUE) \in Using(M) /\ SaveChunks(TRUE) \in Using(M)
    BY <1>0, <1>1, <1>4, UsingIs, SaveChunksIs
<1>6. /\ P \o W \in Using(N) /\ P \o W \o C \in Using(N)
      /\ P \o W \o C \o saveEntityData(FALSE) \in Using(N)
      /\ saveAllChunk(FALSE) = (P \o W \o C \o saveEntityData(FALSE)) \o SaveChunks(FALSE)
      /\ saveAllChunk(FALSE) \in Using(N)
    BY <1>0, <1>1, <1>2, UsingConcat, SaveChunksIs DEF saveAllChunk, P, W, C, N
<1>7. /\ P \o W \in Using(M) /\ P \o W \o C \in Using(M)
      /\ P \o W \o C \o saveEntityData(TRUE) \in Using(M)
      /\ saveAllChunk(TRUE) = (P \o W \o C \o saveEntityData(TRUE)) \o SaveChunks(TRUE)
      /\ saveAllChunk(TRUE) \in Using(M)
    BY <1>0, <1>5, UsingConcat DEF saveAllChunk, P, W, C
<1>8. \A A : Has(saveAllChunk(FALSE), A) <=>
                \/ Has(P, A) \/ Has(W, A) \/ Has(C, A)
                \/ Has(saveEntityData(FALSE), A) \/ Has(SaveChunks(FALSE), A)
    <2>. DEFINE S == GameOps \cap Named(N)
                X == P \o W
                Y == X \o C
                Z == Y \o saveEntityData(FALSE)
    <2>1. /\ P \in Seq(S) /\ W \in Seq(S) /\ C \in Seq(S) /\ saveEntityData(FALSE) \in Seq(S)
          /\ SaveChunks(FALSE) \in Seq(S) /\ X \in Seq(S) /\ Y \in Seq(S) /\ Z \in Seq(S)
        BY <1>1, <1>2, <1>5, <1>6, <1>7, SaveChunksIs DEF Using, N
    <2>2. \A A : Has(X, A) <=> Has(P, A) \/ Has(W, A)
        BY <2>1, HasConcat
    <2>3. \A A : Has(Y, A) <=> Has(X, A) \/ Has(C, A)
        <3>. HIDE DEF X
        <3>. QED
            BY <2>1, HasConcat
    <2>4. \A A : Has(Z, A) <=> Has(Y, A) \/ Has(saveEntityData(FALSE), A)
        <3>. HIDE DEF Y
        <3>. QED
            BY <2>1, HasConcat
    <2>5. \A A : Has(Z \o SaveChunks(FALSE), A) <=> Has(Z, A) \/ Has(SaveChunks(FALSE), A)
        <3>. HIDE DEF Z
        <3>. QED
            BY <2>1, HasConcat
    <2>6. saveAllChunk(FALSE) = Z \o SaveChunks(FALSE)
        BY <1>6
    <2>. HIDE DEF X, Y, Z
    <2>. QED
        BY <2>2, <2>3, <2>4, <2>5, <2>6
<1>9. \A A : Has(saveAllChunk(TRUE), A) <=>
                \/ Has(P, A) \/ Has(W, A) \/ Has(C, A)
                \/ Has(saveEntityData(TRUE), A) \/ Has(SaveChunks(TRUE), A)
    <2>. DEFINE S == GameOps \cap Named(M)
                X == P \o W
                Y == X \o C
                Z == Y \o saveEntityData(TRUE)
    <2>1. /\ P \in Seq(S) /\ W \in Seq(S) /\ C \in Seq(S) /\ saveEntityData(TRUE) \in Seq(S)
          /\ SaveChunks(TRUE) \in Seq(S) /\ X \in Seq(S) /\ Y \in Seq(S) /\ Z \in Seq(S)
        BY <1>1, <1>2, <1>5, <1>6, <1>7, SaveChunksIs DEF Using, N
    <2>2. \A A : Has(X, A) <=> Has(P, A) \/ Has(W, A)
        BY <2>1, HasConcat
    <2>3. \A A : Has(Y, A) <=> Has(X, A) \/ Has(C, A)
        <3>. HIDE DEF X
        <3>. QED
            BY <2>1, HasConcat
    <2>4. \A A : Has(Z, A) <=> Has(Y, A) \/ Has(saveEntityData(TRUE), A)
        <3>. HIDE DEF Y
        <3>. QED
            BY <2>1, HasConcat
    <2>5. \A A : Has(Z \o SaveChunks(TRUE), A) <=> Has(Z, A) \/ Has(SaveChunks(TRUE), A)
        <3>. HIDE DEF Z
        <3>. QED
            BY <2>1, HasConcat
    <2>6. saveAllChunk(TRUE) = Z \o SaveChunks(TRUE)
        BY <1>7
    <2>. HIDE DEF X, Y, Z
    <2>. QED
        BY <2>2, <2>3, <2>4, <2>5, <2>6
<1>10. ASSUME NEW f \in Listed
       PROVE  /\ Has(saveAllChunk(FALSE), On("write", f))
              /\ Has(saveAllChunk(TRUE), On("write", f) \cup On("fit", f))
    <2>1. CASE f \in ChunkFiles
        <3>1. Has(SaveChunks(TRUE), On("fit", f))
            BY <2>1, SaveChunksIs
        <3>2. Has(SaveChunks(TRUE), On("write", f) \cup On("fit", f))
            BY <3>1 DEF Has
        <3>. QED
            BY <2>1, <3>2, <1>8, <1>9, SaveChunksIs
    <2>2. CASE f \in {WorldData, EntityData, <<"playerData", 0>>, <<"chestData", 0>>}
        <3>1. Op("write", f) \in On("write", f) /\ Op("write", f) \in On("write", f) \cup On("fit", f)
            BY <1>3
        <3>2. \/ Has(P, On("write", f)) \/ Has(W, On("write", f)) \/ Has(C, On("write", f))
              \/ Has(saveEntityData(FALSE), On("write", f))
            BY <2>2, <3>1, <1>1, <1>2
        <3>3. LET A == On("write", f) \cup On("fit", f)
              IN  \/ Has(P, A) \/ Has(W, A) \/ Has(C, A)
                  \/ Has(saveEntityData(TRUE), A)
            BY <2>2, <3>1, <1>1, <1>4
        <3>. QED
            BY <3>2, <3>3, <1>8, <1>9
    <2>. QED
        BY <2>1, <2>2, FilesAre
<1>11. Has(saveAllChunk(FALSE), On("create", EntityData))
    BY <1>2, <1>3, <1>8, FilesAre
<1>12. \A G : Paired(saveAllChunk(FALSE), G)
    <2>. SUFFICES ASSUME NEW G PROVE Paired(saveAllChunk(FALSE), G)
        OBVIOUS
    <2>1. Paired(P \o W, G)
        BY <1>1, <1>6, PairedConcat DEF Using
    <2>2. Paired(P \o W \o C, G)
        BY <2>1, <1>1, <1>6, PairedConcat DEF Using
    <2>3. Paired(P \o W \o C \o saveEntityData(FALSE), G)
        BY <2>2, <1>2, <1>6, PairedConcat DEF Using
    <2>. QED
        <3>. DEFINE Z == P \o W \o C \o saveEntityData(FALSE)
        <3>1. /\ Z \in Seq(GameOps \cap Named(N)) /\ Paired(Z, G)
              /\ SaveChunks(FALSE) \in Seq(GameOps \cap Named(N)) /\ Paired(SaveChunks(FALSE), G)
              /\ saveAllChunk(FALSE) = Z \o SaveChunks(FALSE)
            BY <2>3, <1>6, SaveChunksIs DEF Using, N
        <3>. HIDE DEF Z
        <3>. QED
            BY <3>1, PairedConcat
<1>13. \A G : Paired(SaveChunks(TRUE), G)
    <2>1. ~Has(SaveChunks(TRUE), Named({"write"}))
        BY <1>0, UsingIs, SaveChunksIs
    <2>. QED
        BY <2>1, NoWrites
<1>14. Paired(saveAllChunk(TRUE), {EntityData})
    <2>1. Paired(P \o W, {EntityData})
        BY <1>1, <1>5, PairedConcat DEF Using
    <2>2. Paired(P \o W \o C, {EntityData})
        BY <2>1, <1>1, <1>5, <1>7, PairedConcat DEF Using
    <2>3. Paired(P \o W \o C \o saveEntityData(TRUE), {EntityData})
        BY <2>2, <1>4, <1>5, <1>7, PairedConcat DEF Using
    <2>. QED
        <3>. DEFINE Z == P \o W \o C \o saveEntityData(TRUE)
        <3>1. /\ Z \in Seq(GameOps \cap Named(M)) /\ Paired(Z, {EntityData})
              /\ SaveChunks(TRUE) \in Seq(GameOps \cap Named(M))
              /\ Paired(SaveChunks(TRUE), {EntityData})
              /\ saveAllChunk(TRUE) = Z \o SaveChunks(TRUE)
            BY <2>3, <1>5, <1>7, <1>13 DEF Using
        <3>. HIDE DEF Z
        <3>. QED
            BY <3>1, PairedConcat
<1>15. ASSUME NEW f \in ChunkFiles
       PROVE  ~Has(saveAllChunk(TRUE), On("create", f)) /\ ~Has(saveAllChunk(TRUE), On("write", f))
    <2>1. /\ On("create", f) \subseteq Named({"create"}) /\ On("write", f) \subseteq Named({"write"})
        BY DEF On, Named
    <2>2. ~Has(SaveChunks(TRUE), Named({"create"})) /\ ~Has(SaveChunks(TRUE), Named({"write"}))
        BY <1>0, UsingIs, SaveChunksIs
    <2>3. ~Has(SaveChunks(TRUE), On("create", f)) /\ ~Has(SaveChunks(TRUE), On("write", f))
        BY <2>1, <2>2, HasMore
    <2>4. \A g \in {WorldData, EntityData, <<"playerData", 0>>, <<"chestData", 0>>} :
             /\ g \in Files /\ g # f
        BY FilesAre DEF ChunkFiles, WorldData, EntityData
    <2>5. \A g \in {WorldData, EntityData, <<"playerData", 0>>, <<"chestData", 0>>} :
             /\ Op("create", g) \notin On("create", f) /\ Op("write", g) \notin On("create", f)
             /\ Op("create", g) \notin On("write", f) /\ Op("write", g) \notin On("write", f)
        BY <2>4, OpIs DEF OpNames
    <2>. QED
        BY <2>3, <2>5, <1>1, <1>4, <1>9
<1>. QED
    BY <1>6, <1>7, <1>9, <1>10, <1>11, <1>12, <1>14, <1>15, SaveChunksIs DEF M, N

----------------------------------------------------------------------------
(* The conversions.                                                        *)

LEMMA OneStep ==
    ASSUME NEW name \in OpNames, WorldData \in FilesFor(name)
    PROVE  /\ Do(name) \in GameOps /\ Do(name).op = name
           /\ <<Do(name)>> \in Using({name})
           /\ \A N : Has(<<Do(name)>>, Named(N)) <=> name \in N
           /\ \A n, g : Has(<<Do(name)>>, On(n, g)) <=> name = n /\ g = WorldData
<1>1. Do(name) \in GameOps \cap Named({name}) /\ Do(name).op = name
    BY DoIs
<1>. QED
    BY <1>1, DoIs, OneOp DEF Using

LEMMA NamesAre ==
    /\ {"create", "write", "fit", "delete", "load", "loadV4", "loadRaw",
        "saveGame", "setVersion4", "setVersion5", "replaceOldWater", "list",
        "loaded", "made", "saved", "leave"} \subseteq OpNames
    /\ \A name \in {"saveGame", "setVersion4", "setVersion5", "replaceOldWater",
                    "list", "loaded", "made", "saved", "leave"} :
          name \in OpNames /\ WorldData \in FilesFor(name)
    BY DEF OpNames, FilesFor

\* What the conversions use.
Converting == FileOps \cup Conversions \cup {"saveGame"}

LEMMA UsingWhole ==
    ASSUME NEW N \in SUBSET OpNames, NEW M \in SUBSET OpNames, N \subseteq M,
           NEW s \in Using(N), NEW t \in Using(M)
    PROVE  /\ s \in Using(M) /\ s \o t \in Using(M)
           /\ s \in Seq(GameOps) /\ t \in Seq(GameOps)
           /\ \A A : Has(s \o t, A) <=> Has(s, A) \/ Has(t, A)
<1>1. s \in Using(M)
    BY UsingIs
<1>2. s \o t \in Using(M)
    BY <1>1, UsingConcat
<1>3. s \in Seq(GameOps) /\ t \in Seq(GameOps)
    BY UsingIs
<1>. QED
    BY <1>1, <1>2, <1>3, HasConcat

\* What ends a conversion.
LastSteps == <<Do("setVersion5"), Do("saveGame"), Do("made")>>
LEMMA LastStepsAre ==
    /\ LastSteps \in Using({"setVersion5", "saveGame", "made"})
    /\ InOrder(LastSteps)
    /\ Has(LastSteps, Named({"setVersion5"})) /\ Has(LastSteps, Named({"saveGame"}))
    /\ Has(LastSteps, Named({"made"}))
<1>. DEFINE N == {"setVersion5", "saveGame", "made"}
            a == <<Do("setVersion5")>>
            b == <<Do("saveGame")>>
            c == <<Do("made")>>
<1>1. LastSteps = a \o (b \o (c \o <<>>))
    BY DEF LastSteps
<1>2. /\ N \in SUBSET OpNames /\ {"setVersion5"} \subseteq N /\ {"saveGame"} \subseteq N
      /\ {"made"} \subseteq N
      /\ {"setVersion5"} \in SUBSET OpNames /\ {"saveGame"} \in SUBSET OpNames
      /\ {"made"} \in SUBSET OpNames
    BY DEF OpNames
<1>3. /\ Do("setVersion5") \in GameOps /\ Do("setVersion5").op = "setVersion5"
      /\ Do("saveGame") \in GameOps /\ Do("saveGame").op = "saveGame"
      /\ Do("made") \in GameOps /\ Do("made").op = "made"
      /\ a \in Using({"setVersion5"}) /\ b \in Using({"saveGame"}) /\ c \in Using({"made"})
      /\ \A M : Has(a, Named(M)) <=> "setVersion5" \in M
      /\ \A M : Has(b, Named(M)) <=> "saveGame" \in M
      /\ \A M : Has(c, Named(M)) <=> "made" \in M
    BY OneStep, NamesAre
<1>4. <<>> \in Using(N)
    BY DEF Using
<1>. HIDE DEF a, b, c
<1>5. /\ c \o <<>> \in Using(N) /\ \A A : Has(c \o <<>>, A) <=> Has(c, A)
    BY <1>2, <1>3, <1>4, UsingWhole, HasNothing
<1>6. /\ b \o (c \o <<>>) \in Using(N)
      /\ \A A : Has(b \o (c \o <<>>), A) <=> Has(b, A) \/ Has(c, A)
    BY <1>2, <1>3, <1>5, UsingWhole
<1>7. /\ LastSteps \in Using(N)
      /\ \A A : Has(LastSteps, A) <=> Has(a, A) \/ Has(b, A) \/ Has(c, A)
    BY <1>1, <1>2, <1>3, <1>6, UsingWhole
<1>8. InOrder(c \o <<>>)
    <2>1. /\ <<>> \in Seq(GameOps) /\ InOrder(<<>>)
        BY EmptyInOrder
    <2>. QED
        BY <2>1, <1>3, HasNothing, OneBefore DEF c, Conversions, Promises
<1>9. InOrder(b \o (c \o <<>>))
    <2>1. c \o <<>> \in Seq(GameOps)
        BY <1>2, <1>5, UsingIs
    <2>2. "saveGame" \notin Conversions \cup Promises \cup {"list", "leave", "loaded"}
        BY DEF Conversions, Promises
    <2>. QED
        BY <2>1, <2>2, <1>3, <1>8, OneBefore DEF b, Conversions, Promises
<1>10. InOrder(LastSteps)
    <2>1. b \o (c \o <<>>) \in Seq(GameOps)
        BY <1>2, <1>6, UsingIs
    <2>2. /\ Has(b \o (c \o <<>>), Named({"saveGame"})) /\ Has(b \o (c \o <<>>), Named({"made"}))
        BY <1>3, <1>6
    <2>3. ~Has(b \o (c \o <<>>), Named(Reads \cup {"loaded", "saved"}))
        BY <1>3, <1>6 DEF Reads
    <2>4. "setVersion5" \in Conversions /\ "setVersion5" \notin Promises
        BY DEF Conversions, Promises
    <2>. QED
        BY <2>1, <2>2, <2>3, <2>4, <1>1, <1>3, <1>9, OneBefore DEF a
<1>. QED
    BY <1>3, <1>7, <1>10

LEMMA DeletesAre ==
    LET D == <<Op("delete", <<"playerData", 0>>), Op("delete", <<"chestData", 0>>)>>
    IN  /\ D \in Using({"delete"})
        /\ \A f : Has(D, On("delete", f)) => f \in {<<"playerData", 0>>, <<"chestData", 0>>}
<1>. DEFINE p == <<"playerData", 0>>
            c == <<"chestData", 0>>
<1>1. /\ p \in Files /\ c \in Files /\ p \in FilesFor("delete") /\ c \in FilesFor("delete")
    BY FilesAre DEF FilesFor, WorldData, EntityData
<1>2. "delete" \in OpNames
    BY DEF OpNames
<1>. HIDE DEF p, c
<1>3. /\ Op("delete", p) \in GameOps \cap Named({"delete"})
      /\ Op("delete", c) \in GameOps \cap Named({"delete"})
      /\ \A f : Op("delete", p) \in On("delete", f) <=> f = p
      /\ \A f : Op("delete", c) \in On("delete", f) <=> f = c
    BY <1>1, <1>2, OpIs
<1>4. LET D == <<Op("delete", p), Op("delete", c)>>
      IN  /\ D \in Using({"delete"})
          /\ \A f : Has(D, On("delete", f)) => f \in {p, c}
    BY <1>3, TwoOps DEF Using
<1>. QED
    BY <1>4 DEF p, c

\* Operations on files and nothing else may be put before a script in order
\* that writes again what they delete.
LEMMA FilesBefore ==
    ASSUME NEW N \in SUBSET {"create", "write", "delete"}, NEW s \in Using(N),
           NEW t \in Seq(GameOps), InOrder(t),
           \A f \in Listed : Then(s, On("delete", f), On("write", f)) \/ Has(t, On("write", f))
    PROVE  InOrder(s \o t)
<1>1. N \in SUBSET OpNames
    BY DEF OpNames
<1>2. s \in Seq(GameOps)
    BY <1>1, UsingIs
<1>3. /\ (OpNames \ Plain) \cap N = {} /\ Reads \cap N = {} /\ {"fit"} \cap N = {}
    BY DEF OpNames, Plain, Conversions, Promises, Reads
<1>4. /\ ~Has(s, Named(OpNames \ Plain)) /\ ~Has(s, Named(Reads)) /\ ~Has(s, Named({"fit"}))
    BY <1>1, <1>3, UsingIs
<1>. QED
    BY <1>2, <1>4, PlainBefore

LEMMA NoDeletes ==
    ASSUME NEW N \in SUBSET OpNames, "delete" \notin N, NEW s \in Using(N), NEW f
    PROVE  Then(s, On("delete", f), On("write", f))
<1>1. ~Has(s, Named({"delete"}))
    BY UsingIs
<1>2. ~Has(s, On("delete", f))
    BY <1>1 DEF Has, On, Named
<1>. QED
    BY <1>2, HasNone

LEMMA Regroup ==
    ASSUME NEW S, NEW x \in Seq(S), NEW y \in Seq(S), NEW z \in Seq(S)
    PROVE  (x \o y) \o z = x \o (y \o z) /\ x \o y \in Seq(S) /\ y \o z \in Seq(S)
<1>1. (x \o y) \o z = x \o (y \o z)
    BY ConcatAssociative
<1>2. x \o y \in Seq(S) /\ y \o z \in Seq(S)
    BY ConcatIs
<1>. QED
    BY <1>1, <1>2

\* Concatenation, for the lemmas below only.
Cat(x, y) == x \o y

LEMMA CatIs ==
    ASSUME NEW S
    PROVE  \A x, y, z \in Seq(S) : Cat(Cat(x, y), z) = Cat(x, Cat(y, z)) /\ Cat(x, y) \in Seq(S)
<1>1. ASSUME NEW x \in Seq(S), NEW y \in Seq(S), NEW z \in Seq(S)
      PROVE  Cat(Cat(x, y), z) = Cat(x, Cat(y, z)) /\ Cat(x, y) \in Seq(S)
    BY Regroup DEF Cat
<1>. QED
    BY <1>1

LEMMA CatRegroup ==
    ASSUME NEW T,
           \A x, y, z \in T : Cat(Cat(x, y), z) = Cat(x, Cat(y, z)) /\ Cat(x, y) \in T,
           NEW a \in T, NEW b \in T, NEW c \in T, NEW d \in T, NEW e \in T, NEW g \in T
    PROVE  /\ Cat(Cat(Cat(Cat(a, b), c), d), e) = Cat(a, Cat(b, Cat(c, Cat(d, e))))
           /\ Cat(Cat(Cat(Cat(Cat(a, b), c), d), e), g)
                = Cat(a, Cat(b, Cat(c, Cat(d, Cat(e, g)))))
<1>1. Cat(a, b) \in T /\ Cat(Cat(a, b), c) \in T /\ Cat(Cat(Cat(a, b), c), d) \in T
      /\ Cat(d, e) \in T /\ Cat(c, Cat(d, e)) \in T /\ Cat(e, g) \in T
      /\ Cat(d, Cat(e, g)) \in T /\ Cat(c, Cat(d, Cat(e, g))) \in T
    OBVIOUS
<1>2. Cat(Cat(Cat(Cat(a, b), c), d), e) = Cat(a, Cat(b, Cat(c, Cat(d, e))))
    BY <1>1
<1>3. Cat(Cat(Cat(Cat(Cat(a, b), c), d), e), g) = Cat(Cat(Cat(Cat(a, b), c), d), Cat(e, g))
    BY <1>1
<1>4. Cat(Cat(Cat(Cat(a, b), c), d), Cat(e, g)) = Cat(a, Cat(b, Cat(c, Cat(d, Cat(e, g)))))
    BY <1>1
<1>. QED
    BY <1>2, <1>3, <1>4

LEMMA Reassociate ==
    ASSUME NEW S, NEW a \in Seq(S), NEW b \in Seq(S), NEW c \in Seq(S),
           NEW d \in Seq(S), NEW e \in Seq(S), NEW g \in Seq(S)
    PROVE  /\ Cat(Cat(Cat(Cat(a, b), c), d), e) = Cat(a, Cat(b, Cat(c, Cat(d, e))))
           /\ Cat(Cat(Cat(Cat(Cat(a, b), c), d), e), g)
                = Cat(a, Cat(b, Cat(c, Cat(d, Cat(e, g)))))
<1>. DEFINE T == Seq(S)
<1>1. /\ \A x, y, z \in T : Cat(Cat(x, y), z) = Cat(x, Cat(y, z)) /\ Cat(x, y) \in T
      /\ a \in T /\ b \in T /\ c \in T /\ d \in T /\ e \in T /\ g \in T
    BY CatIs
<1>. HIDE DEF T
<1>. QED
    BY ONLY <1>1, CatRegroup

\* What both conversions promise of the script they end.
Rewrites(s) ==
    /\ s \in Using(Converting) /\ InOrder(s) /\ Paired(s, {})
    /\ \A f \in Listed : Has(s, On("write", f))
    /\ Has(s, On("create", EntityData))
    /\ Has(s, Named({"made"})) /\ Has(s, Named({"saveGame"})) /\ Has(s, Named({"setVersion5"}))

LEMMA ConvertingIs ==
    /\ Converting \in SUBSET OpNames
    /\ {"create", "write"} \subseteq Converting /\ {"delete"} \subseteq Converting
    /\ {"create", "write"} \in SUBSET OpNames /\ {"delete"} \in SUBSET OpNames
    /\ {"setVersion5", "saveGame", "made"} \subseteq Converting
    /\ {"setVersion5", "saveGame", "made"} \in SUBSET OpNames
    /\ \A name \in {"saveGame", "setVersion4", "setVersion5", "replaceOldWater", "made"} :
          /\ name \in Converting /\ {name} \subseteq Converting /\ {name} \in SUBSET OpNames
    BY DEF Converting, OpNames, FileOps, Conversions

LEMMA UsingConverting ==
    ASSUME NEW s \in Using(Converting)
    PROVE  ~Has(s, Named(Reads \cup {"loaded", "saved"}))
<1>1. (Reads \cup {"loaded", "saved"}) \cap Converting = {}
    BY DEF Converting, FileOps, Conversions, Reads
<1>. QED
    BY <1>1, UsingIs, ConvertingIs

\* Saving something before a script that rewrites everything.
LEMMA SaveBefore ==
    ASSUME NEW s \in Using({"create", "write"}), Paired(s, {}), NEW t, Rewrites(t)
    PROVE  Rewrites(s \o t)
<1>1. /\ s \o t \in Using(Converting) /\ s \in Seq(GameOps) /\ t \in Seq(GameOps)
      /\ \A A : Has(s \o t, A) <=> Has(s, A) \/ Has(t, A)
    BY UsingWhole, ConvertingIs DEF Rewrites
<1>2. InOrder(s \o t)
    BY <1>1, FilesBefore DEF Rewrites
<1>3. Paired(s \o t, {})
    BY <1>1, PairedConcat DEF Rewrites
<1>. QED
    BY <1>1, <1>2, <1>3 DEF Rewrites

LEMMA StepsNoWrites ==
    ASSUME NEW name \in OpNames, WorldData \in FilesFor(name), name # "write"
    PROVE  \A G : Paired(<<Do(name)>>, G)
<1>1. ~Has(<<Do(name)>>, Named({"write"}))
    <2>1. \A N : Has(<<Do(name)>>, Named(N)) <=> name \in N
        BY OneStep
    <2>. QED
        BY <2>1
<1>. QED
    BY <1>1, NoWrites

LEMMA ConvertTo5Is == Rewrites(ConvertTo5)
<1>. DEFINE D == <<Op("delete", <<"playerData", 0>>), Op("delete", <<"chestData", 0>>)>>
            C == saveChestData
            P == savePlayerData
            r == <<Do("replaceOldWater")>>
            F == saveAllChunk(FALSE)
            T == LastSteps
            FT == F \o T
            R == r \o FT
            W == C \o (P \o R)
<1>1. /\ D \in Using({"delete"}) /\ C \in Using({"create", "write"})
      /\ P \in Using({"create", "write"}) /\ r \in Using({"replaceOldWater"})
      /\ F \in Using({"create", "write"}) /\ T \in Using(Converting)
    BY DeletesAre, SaveIs, OneStep, NamesAre, SaveAllIs, LastStepsAre, UsingIs, ConvertingIs
       DEF saveChestData, savePlayerData
<1>2. /\ D \in Seq(GameOps) /\ C \in Seq(GameOps) /\ P \in Seq(GameOps) /\ r \in Seq(GameOps)
      /\ F \in Seq(GameOps) /\ T \in Seq(GameOps)
    BY <1>1, UsingIs, ConvertingIs
<1>3. ConvertTo5 = D \o W
    <2>1. ConvertTo5 = Cat(Cat(Cat(Cat(Cat(D, C), P), r), F), T)
        BY DEF ConvertTo5, LastSteps, Cat
    <2>. HIDE DEF D, C, P, r, F, T
    <2>2. Cat(Cat(Cat(Cat(Cat(D, C), P), r), F), T)
          = Cat(D, Cat(C, Cat(P, Cat(r, Cat(F, T)))))
        BY ONLY <1>2, Reassociate
    <2>. QED
        BY <2>1, <2>2 DEF Cat
<1>4. /\ \A G : Paired(C, G) /\ Paired(P, G) /\ Paired(F, G) /\ Paired(r, G)
      /\ \A f \in Listed : Has(F, On("write", f))
      /\ Has(F, On("create", EntityData))
    BY SaveIs, SaveAllIs, StepsNoWrites, NamesAre DEF saveChestData, savePlayerData
<1>5. \A G : Paired(T, G) /\ Paired(D, G)
    <2>1. ~Has(T, Named({"write"})) /\ ~Has(D, Named({"write"}))
        <3>1. T \in Using({"setVersion5", "saveGame", "made"}) /\ D \in Using({"delete"})
            BY LastStepsAre, <1>1
        <3>. HIDE DEF T, D
        <3>. QED
            BY <3>1, UsingIs, ConvertingIs
    <2>. QED
        BY <2>1, NoWrites
<1>6. /\ \A N : Has(r, Named(N)) <=> "replaceOldWater" \in N
      /\ Do("replaceOldWater") \in GameOps /\ Do("replaceOldWater").op = "replaceOldWater"
    BY OneStep, NamesAre
<1>7. Rewrites(FT)
    <2>. HIDE DEF F, T
    <2>1. /\ FT \in Using(Converting)
          /\ \A A : Has(FT, A) <=> Has(F, A) \/ Has(T, A)
        BY <1>1, UsingWhole, ConvertingIs
    <2>2. InOrder(T) /\ Has(T, Named({"made"})) /\ Has(T, Named({"saveGame"}))
          /\ Has(T, Named({"setVersion5"}))
        BY LastStepsAre DEF T
    <2>3. InOrder(FT)
        <3>1. \A f \in Listed : Then(F, On("delete", f), On("write", f))
            BY <1>1, NoDeletes, ConvertingIs
        <3>. QED
            BY <3>1, <2>2, <1>1, <1>2, FilesBefore
    <2>4. Paired(FT, {})
        BY <1>2, <1>4, <1>5, PairedConcat
    <2>. QED
        BY <2>1, <2>2, <2>3, <2>4, <1>4 DEF Rewrites
<1>. HIDE DEF FT
<1>8. Rewrites(R)
    <2>1. FT \in Seq(GameOps) /\ FT \in Using(Converting)
        BY <1>7, UsingIs, ConvertingIs DEF Rewrites
    <2>2. ~Has(FT, Named(Reads \cup {"loaded", "saved"}))
        BY <2>1, UsingConverting
    <2>3. \A f \in ChunkFiles : Has(FT, On("write", f))
        BY <1>7, FilesAre DEF Rewrites
    <2>4. InOrder(FT) /\ Has(FT, Named({"made"}))
        BY <1>7 DEF Rewrites
    <2>5. InOrder(R)
        <3>1. /\ "replaceOldWater" \in Conversions /\ "replaceOldWater" \notin Promises
            BY DEF Conversions, Promises
        <3>2. InOrder(<<Do("replaceOldWater")>> \o FT)
            BY <2>1, <2>2, <2>3, <2>4, <3>1, <1>6, OneBefore
        <3>. QED
            BY <3>2
    <2>. HIDE DEF r
    <2>6. /\ R \in Using(Converting) /\ \A A : Has(R, A) <=> Has(r, A) \/ Has(FT, A)
        BY <1>1, <2>1, UsingWhole, ConvertingIs
    <2>7. Paired(R, {})
        BY <1>2, <1>4, <1>7, <2>1, PairedConcat DEF Rewrites
    <2>. QED
        BY <2>5, <2>6, <2>7, <1>7 DEF Rewrites
<1>9. Rewrites(W)
    <2>. HIDE DEF R, C, P
    <2>1. Rewrites(P \o R)
        BY <1>1, <1>4, <1>8, SaveBefore
    <2>. QED
        BY <2>1, <1>1, <1>4, SaveBefore
<1>10. Rewrites(D \o W)
    <2>. HIDE DEF D, W
    <2>1. /\ W \in Using(Converting) /\ W \in Seq(GameOps)
        BY <1>9, UsingIs, ConvertingIs DEF Rewrites
    <2>2. /\ D \o W \in Using(Converting) /\ \A A : Has(D \o W, A) <=> Has(D, A) \/ Has(W, A)
        BY <1>1, <2>1, UsingWhole, ConvertingIs
    <2>3. InOrder(D \o W)
        BY <1>1, <1>9, <2>1, FilesBefore DEF Rewrites
    <2>4. Paired(D \o W, {})
        BY <1>2, <1>5, <1>9, <2>1, PairedConcat DEF Rewrites
    <2>. QED
        BY <2>2, <2>3, <2>4, <1>9 DEF Rewrites
<1>. QED
    BY <1>3, <1>10

\* The same of the steps between them.
LEMMA StepBefore ==
    ASSUME NEW name \in {"saveGame", "setVersion4", "replaceOldWater"}, NEW t, Rewrites(t)
    PROVE  Rewrites(<<Do(name)>> \o t)
<1>. DEFINE a == Do(name)
            s == <<a>>
<1>1. /\ name \in OpNames /\ WorldData \in FilesFor(name) /\ name \in Converting
      /\ {name} \subseteq Converting /\ {name} \in SUBSET OpNames /\ name # "write"
    BY NamesAre, ConvertingIs
<1>2. a \in GameOps /\ a.op = name /\ s \in Using({name})
    BY <1>1, OneStep
<1>3. /\ t \in Seq(GameOps) /\ t \in Using(Converting) /\ InOrder(t)
      /\ Has(t, Named({"made"})) /\ Has(t, Named({"saveGame"})) /\ Has(t, Named({"setVersion5"}))
      /\ \A f \in Listed : Has(t, On("write", f))
    BY UsingIs, ConvertingIs DEF Rewrites
<1>4. ~Has(t, Named(Reads \cup {"loaded", "saved"}))
    BY <1>3, UsingConverting
<1>5. \A f \in ChunkFiles : Has(t, On("write", f))
    BY <1>3, FilesAre
<1>6. \A G : Paired(s, G)
    BY <1>1, StepsNoWrites
<1>. HIDE DEF a
<1>7. InOrder(<<a>> \o t)
    <2>1. name \notin Promises /\ name # "leave" /\ name # "list" /\ name # "loaded"
          /\ name \in {"loaded", "leave", "list", "saveGame"} \cup Conversions \cup Promises
        BY DEF Promises, Conversions
    <2>. QED
        BY <1>2, <1>3, <1>4, <1>5, <2>1, OneBefore
<1>8. InOrder(s \o t)
    BY <1>7
<1>. HIDE DEF s
<1>9. /\ s \o t \in Using(Converting) /\ \A A : Has(s \o t, A) <=> Has(s, A) \/ Has(t, A)
    BY <1>1, <1>2, <1>3, UsingWhole, ConvertingIs
<1>10. Paired(s \o t, {})
    <2>1. s \in Seq(GameOps)
        BY <1>1, <1>2, UsingIs
    <2>. QED
        BY <2>1, <1>3, <1>6, PairedConcat DEF Rewrites
<1>11. Rewrites(s \o t)
    BY <1>3, <1>8, <1>9, <1>10 DEF Rewrites
<1>. QED
    BY <1>11 DEF s, a

LEMMA DeletesBefore ==
    ASSUME NEW s \in Using({"delete"}), NEW t, Rewrites(t)
    PROVE  Rewrites(s \o t)
<1>1. /\ t \in Using(Converting) /\ t \in Seq(GameOps) /\ s \in Seq(GameOps)
    BY UsingIs, ConvertingIs DEF Rewrites
<1>2. /\ s \o t \in Using(Converting) /\ \A A : Has(s \o t, A) <=> Has(s, A) \/ Has(t, A)
    BY <1>1, UsingWhole, ConvertingIs
<1>3. InOrder(s \o t)
    BY <1>1, FilesBefore DEF Rewrites
<1>4. Paired(s \o t, {})
    <2>1. ~Has(s, Named({"write"}))
        BY UsingIs, ConvertingIs
    <2>2. Paired(s, {})
        BY <2>1, NoWrites
    <2>. QED
        BY <1>1, <2>2, PairedConcat DEF Rewrites
<1>. QED
    BY <1>2, <1>3, <1>4 DEF Rewrites

LEMMA OldWorldIs == deleteOldWorld \in Using({"delete"})
<1>1. ASSUME NEW name \in {"chunk", "chunkED"}
      PROVE  ForChunks(<< <<"delete", name>> >>) \in Using({"delete"})
    <2>. DEFINE S == GameOps \cap Named({"delete"})
    <2>1. ASSUME NEW c \in Chunks
          PROVE  Op("delete", <<name, c>>) \in S
        <3>. DEFINE f == <<name, c>>
        <3>1. f \in Files /\ f \in FilesFor("delete")
            BY DEF Files, FilesFor, WorldData, EntityData
        <3>. HIDE DEF f
        <3>2. "delete" \in OpNames
            BY DEF OpNames
        <3>3. Op("delete", f) \in S
            BY <3>1, <3>2, OpIs
        <3>. QED
            BY <3>3 DEF f
    <2>. HIDE DEF S
    <2>2. LET s == ForChunks(<< <<"delete", name>> >>)
          IN  /\ s \in Seq(S) /\ Len(s) = WorldChunks /\ DOMAIN s = Chunks
              /\ \A c \in Chunks : s[c] = Op("delete", <<name, c>>)
              /\ \A A : Has(s, A) <=> \E c \in Chunks : Op("delete", <<name, c>>) \in A
        BY Zenon, <2>1, ForChunksOne
    <2>. QED
        BY <2>2 DEF Using, S
<1>. QED
    BY <1>1, UsingConcat, ConvertingIs DEF deleteOldWorld

\* The conversion from below version 4: the version is set before the first
\* chunk is written.
LEMMA ConvertTo4Is ==
    /\ Rewrites(ConvertTo4 \o ConvertTo5)
    /\ First(ConvertTo4 \o ConvertTo5, Named({"setVersion4", "setVersion5"}), ChunkSaves)
<1>. DEFINE O == deleteOldWorld
            v == <<Do("setVersion4")>>
            F == saveAllChunk(FALSE)
            g == <<Do("saveGame")>>
            E == saveEntityData(FALSE)
            Z == ConvertTo5
            R == F \o (g \o (E \o Z))
<1>1. /\ O \in Using({"delete"}) /\ v \in Using({"setVersion4"})
      /\ F \in Using({"create", "write"}) /\ g \in Using({"saveGame"})
      /\ E \in Using({"create", "write"}) /\ Paired(F, {}) /\ Paired(E, {})
    BY OldWorldIs, OneStep, NamesAre, SaveAllIs, SaveIs DEF saveEntityData
<1>2. Rewrites(R)
    <2>. HIDE DEF F, E, Z
    <2>1. Rewrites(E \o Z)
        BY <1>1, SaveBefore, ConvertTo5Is DEF Z
    <2>2. Rewrites(g \o (E \o Z))
        BY <2>1, StepBefore
    <2>. QED
        BY <2>2, <1>1, SaveBefore
<1>3. ConvertTo4 \o ConvertTo5 = O \o (v \o R)
    <2>1. ConvertTo4 \o ConvertTo5 = Cat(Cat(Cat(Cat(Cat(O, v), F), g), E), Z)
        BY DEF ConvertTo4, Cat
    <2>2. /\ O \in Seq(GameOps) /\ v \in Seq(GameOps) /\ F \in Seq(GameOps) /\ g \in Seq(GameOps)
          /\ E \in Seq(GameOps) /\ Z \in Seq(GameOps)
        BY <1>1, ConvertTo5Is, UsingIs, ConvertingIs DEF Rewrites
    <2>. HIDE DEF O, v, F, g, E, Z
    <2>3. Cat(Cat(Cat(Cat(Cat(O, v), F), g), E), Z)
          = Cat(O, Cat(v, Cat(F, Cat(g, Cat(E, Z)))))
        BY ONLY <2>2, Reassociate
    <2>. QED
        BY <2>1, <2>3 DEF Cat
<1>. HIDE DEF R
<1>4. Rewrites(v \o R)
    BY <1>2, StepBefore
<1>5. Rewrites(O \o (v \o R))
    <2>. HIDE DEF O, v
    <2>. QED
        BY <1>1, <1>4, DeletesBefore
<1>6. First(O \o (v \o R), Named({"setVersion4", "setVersion5"}), ChunkSaves)
    <2>. DEFINE A == Named({"setVersion4", "setVersion5"})
    <2>1. /\ Has(v, A) /\ ~Has(v, ChunkSaves)
        <3>1. \A N : Has(v, Named(N)) <=> "setVersion4" \in N
            BY OneStep, NamesAre
        <3>2. ~Has(v, Named({"create", "write", "fit"}))
            BY <3>1
        <3>. QED
            BY <3>1, <3>2 DEF Has, ChunkSaves, Named
    <2>2. ~Has(O, ChunkSaves)
        <3>1. ~Has(O, Named({"create", "write", "fit"}))
            BY <1>1, UsingIs, ConvertingIs
        <3>. QED
            BY <3>1 DEF Has, ChunkSaves, Named
    <2>3. O \in Seq(GameOps) /\ v \in Seq(GameOps) /\ R \in Seq(GameOps)
        BY <1>1, <1>2, UsingIs, ConvertingIs DEF Rewrites
    <2>. HIDE DEF O, v, A
    <2>4. First(v, A, ChunkSaves) /\ First(O, A, ChunkSaves)
        BY <2>1, <2>2, HasNone
    <2>5. First(v \o R, A, ChunkSaves)
        BY <2>1, <2>3, <2>4, FirstConcat
    <2>6. v \o R \in Seq(GameOps)
        BY <2>3, ConcatIs
    <2>7. First(O \o (v \o R), A, ChunkSaves)
        <3>. DEFINE vR == v \o R
        <3>1. vR \in Seq(GameOps) /\ First(vR, A, ChunkSaves)
            BY <2>5, <2>6
        <3>. HIDE DEF vR
        <3>2. First(O \o vR, A, ChunkSaves)
            BY <2>3, <2>4, <3>1, FirstConcat
        <3>. QED
            BY <3>2 DEF vR
    <2>. QED
        BY <2>7 DEF A
<1>. QED
    BY <1>3, <1>5, <1>6

----------------------------------------------------------------------------
(* The script that loads a world.                                          *)

ReadOf(f) == On("load", f) \cup On("loadV4", f) \cup On("loadRaw", f)
\* The reads that fit the formats of a version.
ReadOps(v) ==
    {o \in GameOps : /\ o.op \in Reads
                     /\ FormOf(v, o.file) = (IF o.op = "load" THEN "new" ELSE "old")
                     /\ o.op = "loadRaw" => v < 4
                     /\ o.op = "load" /\ o.file = EntityData => v >= 4}

LEMMA ReadIs ==
    ASSUME NEW v \in 0..5, NEW name \in Reads, NEW f \in Files, f \in FilesFor(name),
           FormOf(v, f) = (IF name = "load" THEN "new" ELSE "old"),
           name = "loadRaw" => v < 4,
           f # EntityData \/ v >= 4
    PROVE  /\ Op(name, f) \in ReadOps(v)
           /\ \A g : Op(name, f) \in ReadOf(g) <=> f = g
<1>1. name \in OpNames
    BY DEF Reads, OpNames
<1>2. /\ Op(name, f) \in GameOps /\ Op(name, f).op = name /\ Op(name, f).file = f
      /\ \A n, g : Op(name, f) \in On(n, g) <=> name = n /\ f = g
    BY <1>1, OpIs
<1>3. Op(name, f) \in ReadOps(v)
    BY <1>2 DEF ReadOps
<1>4. \A g : Op(name, f) \in ReadOf(g) <=> f = g
    BY <1>2 DEF ReadOf, Reads
<1>. QED
    BY <1>3, <1>4

\* The three parts of what is read before the chunks, and the chunks.
LoadsPlayer(v) == IF v < 5 THEN loadPlayerDataV4 \o loadChestDataV4
                  ELSE loadPlayerData \o loadChestData
LoadsEntities(v) == IF v >= 4 THEN loadEntityData ELSE <<>>
LoadsChunks(v) == ForChunks(CASE v >= 4 -> <<loadCompressedChunk>>
                              [] v < 2 -> <<loadChunk>>
                              [] OTHER -> <<loadChunk, loadChunkExtraData>>)
Loads(v) == loadWorldData \o LoadsPlayer(v) \o LoadsEntities(v) \o LoadsChunks(v)

LEMMA FormsAre ==
    ASSUME NEW v \in 0..5
    PROVE  /\ FormOf(v, WorldData) = "new" /\ FormOf(v, EntityData) = "new"
           /\ \A name \in {"playerData", "chestData"} :
                 FormOf(v, <<name, 0>>) = (IF v < 5 THEN "old" ELSE "new")
           /\ \A f \in ChunkFiles : FormOf(v, f) = (IF v < 4 THEN "old" ELSE "new")
           /\ \A c \in Chunks : FormOf(v, <<"chunkED", c>>) = "old"
           /\ \A f \in Files : FormOf(v, f) \in {"old", "new"}
<1>0. ~(v > currentVersion)
    BY DEF currentVersion
<1>1. FormOf(v, WorldData) = "new" /\ FormOf(v, EntityData) = "new"
    BY Zenon, <1>0 DEF FormOf, WorldData, EntityData
<1>2. ASSUME NEW f \in Files, f[1] \in {"playerData", "chestData"}
      PROVE  FormOf(v, f) = (IF v < 5 THEN "old" ELSE "new")
    BY <1>0, <1>2 DEF FormOf
<1>3. ASSUME NEW f \in ChunkFiles
      PROVE  FormOf(v, f) = (IF v < 4 THEN "old" ELSE "new")
    <2>1. f[1] = "chunk"
        BY DEF ChunkFiles
    <2>. QED
        BY <1>0, <2>1 DEF FormOf
<1>4. ASSUME NEW c \in Chunks
      PROVE  FormOf(v, <<"chunkED", c>>) = "old"
    BY <1>0 DEF FormOf
<1>5. ASSUME NEW f \in Files
      PROVE  FormOf(v, f) \in {"old", "new"}
    BY <1>0 DEF FormOf
<1>. QED
    BY <1>1, <1>2, <1>3, <1>4, <1>5, FilesAre

LEMMA LoadsAre ==
    ASSUME NEW v \in 0..5
    PROVE  /\ Loads(v) \in Seq(ReadOps(v))
           /\ \A f \in FilesOf(v) : Has(Loads(v), ReadOf(f))
<1>. DEFINE S == ReadOps(v)
            W == loadWorldData
            P == LoadsPlayer(v)
            E == LoadsEntities(v)
            C == LoadsChunks(v)
<1>1. WorldData \in FilesFor("load") /\ EntityData \in FilesFor("load")
      /\ <<"playerData", 0>> \in FilesFor("load") /\ <<"chestData", 0>> \in FilesFor("load")
      /\ <<"playerData", 0>> \in FilesFor("loadV4") /\ <<"chestData", 0>> \in FilesFor("loadV4")
      /\ \A c \in Chunks : /\ <<"chunk", c>> \in FilesFor("load")
                           /\ <<"chunk", c>> \in FilesFor("loadRaw")
                           /\ <<"chunkED", c>> \in FilesFor("loadRaw")
    BY FilesAre DEF FilesFor
<1>2. {"load", "loadV4", "loadRaw"} = Reads
    BY DEF Reads
<1>3. W \in Seq(S) /\ Has(W, ReadOf(WorldData))
    <2>1. WorldData # EntityData
        BY DEF WorldData, EntityData
    <2>2. Op("load", WorldData) \in S /\ Op("load", WorldData) \in ReadOf(WorldData)
        BY <1>1, <1>2, <2>1, ReadIs, FilesAre, FormsAre
    <2>3. W = <<Op("load", WorldData)>>
        BY DEF loadWorldData, WorldData
    <2>. HIDE DEF S, W
    <2>. QED
        BY <2>2, <2>3, OneOp
<1>4. P \in Seq(S) /\ Has(P, ReadOf(<<"playerData", 0>>)) /\ Has(P, ReadOf(<<"chestData", 0>>))
    <2>1. <<"playerData", 0>> # EntityData /\ <<"chestData", 0>> # EntityData
        BY DEF EntityData
    <2>. DEFINE o(n) == Op(n, <<"playerData", 0>>)
                p(n) == Op(n, <<"chestData", 0>>)
                r == IF v < 5 THEN "loadV4" ELSE "load"
    <2>2. /\ o(r) \in S /\ o(r) \in ReadOf(<<"playerData", 0>>)
          /\ p(r) \in S /\ p(r) \in ReadOf(<<"chestData", 0>>)
        <3>1. /\ r \in Reads /\ r # "loadRaw"
              /\ FormOf(v, <<"playerData", 0>>) = (IF r = "load" THEN "new" ELSE "old")
              /\ FormOf(v, <<"chestData", 0>>) = (IF r = "load" THEN "new" ELSE "old")
              /\ <<"playerData", 0>> \in FilesFor(r) /\ <<"chestData", 0>> \in FilesFor(r)
            BY <1>1, <1>2, FormsAre
        <3>. HIDE DEF r
        <3>. QED
            BY <3>1, <2>1, ReadIs, FilesAre
    <2>3. P = <<o(r)>> \o <<p(r)>>
        BY DEF LoadsPlayer, loadPlayerData, loadChestData, loadPlayerDataV4, loadChestDataV4
    <2>. HIDE DEF S, P, o, p, r
    <2>4. <<o(r)>> \in Seq(S) /\ <<p(r)>> \in Seq(S)
          /\ Has(<<o(r)>>, ReadOf(<<"playerData", 0>>))
          /\ Has(<<p(r)>>, ReadOf(<<"chestData", 0>>))
        BY <2>2, OneOp
    <2>. QED
        BY <2>3, <2>4, ConcatIs, HasConcat
<1>5. E \in Seq(S) /\ (v >= 4 => Has(E, ReadOf(EntityData)))
    <2>1. CASE v >= 4
        <3>1. Op("load", EntityData) \in S /\ Op("load", EntityData) \in ReadOf(EntityData)
            BY <1>1, <1>2, <2>1, ReadIs, FilesAre, FormsAre
        <3>2. E = <<Op("load", EntityData)>>
            BY <2>1 DEF LoadsEntities, loadEntityData, EntityData
        <3>. HIDE DEF S, E
        <3>. QED
            BY <3>1, <3>2, OneOp
    <2>2. CASE ~(v >= 4)
        BY <2>2, EmptySeq DEF LoadsEntities
    <2>. QED
        BY <2>1, <2>2
<1>6. /\ C \in Seq(S)
      /\ \A c \in Chunks : Has(C, ReadOf(<<"chunk", c>>))
      /\ v \in 2..3 => \A c \in Chunks : Has(C, ReadOf(<<"chunkED", c>>))
    <2>1. \A c \in Chunks : <<"chunk", c>> # EntityData /\ <<"chunkED", c>> # EntityData
          /\ <<"chunk", c>> \in Files /\ <<"chunkED", c>> \in Files /\ <<"chunk", c>> \in ChunkFiles
        BY FilesAre DEF EntityData
    <2>2. ASSUME v >= 4
          PROVE  \A c \in Chunks : /\ Op("load", <<"chunk", c>>) \in S
                                   /\ Op("load", <<"chunk", c>>) \in ReadOf(<<"chunk", c>>)
        <3>. TAKE c \in Chunks
        <3>. DEFINE f == <<"chunk", c>>
        <3>0. ~(v < 4)
            BY <2>2
        <3>1. f \in Files /\ f # EntityData /\ f \in FilesFor("load") /\ FormOf(v, f) = "new"
            BY <1>1, <2>1, <3>0, FormsAre
        <3>. HIDE DEF f
        <3>2. Op("load", f) \in S /\ Op("load", f) \in ReadOf(f)
            BY <1>2, <3>1, ReadIs
        <3>. QED
            BY <3>2 DEF f
    <2>3. ASSUME v < 4
          PROVE  \A c \in Chunks : /\ Op("loadRaw", <<"chunk", c>>) \in S
                                   /\ Op("loadRaw", <<"chunk", c>>) \in ReadOf(<<"chunk", c>>)
                                   /\ Op("loadRaw", <<"chunkED", c>>) \in S
                                   /\ Op("loadRaw", <<"chunkED", c>>) \in ReadOf(<<"chunkED", c>>)
        <3>. TAKE c \in Chunks
        <3>. DEFINE f == <<"chunk", c>>
                    g == <<"chunkED", c>>
        <3>1. /\ f \in Files /\ f # EntityData /\ f \in FilesFor("loadRaw") /\ FormOf(v, f) = "old"
              /\ g \in Files /\ g # EntityData /\ g \in FilesFor("loadRaw") /\ FormOf(v, g) = "old"
            BY <1>1, <2>1, <2>3, FormsAre
        <3>. HIDE DEF f, g
        <3>2. /\ Op("loadRaw", f) \in S /\ Op("loadRaw", f) \in ReadOf(f)
              /\ Op("loadRaw", g) \in S /\ Op("loadRaw", g) \in ReadOf(g)
            BY <1>2, <2>3, <3>1, ReadIs
        <3>. QED
            BY <3>2 DEF f, g
    <2>a. /\ v < 2 \/ v \in 2..3 => v < 4
          /\ v < 2 => v \notin 2..3
          /\ v >= 4 => v \notin 2..3
        OBVIOUS
    <2>. HIDE DEF S
    <2>4. CASE v >= 4
        <3>1. C = ForChunks(<< <<"load", "chunk">> >>)
            BY <2>4 DEF LoadsChunks, loadCompressedChunk
        <3>2. \A c \in Chunks : Op("load", <<"chunk", c>>) \in S
            BY <2>2, <2>4
        <3>3. LET s == ForChunks(<< <<"load", "chunk">> >>)
              IN  /\ s \in Seq(S) /\ Len(s) = WorldChunks /\ DOMAIN s = Chunks
                  /\ \A c \in Chunks : s[c] = Op("load", <<"chunk", c>>)
                  /\ \A A : Has(s, A) <=> \E c \in Chunks : Op("load", <<"chunk", c>>) \in A
            BY Zenon, <3>2, ForChunksOne
        <3>. HIDE DEF C
        <3>. QED
            BY <2>4, <2>2, <2>a, <3>1, <3>3
    <2>5. CASE v < 2
        <3>1. C = ForChunks(<< <<"loadRaw", "chunk">> >>)
            BY <2>5 DEF LoadsChunks, loadChunk
        <3>2. \A c \in Chunks : Op("loadRaw", <<"chunk", c>>) \in S
            BY <2>3, <2>5, <2>a
        <3>3. LET s == ForChunks(<< <<"loadRaw", "chunk">> >>)
              IN  /\ s \in Seq(S) /\ Len(s) = WorldChunks /\ DOMAIN s = Chunks
                  /\ \A c \in Chunks : s[c] = Op("loadRaw", <<"chunk", c>>)
                  /\ \A A : Has(s, A) <=> \E c \in Chunks : Op("loadRaw", <<"chunk", c>>) \in A
            BY Zenon, <3>2, ForChunksOne
        <3>. HIDE DEF C
        <3>. QED
            BY <2>5, <2>3, <2>a, <3>1, <3>3
    <2>6. CASE v \in 2..3
        <3>1. C = ForChunks(<< <<"loadRaw", "chunk">>, <<"loadRaw", "chunkED">> >>)
            BY <2>6 DEF LoadsChunks, loadChunk, loadChunkExtraData
        <3>2. \A c \in Chunks : Op("loadRaw", <<"chunk", c>>) \in S
                                /\ Op("loadRaw", <<"chunkED", c>>) \in S
            BY <2>3, <2>6, <2>a
        <3>3. LET s == ForChunks(<< <<"loadRaw", "chunk">>, <<"loadRaw", "chunkED">> >>)
              IN  /\ s \in Seq(S)
                  /\ \A i \in DOMAIN s :
                        \/ \E c \in Chunks : s[i] = Op("loadRaw", <<"chunk", c>>)
                        \/ \E c \in Chunks : /\ s[i] = Op("loadRaw", <<"chunkED", c>>)
                                             /\ i > 1 /\ i - 1 \in DOMAIN s
                                             /\ s[i - 1] = Op("loadRaw", <<"chunk", c>>)
                  /\ \A A : Has(s, A) <=> \E c \in Chunks : \/ Op("loadRaw", <<"chunk", c>>) \in A
                                                            \/ Op("loadRaw", <<"chunkED", c>>) \in A
            BY Zenon, <3>2, ForChunksTwo
        <3>. HIDE DEF C
        <3>. QED
            BY <2>6, <2>3, <2>a, <3>1, <3>3
    <2>. QED
        BY <2>4, <2>5, <2>6
<1>7. /\ Loads(v) \in Seq(S)
      /\ \A A : Has(Loads(v), A) <=> Has(W, A) \/ Has(P, A) \/ Has(E, A) \/ Has(C, A)
    <2>. DEFINE X == W \o P
                Y == X \o E
    <2>. HIDE DEF S, W, P, E, C
    <2>1. X \in Seq(S) /\ \A A : Has(X, A) <=> Has(W, A) \/ Has(P, A)
        BY <1>3, <1>4, ConcatIs, HasConcat
    <2>. HIDE DEF X
    <2>2. Y \in Seq(S) /\ \A A : Has(Y, A) <=> Has(X, A) \/ Has(E, A)
        BY <1>5, <2>1, ConcatIs, HasConcat
    <2>. HIDE DEF Y
    <2>3. Y \o C \in Seq(S) /\ \A A : Has(Y \o C, A) <=> Has(Y, A) \/ Has(C, A)
        BY <1>6, <2>2, ConcatIs, HasConcat
    <2>4. Loads(v) = Y \o C
        BY DEF Loads, X, Y, W, P, E, C
    <2>. QED
        BY <2>1, <2>2, <2>3, <2>4
<1>8. ASSUME NEW f \in FilesOf(v)
      PROVE  Has(Loads(v), ReadOf(f))
    <2>1. /\ f \in Files
          /\ f = EntityData => v >= 4
          /\ \A c \in Chunks : f = <<"chunkED", c>> => v \in 2..3
        BY <1>8 DEF FilesOf, Listed, EntityData
    <2>2. \/ f \in {WorldData, EntityData, <<"playerData", 0>>, <<"chestData", 0>>}
          \/ \E c \in Chunks : f = <<"chunk", c>> \/ f = <<"chunkED", c>>
        BY <2>1, FilesAre
    <2>. HIDE DEF S, W, P, E, C
    <2>. QED
        BY <2>1, <2>2, <1>3, <1>4, <1>5, <1>6, <1>7
<1>. QED
    BY <1>7, <1>8

Conversion(v) == (IF v < 4 THEN ConvertTo4 ELSE <<>>) \o (IF v < 5 THEN ConvertTo5 ELSE <<>>)

LEMMA ConversionIs ==
    ASSUME NEW v \in 0..5
    PROVE  /\ v = 5 => Conversion(v) = <<>>
           /\ v < 5 => Rewrites(Conversion(v))
           /\ v < 4 => First(Conversion(v), Named({"setVersion4", "setVersion5"}), ChunkSaves)
<1>1. <<>> \o <<>> = <<>>
    OBVIOUS
<1>2. ConvertTo5 \in Seq(GameOps)
    BY ConvertTo5Is, UsingIs, ConvertingIs DEF Rewrites
<1>3. <<>> \o ConvertTo5 = ConvertTo5
    <2>. DEFINE c == ConvertTo5
    <2>. HIDE DEF c
    <2>1. c \in Seq(GameOps) => <<>> \o c = c
        OBVIOUS
    <2>. QED
        BY <1>2, <2>1 DEF c
<1>4. v = 5 => ~(v < 4) /\ ~(v < 5)
    OBVIOUS
<1>5. CASE v = 5
    BY <1>1, <1>4, <1>5 DEF Conversion
<1>6. CASE v < 5 /\ ~(v < 4)
    BY <1>3, <1>6, ConvertTo5Is DEF Conversion
<1>7. CASE v < 4
    <2>1. v < 5
        BY <1>7
    <2>2. Conversion(v) = ConvertTo4 \o ConvertTo5
        BY <1>7, <2>1 DEF Conversion
    <2>. QED
        BY <2>2, ConvertTo4Is, <1>4, <1>7
<1>. QED
    BY <1>5, <1>6, <1>7

LEMMA ScriptOfLoad ==
    ASSUME NEW v \in 0..5
    PROVE  /\ Loads(v) \in Seq(GameOps) /\ Conversion(v) \in Using(Converting)
           /\ Conversion(v) \in Seq(GameOps)
           /\ loadAllChunk(v) = Loads(v) \o (<<Do("loaded")>> \o Conversion(v))
<1>. DEFINE L == Loads(v)
            a == <<Do("loaded")>>
            p == IF v < 4 THEN ConvertTo4 ELSE <<>>
            q == IF v < 5 THEN ConvertTo5 ELSE <<>>
<1>1. ReadOps(v) \subseteq GameOps
    BY DEF ReadOps
<1>2. L \in Seq(GameOps)
    <2>1. L \in Seq(ReadOps(v))
        BY LoadsAre
    <2>. HIDE DEF L
    <2>. QED
        BY <1>1, <2>1
<1>3. Conversion(v) \in Using(Converting) /\ Conversion(v) \in Seq(GameOps)
    <2>1. CASE v = 5
        <3>1. Conversion(v) = <<>>
            BY <2>1, ConversionIs
        <3>. QED
            BY <3>1, EmptySeq DEF Using
    <2>2. CASE v < 5
        <3>1. Rewrites(Conversion(v))
            BY <2>2, ConversionIs
        <3>. QED
            BY <3>1, UsingIs, ConvertingIs DEF Rewrites
    <2>. QED
        BY <2>1, <2>2
<1>4. p \in Seq(GameOps) /\ q \in Seq(GameOps) /\ a \in Seq(GameOps)
    <2>1. a \in Seq(GameOps)
        BY OneStep, NamesAre, UsingIs
    <2>2. ConvertTo5 \in Seq(GameOps)
        BY ConvertTo5Is, UsingIs, ConvertingIs DEF Rewrites
    <2>3. ConvertTo4 \in Seq(GameOps)
        <3>. DEFINE O == deleteOldWorld
                    t == <<Do("setVersion4")>>
                    F == saveAllChunk(FALSE)
                    g == <<Do("saveGame")>>
                    E == saveEntityData(FALSE)
        <3>1. /\ O \in Seq(GameOps) /\ t \in Seq(GameOps) /\ F \in Seq(GameOps)
              /\ g \in Seq(GameOps) /\ E \in Seq(GameOps)
            BY OldWorldIs, OneStep, NamesAre, SaveAllIs, SaveIs, UsingIs, ConvertingIs
               DEF saveEntityData
        <3>2. ConvertTo4 = Cat(Cat(Cat(Cat(O, t), F), g), E)
            BY DEF ConvertTo4, Cat
        <3>3. \A x, y \in Seq(GameOps) : Cat(x, y) \in Seq(GameOps)
            BY CatIs
        <3>. HIDE DEF O, t, F, g, E
        <3>. QED
            BY <3>1, <3>2, <3>3
    <2>. QED
        BY <2>1, <2>2, <2>3, EmptySeq
<1>5. loadAllChunk(v) = Cat(Cat(Cat(L, a), p), q)
    <2>1. ~(v > currentVersion)
        BY DEF currentVersion
    <2>. QED
        BY <2>1 DEF loadAllChunk, Loads, LoadsPlayer, LoadsEntities, LoadsChunks, Cat
<1>6. Conversion(v) = Cat(p, q)
    BY DEF Conversion, Cat
<1>. HIDE DEF L, a, p, q
<1>7. Cat(Cat(Cat(L, a), p), q) = Cat(L, Cat(a, Cat(p, q)))
    <2>1. \A x, y, z \in Seq(GameOps) :
             Cat(Cat(x, y), z) = Cat(x, Cat(y, z)) /\ Cat(x, y) \in Seq(GameOps)
        BY CatIs
    <2>. QED
        BY ONLY <2>1, <1>2, <1>4
<1>8. loadAllChunk(v) = L \o (a \o Conversion(v))
    BY <1>5, <1>6, <1>7 DEF Cat
<1>. QED
    BY <1>2, <1>3, <1>8 DEF L, a

\* What the script that loads a world of version v does.
LEMMA LoadScriptIs ==
    ASSUME NEW v \in 0..5
    PROVE  LET s == loadAllChunk(v)
           IN  /\ s \in Seq(GameOps) /\ InOrder(s) /\ Paired(s, {})
               /\ Then(s, Named(Reads), Named({"loaded"}))
               /\ Has(s, Named({"loaded"})) /\ ~Has(s, Named({"saved"}))
               /\ First(s, Named({"loaded"}), Named(Changes))
               /\ v = 5 => ~Has(s, Named(Changes)) /\ ~Has(s, Named(Promises))
               /\ v < 5 => Has(s, Named({"setVersion5"}))
               /\ v < 4 => /\ First(s, Named({"setVersion4", "setVersion5"}), ChunkSaves)
                           /\ Has(s, On("create", EntityData))
               /\ \A f \in Listed : v < 5 => Has(s, On("write", f))
               /\ ~Has(s, Named(Reads) \ ReadOps(v))
               /\ \A f \in FilesOf(v) : Has(s, ReadOf(f))
<1>. DEFINE L == Loads(v)
            a == Do("loaded")
            A == <<a>>
            C == Conversion(v)
            T == A \o C
            s == L \o T
<1>1. loadAllChunk(v) = s
    BY ScriptOfLoad
<1>2. L \in Seq(GameOps) /\ L \in Seq(ReadOps(v)) /\ \A f \in FilesOf(v) : Has(L, ReadOf(f))
    BY LoadsAre, ScriptOfLoad
<1>3. C \in Seq(GameOps) /\ C \in Using(Converting)
    BY ScriptOfLoad
<1>4. /\ a \in GameOps /\ a.op = "loaded" /\ A \in Seq(GameOps)
      /\ \A N : Has(A, Named(N)) <=> "loaded" \in N
    BY OneStep, NamesAre, UsingIs
<1>5. /\ v = 5 => C = <<>>
      /\ v < 5 => /\ Rewrites(C) /\ InOrder(C) /\ Paired(C, {}) /\ Has(C, Named({"setVersion5"}))
                  /\ Has(C, On("create", EntityData)) /\ \A f \in Listed : Has(C, On("write", f))
      /\ v < 4 => First(C, Named({"setVersion4", "setVersion5"}), ChunkSaves)
      /\ v = 5 \/ v < 5
    BY ConversionIs DEF Rewrites
<1>. HIDE DEF L, a, C
<1>6. InOrder(C) /\ Paired(C, {})
    <2>1. Paired(<<>>, {})
        BY DEF Paired
    <2>. QED
        BY <2>1, <1>5, EmptyInOrder
<1>7. /\ Reads \cap Changes = {} /\ "loaded" \notin Reads /\ "loaded" \notin Changes
      /\ Reads \cap Promises = {} /\ "loaded" \notin Promises /\ "saved" \notin Reads
      /\ Reads \subseteq OpNames /\ Reads \subseteq Plain /\ "fit" \notin Reads
      /\ "delete" \notin Reads /\ "write" \notin Reads /\ "loaded" # "write"
    BY DEF Reads, Changes, FileOps, Conversions, Promises, Plain, OpNames
<1>8. \A N : N \cap Reads = {} => ~Has(L, Named(N))
    <2>. TAKE N
    <2>. HAVE N \cap Reads = {}
    <2>1. ReadOps(v) \cap Named(N) = {}
        BY DEF ReadOps, Named
    <2>. QED
        BY <1>2, <2>1, HasNotIn
<1>9. ~Has(L, Named(Reads) \ ReadOps(v))
    <2>1. ReadOps(v) \cap (Named(Reads) \ ReadOps(v)) = {}
        OBVIOUS
    <2>. QED
        BY <1>2, <2>1, HasNotIn
<1>10. ~Has(C, Named(Reads \cup {"loaded", "saved"}))
    BY <1>3, UsingConverting
<1>11. InOrder(T) /\ T \in Seq(GameOps) /\ \A X : Has(T, X) <=> Has(A, X) \/ Has(C, X)
    <2>1. InOrder(<<a>> \o C)
        <3>1. Has(C, Named(Promises)) => \A f \in Listed : Has(C, On("write", f))
            <4>1. v = 5 => ~Has(C, Named(Promises))
                BY <1>5, HasNothing
            <4>. QED
                BY <4>1, <1>5
        <3>. QED
            BY <1>3, <1>4, <1>6, <1>7, <1>10, <3>1, OneBefore DEF Conversions
    <2>. HIDE DEF A
    <2>2. T \in Seq(GameOps) /\ \A X : Has(T, X) <=> Has(A, X) \/ Has(C, X)
        BY <1>3, <1>4, ConcatIs, HasConcat
    <2>. QED
        BY <2>1, <2>2 DEF A
<1>12. First(T, Named({"loaded"}), Named(Changes))
    <2>1. ~Has(A, Named(Changes)) /\ Has(A, Named({"loaded"}))
        BY <1>4, <1>7
    <2>. HIDE DEF A
    <2>. QED
        BY <2>1, <1>3, <1>4, HasNone, FirstConcat
<1>13. v < 4 => First(T, Named({"setVersion4", "setVersion5"}), ChunkSaves)
    <2>1. ~Has(A, Named({"create", "write", "fit"}))
        BY <1>4
    <2>2. ~Has(A, ChunkSaves)
        BY <2>1 DEF Has, ChunkSaves, Named
    <2>. HIDE DEF A
    <2>3. First(A, Named({"setVersion4", "setVersion5"}), ChunkSaves)
        BY <2>2, HasNone
    <2>. QED
        BY <2>3, <1>3, <1>4, <1>5, FirstConcat
<1>14. Paired(T, {})
    <2>1. ~Has(A, Named({"write"}))
        BY <1>4
    <2>. HIDE DEF A
    <2>2. Paired(A, {})
        BY <2>1, NoWrites
    <2>. QED
        BY <2>2, <1>3, <1>4, <1>6, PairedConcat
<1>15. ~Has(T, Named(Reads)) /\ Has(T, Named({"loaded"})) /\ ~Has(T, Named({"saved"}))
    <2>1. /\ ~Has(C, Named(Reads)) /\ ~Has(C, Named({"saved"}))
        <3>1. /\ Reads \in SUBSET (Reads \cup {"loaded", "saved"})
              /\ {"saved"} \in SUBSET (Reads \cup {"loaded", "saved"})
            OBVIOUS
        <3>. QED
            BY <3>1, <1>10, HasNo
    <2>2. ~Has(A, Named(Reads)) /\ Has(A, Named({"loaded"})) /\ ~Has(A, Named({"saved"}))
        BY <1>4, <1>7
    <2>. QED
        BY <2>1, <2>2, <1>11
<1>. HIDE DEF T
<1>16. s \in Seq(GameOps) /\ \A X : Has(s, X) <=> Has(L, X) \/ Has(T, X)
    BY <1>2, <1>11, ConcatIs, HasConcat
<1>17. InOrder(s)
    <2>1. ~Has(L, Named(OpNames \ Plain)) /\ ~Has(L, Named({"fit"}))
        BY <1>7, <1>8
    <2>2. \A f \in Listed : Then(L, On("delete", f), On("write", f))
        <3>. TAKE f \in Listed
        <3>1. ~Has(L, Named({"delete"}))
            BY <1>7, <1>8
        <3>2. ~Has(L, On("delete", f))
            BY <3>1 DEF Has, Named, On
        <3>. QED
            BY <3>2, HasNone
    <2>. QED
        BY <2>1, <2>2, <1>2, <1>11, <1>15, PlainBefore
<1>18. Then(s, Named(Reads), Named({"loaded"}))
    BY <1>2, <1>11, <1>15, HasNone, ThenConcat
<1>19. Paired(s, {})
    <2>1. ~Has(L, Named({"write"}))
        BY <1>7, <1>8
    <2>2. Paired(L, {})
        BY <2>1, NoWrites
    <2>. QED
        BY <2>2, <1>2, <1>11, <1>14, PairedConcat
<1>20. First(s, Named({"loaded"}), Named(Changes))
    <2>1. ~Has(L, Named(Changes))
        BY <1>7, <1>8
    <2>. QED
        BY <2>1, <1>2, <1>11, <1>12, HasNone, FirstConcat
<1>21. v < 4 => First(s, Named({"setVersion4", "setVersion5"}), ChunkSaves)
    <2>1. ~Has(L, Named({"create", "write", "fit"}))
        BY <1>8 DEF Reads
    <2>2. ~Has(L, ChunkSaves)
        BY <2>1 DEF Has, ChunkSaves, Named
    <2>. QED
        BY <2>2, <1>2, <1>11, <1>13, HasNone, FirstConcat
<1>22. v = 5 => ~Has(s, Named(Changes)) /\ ~Has(s, Named(Promises))
    <2>1. ~Has(L, Named(Changes)) /\ ~Has(L, Named(Promises))
        BY <1>7, <1>8
    <2>2. ~Has(A, Named(Changes)) /\ ~Has(A, Named(Promises))
        BY <1>4, <1>7
    <2>3. v = 5 => ~Has(C, Named(Changes)) /\ ~Has(C, Named(Promises))
        BY <1>5, HasNothing
    <2>. QED
        BY <2>1, <2>2, <2>3, <1>11, <1>16
<1>23. ~Has(s, Named(Reads) \ ReadOps(v))
    <2>1. ~Has(T, Named(Reads) \ ReadOps(v))
        BY <1>15 DEF Has
    <2>. QED
        BY <2>1, <1>9, <1>16
<1>24. ~Has(L, Named({"saved"}))
    BY <1>7, <1>8
<1>. QED
    <2>1. v < 4 => v < 5
        OBVIOUS
    <2>. HIDE DEF s
    <2>2. /\ s \in Seq(GameOps) /\ InOrder(s) /\ Paired(s, {})
          /\ Then(s, Named(Reads), Named({"loaded"}))
          /\ Has(s, Named({"loaded"})) /\ ~Has(s, Named({"saved"}))
          /\ First(s, Named({"loaded"}), Named(Changes))
          /\ v = 5 => ~Has(s, Named(Changes)) /\ ~Has(s, Named(Promises))
          /\ v < 5 => Has(s, Named({"setVersion5"}))
          /\ v < 4 => /\ First(s, Named({"setVersion4", "setVersion5"}), ChunkSaves)
                      /\ Has(s, On("create", EntityData))
          /\ \A f \in Listed : v < 5 => Has(s, On("write", f))
          /\ ~Has(s, Named(Reads) \ ReadOps(v))
          /\ \A f \in FilesOf(v) : Has(s, ReadOf(f))
        BY <2>1, <1>2, <1>5, <1>11, <1>15, <1>16, <1>17, <1>18, <1>19, <1>20, <1>21, <1>22,
           <1>23, <1>24
    <2>. QED
        BY <2>2, <1>1

----------------------------------------------------------------------------
(* The scripts that create and save a world.                               *)

LEMMA StepIs ==
    ASSUME NEW name \in {"saveGame", "setVersion4", "setVersion5", "replaceOldWater",
                         "list", "loaded", "made", "saved", "leave"}
    PROVE  /\ Do(name) \in GameOps /\ Do(name).op = name
           /\ <<Do(name)>> \in Seq(GameOps)
           /\ \A N : Has(<<Do(name)>>, Named(N)) <=> name \in N
           /\ \A n, h : n \in {"create", "write", "fit", "delete"} =>
                 ~Has(<<Do(name)>>, On(n, h))
<1>1. name \in OpNames /\ WorldData \in FilesFor(name) /\ {name} \in SUBSET OpNames
    BY NamesAre
<1>2. /\ Do(name) \in GameOps /\ Do(name).op = name
      /\ <<Do(name)>> \in Using({name})
      /\ \A N : Has(<<Do(name)>>, Named(N)) <=> name \in N
      /\ \A n, g : Has(<<Do(name)>>, On(n, g)) <=> name = n /\ g = WorldData
    BY <1>1, OneStep
<1>3. <<Do(name)>> \in Seq(GameOps)
    BY <1>1, <1>2, UsingIs
<1>4. name \notin {"create", "write", "fit", "delete"}
    OBVIOUS
<1>. QED
    BY <1>2, <1>3, <1>4

CreateScript == <<Do("saveGame")>> \o saveAllChunk(FALSE) \o <<Do("made")>>

LEMMA CreateScriptIs ==
    LET s == CreateScript
    IN  /\ s \in Seq(GameOps) /\ InOrder(s) /\ Paired(s, {})
        /\ ~Has(s, Named(Reads \cup {"loaded", "saved"}))
        /\ Has(s, Named({"made"})) /\ Has(s, Named({"saveGame"}))
        /\ Has(s, On("create", EntityData)) /\ \A f \in Listed : Has(s, On("write", f))
<1>. DEFINE g == <<Do("saveGame")>>
            F == saveAllChunk(FALSE)
            m == <<Do("made")>>
            a == Do("made")
            M == F \o m
            s == g \o M
<1>1. /\ g \in Using({"saveGame"}) /\ F \in Using({"create", "write"}) /\ m \in Using({"made"})
      /\ m = <<a>> /\ a \in GameOps /\ a.op = "made"
      /\ \A N : Has(m, Named(N)) <=> "made" \in N
      /\ \A N : Has(g, Named(N)) <=> "saveGame" \in N
    BY OneStep, NamesAre, SaveAllIs
<1>2. g \in Seq(GameOps) /\ F \in Seq(GameOps) /\ m \in Seq(GameOps)
    BY <1>1, UsingIs, ConvertingIs
<1>3. CreateScript = s
    <2>1. CreateScript = Cat(Cat(g, F), m)
        BY DEF CreateScript, Cat
    <2>. HIDE DEF g, F, m
    <2>2. \A x, y, z \in Seq(GameOps) : Cat(Cat(x, y), z) = Cat(x, Cat(y, z))
        BY CatIs
    <2>3. Cat(Cat(g, F), m) = Cat(g, Cat(F, m))
        BY ONLY <1>2, <2>2
    <2>. QED
        BY <2>1, <2>3 DEF Cat
<1>4. /\ Has(F, On("create", EntityData)) /\ \A f \in Listed : Has(F, On("write", f))
      /\ Paired(F, {}) /\ Paired(g, {}) /\ Paired(m, {})
    BY SaveAllIs, StepsNoWrites, NamesAre
<1>5. InOrder(m)
    <2>1. InOrder(<<a>> \o <<>>)
        <3>1. \A A : ~Has(<<>>, A)
            BY HasNothing
        <3>. HIDE DEF a
        <3>2. "made" \in Promises /\ "made" \in Conversions
            BY DEF Promises, Conversions
        <3>3. <<>> \in Seq(GameOps)
            BY EmptySeq
        <3>. QED
            BY <1>1, <3>1, <3>2, <3>3, EmptyInOrder, OneBefore
    <2>2. <<a>> \o <<>> = <<a>>
        OBVIOUS
    <2>. QED
        BY <2>1, <2>2, <1>1
<1>. HIDE DEF g, F, m, a
<1>6. M \in Seq(GameOps) /\ \A A : Has(M, A) <=> Has(F, A) \/ Has(m, A)
    BY <1>2, ConcatIs, HasConcat
<1>7. InOrder(M)
    <2>1. \A f \in Listed : Then(F, On("delete", f), On("write", f))
        BY <1>1, NoDeletes, ConvertingIs
    <2>. QED
        BY <2>1, <1>1, <1>2, <1>5, FilesBefore
<1>8. Paired(M, {})
    BY <1>2, <1>4, PairedConcat
<1>. HIDE DEF M
<1>9. s \in Seq(GameOps) /\ \A A : Has(s, A) <=> Has(g, A) \/ Has(M, A)
    BY <1>2, <1>6, ConcatIs, HasConcat
<1>10. InOrder(s)
    <2>1. /\ OpNames \ Plain \in SUBSET OpNames /\ "saveGame" \notin OpNames \ Plain
          /\ "saveGame" \notin Reads
        BY DEF Plain, Conversions, Promises, OpNames, Reads
    <2>2. /\ ~Has(g, Named(OpNames \ Plain)) /\ ~Has(g, Named(Reads)) /\ ~Has(g, Named({"fit"}))
          /\ ~Has(g, Named({"delete"}))
        BY <2>1, <1>1
    <2>3. \A f \in Listed : Then(g, On("delete", f), On("write", f))
        BY <1>1, NoDeletes, ConvertingIs
    <2>. QED
        BY <2>2, <2>3, <1>2, <1>6, <1>7, PlainBefore
<1>11. Paired(s, {})
    BY <1>2, <1>4, <1>6, <1>8, PairedConcat
<1>12. ~Has(s, Named(Reads \cup {"loaded", "saved"}))
    <2>1. ~Has(F, Named(Reads \cup {"loaded", "saved"}))
        <3>1. (Reads \cup {"loaded", "saved"}) \cap {"create", "write"} = {}
            BY DEF Reads
        <3>. QED
            BY <3>1, <1>1, UsingIs, ConvertingIs
    <2>2. "saveGame" \notin Reads \cup {"loaded", "saved"} /\ "made" \notin Reads \cup {"loaded", "saved"}
        BY DEF Reads
    <2>. QED
        BY <2>1, <2>2, <1>1, <1>6, <1>9
<1>13. Has(s, Named({"made"})) /\ Has(s, Named({"saveGame"}))
    BY <1>1, <1>6, <1>9
<1>14. Has(s, On("create", EntityData)) /\ \A f \in Listed : Has(s, On("write", f))
    BY <1>4, <1>6, <1>9
<1>. QED
    BY <1>3, <1>9, <1>10, <1>11, <1>12, <1>13, <1>14

SaveScript(quit) == saveAllChunk(TRUE) \o <<Do("list"), Do("saveGame"), Do("saved")>>
                    \o (IF quit THEN <<Do("leave")>> ELSE <<>>)

\* One step before a script in order, as OneBefore says.
LEMMA SaveScriptIs ==
    ASSUME NEW quit \in BOOLEAN
    PROVE  LET s == SaveScript(quit)
           IN  /\ s \in Seq(GameOps) /\ InOrder(s) /\ Paired(s, {EntityData})
               /\ ~Has(s, Named(Reads \cup {"loaded"}))
               /\ Has(s, Named({"saved"})) /\ Has(s, Named({"saveGame"})) /\ Has(s, Named({"list"}))
               /\ \A f \in Listed : Has(s, On("write", f) \cup On("fit", f))
               /\ \A f \in ChunkFiles : /\ Has(s, On("fit", f)) /\ ~Has(s, On("create", f))
                                        /\ ~Has(s, On("write", f))
               /\ \A f : ~Has(s, On("delete", f))
<1>. DEFINE F == saveAllChunk(TRUE)
            l == <<Do("list")>>
            g == <<Do("saveGame")>>
            v == <<Do("saved")>>
            q == IF quit THEN <<Do("leave")>> ELSE <<>>
            V == v \o q
            G == g \o V
            L == l \o G
            s == F \o L
<1>1. /\ F \in Using({"create", "write", "fit"}) /\ F \in Seq(GameOps)
      /\ \A f \in Listed : Has(F, On("write", f) \cup On("fit", f))
      /\ \A f \in ChunkFiles : /\ Has(F, On("fit", f)) /\ ~Has(F, On("create", f))
                               /\ ~Has(F, On("write", f))
      /\ \A f : ~Has(F, On("delete", f))
      /\ \A N : N \cap {"create", "write", "fit"} = {} => ~Has(F, Named(N))
      /\ Paired(F, {EntityData})
    <2>1. {"create", "write", "fit"} \in SUBSET OpNames
        BY DEF OpNames
    <2>2. F \in Using({"create", "write", "fit"}) /\ F \in Seq(GameOps)
          /\ \A N : N \cap {"create", "write", "fit"} = {} => ~Has(F, Named(N))
        BY <2>1, SaveAllIs, UsingIs
    <2>3. ~Has(F, Named({"delete"}))
        BY <2>2
    <2>4. \A f : ~Has(F, On("delete", f))
        BY <2>3 DEF Has, On, Named
    <2>. HIDE DEF F
    <2>. QED
        BY <2>2, <2>4, SaveAllIs DEF F
<1>2. /\ l \in Seq(GameOps) /\ g \in Seq(GameOps) /\ v \in Seq(GameOps)
      /\ \A N : Has(l, Named(N)) <=> "list" \in N
      /\ \A N : Has(g, Named(N)) <=> "saveGame" \in N
      /\ \A N : Has(v, Named(N)) <=> "saved" \in N
      /\ \A n, h : n \in {"create", "write", "fit", "delete"} =>
                     ~Has(l, On(n, h)) /\ ~Has(g, On(n, h)) /\ ~Has(v, On(n, h))
      /\ Do("list") \in GameOps /\ Do("list").op = "list"
      /\ Do("saveGame") \in GameOps /\ Do("saveGame").op = "saveGame"
      /\ Do("saved") \in GameOps /\ Do("saved").op = "saved"
    BY StepIs
<1>3. /\ q \in Seq(GameOps) /\ InOrder(q)
      /\ \A N : Has(q, Named(N)) => "leave" \in N
      /\ \A n, h : n \in {"create", "write", "fit", "delete"} => ~Has(q, On(n, h))
    <2>1. CASE quit
        <3>. DEFINE a == Do("leave")
        <3>1. /\ a \in GameOps /\ a.op = "leave" /\ <<a>> \in Seq(GameOps)
              /\ \A N : Has(<<a>>, Named(N)) <=> "leave" \in N
              /\ \A n, h : n \in {"create", "write", "fit", "delete"} => ~Has(<<a>>, On(n, h))
            BY StepIs
        <3>2. "leave" \notin Promises /\ "leave" \notin Conversions
            BY DEF Promises, Conversions
        <3>3. <<>> \in Seq(GameOps)
            BY EmptySeq
        <3>4. \A A : ~Has(<<>>, A)
            BY HasNothing
        <3>5. q = <<a>>
            BY <2>1
        <3>. HIDE DEF a, q
        <3>6. InOrder(<<a>> \o <<>>)
            BY <3>1, <3>2, <3>3, <3>4, EmptyInOrder, OneBefore
        <3>7. <<a>> \o <<>> = <<a>>
            OBVIOUS
        <3>. QED
            BY <3>1, <3>5, <3>6, <3>7
    <2>2. CASE ~quit
        <3>1. q = <<>>
            BY <2>2
        <3>. HIDE DEF q
        <3>. QED
            BY <3>1, EmptySeq, HasNothing, EmptyInOrder
    <2>. QED
        BY <2>1, <2>2
<1>4. SaveScript(quit) = s
    <2>1. <<Do("list"), Do("saveGame"), Do("saved")>> = Cat(l, Cat(g, v))
        BY DEF Cat
    <2>2. SaveScript(quit) = Cat(Cat(F, Cat(l, Cat(g, v))), q)
        BY <2>1 DEF SaveScript, Cat
    <2>3. \A x, y, z \in Seq(GameOps) :
             Cat(Cat(x, y), z) = Cat(x, Cat(y, z)) /\ Cat(x, y) \in Seq(GameOps)
        BY CatIs
    <2>. HIDE DEF F, l, g, v, q
    <2>4. Cat(Cat(F, Cat(l, Cat(g, v))), q) = Cat(F, Cat(l, Cat(g, Cat(v, q))))
        <3>1. Cat(g, v) \in Seq(GameOps) /\ Cat(l, Cat(g, v)) \in Seq(GameOps)
            BY ONLY <2>3, <1>2
        <3>2. Cat(Cat(F, Cat(l, Cat(g, v))), q) = Cat(F, Cat(Cat(l, Cat(g, v)), q))
            BY ONLY <2>3, <3>1, <1>1, <1>3
        <3>3. Cat(Cat(l, Cat(g, v)), q) = Cat(l, Cat(Cat(g, v), q))
            BY ONLY <2>3, <3>1, <1>2, <1>3
        <3>4. Cat(Cat(g, v), q) = Cat(g, Cat(v, q))
            BY ONLY <2>3, <1>2, <1>3
        <3>. QED
            BY ONLY <3>2, <3>3, <3>4
    <2>. QED
        BY <2>2, <2>4 DEF Cat
<1>. DEFINE last == Do("saved")
            save == Do("saveGame")
            list == Do("list")
<1>5. v = <<last>> /\ g = <<save>> /\ l = <<list>>
    OBVIOUS
<1>. HIDE DEF F, l, g, v, q, last, save, list
<1>6. V \in Seq(GameOps) /\ \A A : Has(V, A) <=> Has(v, A) \/ Has(q, A)
    BY <1>2, <1>3, ConcatIs, HasConcat
<1>7. InOrder(V)
    <2>1. "leave" \notin OpNames \ {"leave"} /\ "saved" \in Promises /\ "saved" \notin Conversions
        BY DEF Promises, Conversions
    <2>2. ~Has(q, Named(OpNames \ {"leave"}))
        BY <2>1, <1>3
    <2>3. InOrder(<<last>> \o q)
        BY <2>1, <2>2, <1>2, <1>3, OneBefore DEF last
    <2>. QED
        BY <2>3, <1>5
<1>. HIDE DEF V
<1>8. G \in Seq(GameOps) /\ \A A : Has(G, A) <=> Has(g, A) \/ Has(V, A)
    BY <1>2, <1>6, ConcatIs, HasConcat
<1>9. InOrder(G)
    <2>1. "saveGame" \notin Promises /\ "saveGame" \notin Conversions
        BY DEF Promises, Conversions
    <2>2. InOrder(<<save>> \o V)
        BY <2>1, <1>2, <1>6, <1>7, OneBefore DEF save
    <2>. QED
        BY <2>2, <1>5
<1>. HIDE DEF G
<1>10. L \in Seq(GameOps) /\ \A A : Has(L, A) <=> Has(l, A) \/ Has(G, A)
    BY <1>2, <1>8, ConcatIs, HasConcat
<1>11. InOrder(L)
    <2>1. "list" \notin Promises /\ "list" \notin Conversions
        BY DEF Promises, Conversions
    <2>2. Has(G, Named({"saveGame"})) /\ Has(G, Named({"saved"}))
        BY <1>2, <1>6, <1>8
    <2>3. InOrder(<<list>> \o G)
        BY <2>1, <2>2, <1>2, <1>8, <1>9, OneBefore DEF list
    <2>. QED
        BY <2>3, <1>5
<1>12. \A A : Has(L, A) <=> Has(l, A) \/ Has(g, A) \/ Has(v, A) \/ Has(q, A)
    BY <1>6, <1>8, <1>10
<1>. HIDE DEF L
<1>13. s \in Seq(GameOps) /\ \A A : Has(s, A) <=> Has(F, A) \/ Has(L, A)
    BY <1>1, <1>10, ConcatIs, HasConcat
<1>14. InOrder(s)
    <2>1. /\ (OpNames \ Plain) \cap {"create", "write", "fit"} = {}
          /\ Reads \cap {"create", "write", "fit"} = {}
        BY DEF Plain, Conversions, Promises, OpNames, Reads
    <2>2. ~Has(F, Named(OpNames \ Plain)) /\ ~Has(F, Named(Reads))
        BY <2>1, <1>1
    <2>3. \A f \in Listed : Then(F, On("delete", f), On("write", f))
        <3>1. {"create", "write", "fit"} \in SUBSET OpNames /\ "delete" \notin {"create", "write", "fit"}
            BY DEF OpNames
        <3>. QED
            BY <3>1, <1>1, NoDeletes
    <2>4. Has(L, Named({"saved"}))
        BY <1>2, <1>12
    <2>. QED
        BY <2>2, <2>3, <2>4, <1>1, <1>10, <1>11, PlainBefore
<1>15. Paired(s, {EntityData})
    <2>1. ~Has(L, Named({"write"}))
        BY <1>2, <1>3, <1>12
    <2>2. Paired(L, {EntityData})
        BY <2>1, NoWrites
    <2>. QED
        BY <2>2, <1>1, <1>10, PairedConcat
<1>16. ~Has(s, Named(Reads \cup {"loaded"}))
    <2>1. /\ (Reads \cup {"loaded"}) \cap {"create", "write", "fit"} = {}
          /\ \A n \in {"list", "saveGame", "saved", "leave"} : n \notin Reads \cup {"loaded"}
        BY DEF Reads
    <2>. QED
        BY <2>1, <1>1, <1>2, <1>3, <1>12, <1>13
<1>17. Has(s, Named({"saved"})) /\ Has(s, Named({"saveGame"})) /\ Has(s, Named({"list"}))
    BY <1>2, <1>12, <1>13
<1>18. \A f : ~Has(L, On("create", f)) /\ ~Has(L, On("write", f)) /\ ~Has(L, On("delete", f))
    BY <1>2, <1>3, <1>12
<1>. QED
    BY <1>1, <1>4, <1>13, <1>14, <1>15, <1>16, <1>17, <1>18

\* The scripts of the screens that are no game.
LEMMA MenuScriptsAre ==
    /\ \A s \in Seq(MenuOps) \cup Seq(EditOps) : s \in Seq(GameOps)
    /\ <<Do("saveGame")>> \in Seq(MenuOps) /\ InOrder(<<Do("saveGame")>>)
    /\ \A N : Has(<<Do("saveGame")>>, Named(N)) <=> "saveGame" \in N
    /\ loadWorldData \in Seq(EditOps) /\ InOrder(loadWorldData)
    /\ \A N : Has(loadWorldData, Named(N)) <=> "load" \in N
    /\ saveWorldData \o <<Do("saveGame")>> \in Seq(MenuOps)
    /\ InOrder(saveWorldData \o <<Do("saveGame")>>)
    /\ Paired(saveWorldData \o <<Do("saveGame")>>, {})
    /\ \A N : Has(saveWorldData \o <<Do("saveGame")>>, Named(N))
              <=> "create" \in N \/ "write" \in N \/ "saveGame" \in N
    /\ \A f : Has(saveWorldData \o <<Do("saveGame")>>, On("write", f)) => f = WorldData
<1>. DEFINE a == Do("saveGame")
            g == <<a>>
            r == Op("load", WorldData)
            c == Op("create", WorldData)
            w == Op("write", WorldData)
            W == <<c, w>>
<1>1. /\ {"saveGame", "load", "create", "write"} \subseteq OpNames
      /\ WorldData \in FilesFor("load") /\ WorldData \in FilesFor("create")
      /\ WorldData \in FilesFor("write") /\ WorldData \in FilesFor("saveGame")
    BY FilesAre DEF FilesFor, OpNames
<1>2. /\ a \in GameOps /\ a.op = "saveGame" /\ a.file = WorldData
      /\ \A N : a \in Named(N) <=> "saveGame" \in N
      /\ \A n, f : a \in On(n, f) <=> n = "saveGame" /\ f = WorldData
      /\ r \in GameOps /\ r.op = "load" /\ r.file = WorldData
      /\ \A N : r \in Named(N) <=> "load" \in N
      /\ c \in GameOps /\ c.op = "create" /\ c.file = WorldData
      /\ \A N : c \in Named(N) <=> "create" \in N
      /\ \A n, f : c \in On(n, f) <=> n = "create" /\ f = WorldData
      /\ w \in GameOps /\ w.op = "write" /\ w.file = WorldData
      /\ \A N : w \in Named(N) <=> "write" \in N
      /\ \A n, f : w \in On(n, f) <=> n = "write" /\ f = WorldData
    BY <1>1, OpIs, DoIs, FilesAre
<1>3. loadWorldData = <<r>> /\ saveWorldData = W
    BY DEF loadWorldData, saveWorldData, Save, WorldData
<1>. HIDE DEF a, r, c, w
<1>4. a \in MenuOps /\ c \in MenuOps /\ w \in MenuOps /\ r \in EditOps
    BY <1>2 DEF MenuOps, EditOps
<1>5. \A s \in Seq(MenuOps) \cup Seq(EditOps) : s \in Seq(GameOps)
    <2>1. MenuOps \subseteq GameOps /\ EditOps \subseteq GameOps
        BY DEF MenuOps, EditOps
    <2>. QED
        BY <2>1
<1>6. /\ g \in Seq(MenuOps) /\ \A A : Has(g, A) <=> a \in A
      /\ <<r>> \in Seq(EditOps) /\ \A A : Has(<<r>>, A) <=> r \in A
      /\ W \in Seq(MenuOps) /\ \A A : Has(W, A) <=> c \in A \/ w \in A
      /\ DOMAIN W = {1, 2} /\ W[1] = c /\ W[2] = w
    BY <1>4, OneOp, TwoOps
<1>7. InOrder(g) /\ InOrder(<<r>>)
    <2>1. /\ ~("saveGame" \in OpNames \ Plain) /\ ~("load" \in OpNames \ Plain)
          /\ "saveGame" \notin Reads
        BY DEF Plain, Conversions, Promises, OpNames, Reads
    <2>2. \A A : ~Has(<<>>, A)
        BY HasNothing
    <2>3. \A s \in {g, <<r>>} : /\ s \in Seq(GameOps) /\ ~Has(s, Named(OpNames \ Plain))
                                /\ ~Has(s, Named({"fit"})) /\ ~Has(s, Named({"delete"}))
        <3>1. /\ ~Has(g, Named(OpNames \ Plain)) /\ ~Has(g, Named({"fit"}))
              /\ ~Has(g, Named({"delete"}))
            BY <1>2, <1>6, <2>1
        <3>2. /\ ~Has(<<r>>, Named(OpNames \ Plain)) /\ ~Has(<<r>>, Named({"fit"}))
              /\ ~Has(<<r>>, Named({"delete"}))
            BY <1>2, <1>6, <2>1
        <3>. HIDE DEF g
        <3>. QED
            BY <3>1, <3>2, <1>5, <1>6
    <2>4. ASSUME NEW s \in {g, <<r>>}
          PROVE  InOrder(s \o <<>>)
        <3>1. \A f \in Listed : Then(s, On("delete", f), On("write", f))
            <4>1. \A f : ~Has(s, On("delete", f))
                BY <2>3 DEF Has, Named, On
            <4>. QED
                BY <4>1, HasNone
        <3>2. <<>> \in Seq(GameOps)
            BY EmptySeq
        <3>. QED
            BY <2>2, <2>3, <3>1, <3>2, EmptyInOrder, PlainBefore
    <2>5. \A s \in {g, <<r>>} : s \o <<>> = s
        <3>1. \A s \in Seq(GameOps) : s \o <<>> = s
            OBVIOUS
        <3>. QED
            BY <2>3, <3>1
    <2>. QED
        BY <2>4, <2>5
<1>8. Paired(W, {}) /\ Paired(g, {})
    <2>1. \A f \in Listed \ {} : W[1] \notin On("write", f)
        BY <1>2, <1>6
    <2>2. \A f \in Listed \ {} : W[2] \in On("write", f) => W[1] \in On("create", f)
        BY <1>2, <1>6
    <2>3. Paired(W, {})
        <3>. HIDE DEF W
        <3>. QED
            BY <2>1, <2>2, <1>6 DEF Paired
    <2>4. ~Has(g, Named({"write"}))
        BY <1>2, <1>6
    <2>. QED
        BY <2>3, <2>4, NoWrites
<1>. HIDE DEF g, W
<1>9. W \o g \in Seq(MenuOps) /\ \A A : Has(W \o g, A) <=> Has(W, A) \/ Has(g, A)
    BY <1>6, ConcatIs, HasConcat
<1>10. InOrder(W \o g)
    <2>1. /\ "create" \notin OpNames \ Plain /\ "write" \notin OpNames \ Plain
          /\ "create" \notin Reads /\ "write" \notin Reads
        BY DEF Plain, Conversions, Promises, OpNames, Reads
    <2>2. /\ ~Has(W, Named(OpNames \ Plain)) /\ ~Has(W, Named(Reads))
          /\ ~Has(W, Named({"fit"})) /\ ~Has(W, Named({"delete"}))
        BY <1>2, <1>6, <2>1
    <2>3. \A f : ~Has(W, On("delete", f))
        BY <2>2 DEF Has, Named, On
    <2>4. \A f \in Listed : Then(W, On("delete", f), On("write", f))
        BY <2>3, HasNone
    <2>. QED
        BY <2>2, <2>4, <1>5, <1>6, <1>7, PlainBefore
<1>11. Paired(W \o g, {})
    BY <1>6, <1>8, PairedConcat
<1>12. \A N : Has(W \o g, Named(N)) <=> "create" \in N \/ "write" \in N \/ "saveGame" \in N
    BY <1>2, <1>6, <1>9
<1>13. \A f : Has(W \o g, On("write", f)) => f = WorldData
    BY <1>2, <1>6, <1>9
<1>. QED
    BY <1>2, <1>3, <1>5, <1>6, <1>7, <1>9, <1>10, <1>11, <1>12, <1>13 DEF g, a

----------------------------------------------------------------------------
(* A step of a script.                                                     *)

\* What a step puts before the rest of the script.
Front ==
    LET f == Head(todo).file
        op == Head(todo).op
        missing == Entry(f).form = "missing"
    IN  CASE op = "fit" ->
                 IF Entry(f).room # Content(mem, f).room
                 THEN <<Op("delete", f), Op("create", f), Op("write", f)>>
                 ELSE <<Op("write", f)>>
          [] op = "load" /\ missing ->
                 (CASE f[1] = "worldData" -> <<Do("saveGame")>>
                    [] f[1] = "chestData" -> saveChestData
                    [] f[1] = "entityData" -> saveEntityData(FALSE)
                    [] OTHER -> <<>>)
          [] op \in {"loadV4", "loadRaw"} /\ missing /\ f[1] = "chestData" -> saveChestData
          [] OTHER -> <<>>

LEMMA HeadIs ==
    ASSUME Types, Script, todo # <<>>
    PROVE  LET h == Head(todo)
           IN  /\ todo \in Seq(GameOps) /\ todo \in Seq(Ops)
               /\ h \in GameOps /\ h \in Ops /\ h.op \in OpNames
               /\ h.file \in Files /\ h.file \in FilesFor(h.op)
               /\ Tail(todo) \in Seq(GameOps) /\ InOrder(Tail(todo))
               /\ screen = "menu" => h \in MenuOps /\ Tail(todo) \in Seq(MenuOps)
               /\ screen = "edit" => h \in EditOps /\ Tail(todo) \in Seq(EditOps)
               /\ screen = "game" => /\ Then(Tail(todo), Named(Reads), Named({"loaded"}))
                                     /\ h.op \in Reads => Has(Tail(todo), Named({"loaded"}))
               /\ h.op \in FileOps => world \in Worlds
               /\ h.op \notin {"create", "write", "saveGame", "load"} =>
                      screen = "game" /\ world \in Worlds
               /\ world = 0 => h.op = "saveGame"
<1>. DEFINE h == Head(todo)
<1>1. /\ screen \in {"menu", "edit", "game"} /\ world \in Worlds \cup {0}
      /\ screen # "menu" => world # 0
    BY DEF Types, TypeOK
<1>2. todo \in Seq(GameOps)
    BY <1>1, MenuScriptsAre DEF Script
<1>3. /\ todo \in Seq(Ops) /\ h \in GameOps /\ h \in Ops /\ h.op \in OpNames
      /\ h.file \in Files /\ h.file \in FilesFor(h.op)
    <2>1. GameOps \subseteq Ops
        BY DEF GameOps
    <2>2. h \in GameOps
        BY <1>2, TailIs
    <2>3. h \in Ops /\ h.op \in OpNames /\ h.file \in Files
        BY <2>1, <2>2 DEF Ops
    <2>4. h.file \in FilesFor(h.op)
        BY <2>2 DEF GameOps
    <2>5. todo \in Seq(Ops)
        BY <1>2, <2>1
    <2>. QED
        BY <2>2, <2>3, <2>4, <2>5
<1>4. Tail(todo) \in Seq(GameOps) /\ InOrder(Tail(todo))
    BY <1>2, <1>3, TailIs, TailInOrder DEF Script
<1>5. screen = "menu" => h \in MenuOps /\ Tail(todo) \in Seq(MenuOps)
    BY TailIs DEF Script
<1>6. screen = "edit" => h \in EditOps /\ Tail(todo) \in Seq(EditOps)
    BY TailIs DEF Script
<1>7. screen = "game" => /\ Then(Tail(todo), Named(Reads), Named({"loaded"}))
                         /\ h.op \in Reads => Has(Tail(todo), Named({"loaded"}))
    <2>1. h.op \in Reads => h \in Named(Reads)
        BY <1>3 DEF Named
    <2>. QED
        BY <2>1, <1>2, ThenTail DEF Script
<1>8. h.op \notin {"create", "write", "saveGame", "load"} => screen = "game" /\ world \in Worlds
    <2>1. screen = "menu" => h.op \in {"create", "write", "saveGame"}
        BY <1>5 DEF MenuOps
    <2>2. screen = "edit" => h.op \in {"load", "saveGame"}
        BY <1>6 DEF EditOps
    <2>. QED
        BY <2>1, <2>2, <1>1
<1>9. h.op \in {"create", "write"} => world \in Worlds
    <2>1. h.op \in {"create", "write"} => h \in Named({"create", "write"})
        BY <1>3 DEF Named
    <2>. QED
        BY <2>1, <1>1, <1>2, HasTail DEF Script
<1>10. h.op \in FileOps => world \in Worlds
    BY <1>8, <1>9 DEF FileOps
<1>11. world = 0 => h.op = "saveGame"
    <2>1. 0 \notin Worlds
        BY WorldFilesAssumption
    <2>2. screen = "menu" => h.op \in {"create", "write", "saveGame"}
        BY <1>5 DEF MenuOps
    <2>. QED
        BY <2>1, <2>2, <1>1, <1>9
<1>. QED
    BY <1>2, <1>3, <1>4, <1>5, <1>6, <1>7, <1>8, <1>10, <1>11

\* Each operation does what its name says.
LEMMA WorkDoes ==
    ASSUME Types, Script, Work
    PROVE  LET h == Head(todo)
           IN  /\ todo # <<>>
               /\ h.op = "create" => Create(h.file)
               /\ h.op = "write" => Write(h.file)
               /\ h.op = "fit" => Fit(h.file)
               /\ h.op = "delete" => Delete(h.file)
               /\ h.op = "load" => Load(h.file)
               /\ h.op \in {"loadV4", "loadRaw"} => LoadOld(h.file)
               /\ h.op = "saveGame" => SaveGame
               /\ h.op = "setVersion4" => SetVersion(4)
               /\ h.op = "setVersion5" => SetVersion(currentVersion)
               /\ h.op = "replaceOldWater" => replaceOldWater
               /\ h.op = "list" => List
               /\ h.op = "loaded" => Loaded
               /\ h.op = "made" => Promise("creation")
               /\ h.op = "saved" => Promise("save")
               /\ h.op = "leave" => Leave
    BY Zenon DEF Work

LEMMA ThreeOps ==
    ASSUME NEW S, NEW a \in S, NEW b \in S, NEW c \in S
    PROVE  /\ <<a, b, c>> \in Seq(S) /\ Len(<<a, b, c>>) = 3 /\ DOMAIN <<a, b, c>> = {1, 2, 3}
           /\ <<a, b, c>>[1] = a /\ <<a, b, c>>[2] = b /\ <<a, b, c>>[3] = c
           /\ \A A : Has(<<a, b, c>>, A) <=> a \in A \/ b \in A \/ c \in A
<1>1. <<a, b, c>> \in Seq(S) /\ Len(<<a, b, c>>) = 3 /\ DOMAIN <<a, b, c>> = {1, 2, 3}
      /\ <<a, b, c>>[1] = a /\ <<a, b, c>>[2] = b /\ <<a, b, c>>[3] = c
    <2>1. DOMAIN <<a, b, c>> = 1..3 /\ 1..3 = {1, 2, 3}
        OBVIOUS
    <2>. QED
        BY <2>1
<1>. DEFINE s == <<a, b, c>>
<1>2. DOMAIN s = {1, 2, 3} /\ s[1] = a /\ s[2] = b /\ s[3] = c
    BY <1>1
<1>. HIDE DEF s
<1>3. \A A : Has(s, A) <=> a \in A \/ b \in A \/ c \in A
    BY <1>2 DEF Has
<1>. QED
    BY <1>1, <1>3 DEF s

LEMMA FrontCases ==
    ASSUME Types, Script, todo # <<>>
    PROVE  LET h == Head(todo)
               f == h.file
               missing == Entry(f).form = "missing"
           IN  \/ Front = <<>> /\ h.op # "fit"
               \/ /\ h.op = "fit" /\ Entry(f).room # Content(mem, f).room
                  /\ Front = <<Op("delete", f), Op("create", f), Op("write", f)>>
               \/ /\ h.op = "fit" /\ Entry(f).room = Content(mem, f).room
                  /\ Front = <<Op("write", f)>>
               \/ /\ h.op = "load" /\ missing /\ f = WorldData
                  /\ Front = <<Do("saveGame")>>
               \/ /\ h.op \in Reads /\ missing /\ f \in {<<"chestData", 0>>, EntityData}
                  /\ screen = "game"
                  /\ Front = <<Op("create", f), Op("write", f)>>
<1>. DEFINE h == Head(todo)
            f == h.file
            op == h.op
            missing == Entry(f).form = "missing"
<1>1. /\ h.op \in OpNames /\ f \in Files /\ f \in FilesFor(h.op)
      /\ screen = "edit" => h \in EditOps
      /\ screen = "menu" => h \in MenuOps
      /\ h.op \notin {"create", "write", "saveGame", "load"} => screen = "game"
    BY HeadIs
<1>2. /\ screen \in {"menu", "edit", "game"}
      /\ screen = "edit" => f = WorldData
      /\ screen = "menu" => op # "load"
    BY HeadIs DEF Types, TypeOK, EditOps, MenuOps
<1>3. /\ f[1] = "worldData" => f = WorldData
      /\ f[1] = "chestData" => f = <<"chestData", 0>>
      /\ f[1] = "entityData" => f = EntityData
    <2>1. f \in Files
        BY <1>1
    <2>. HIDE DEF f
    <2>. QED
        BY <2>1 DEF Files, WorldData, EntityData
<1>4. /\ <<"chestData", 0>>[1] = "chestData" /\ EntityData[1] = "entityData"
      /\ WorldData[1] = "worldData"
    BY DEF WorldData, EntityData
<1>5. Front = CASE op = "fit" ->
                 IF Entry(f).room # Content(mem, f).room
                 THEN <<Op("delete", f), Op("create", f), Op("write", f)>>
                 ELSE <<Op("write", f)>>
          [] op = "load" /\ missing ->
                 (CASE f[1] = "worldData" -> <<Do("saveGame")>>
                    [] f[1] = "chestData" -> saveChestData
                    [] f[1] = "entityData" -> saveEntityData(FALSE)
                    [] OTHER -> <<>>)
          [] op \in {"loadV4", "loadRaw"} /\ missing /\ f[1] = "chestData" -> saveChestData
          [] OTHER -> <<>>
    BY DEF Front
<1>6. saveChestData = <<Op("create", <<"chestData", 0>>), Op("write", <<"chestData", 0>>)>>
      /\ saveEntityData(FALSE) = <<Op("create", EntityData), Op("write", EntityData)>>
    BY DEF saveChestData, saveEntityData, Save, EntityData
<1>7. Reads = {"load", "loadV4", "loadRaw"}
    BY DEF Reads
<1>. HIDE DEF op, f, missing
<1>8. CASE op = "fit"
    <2>1. Front = IF Entry(f).room # Content(mem, f).room
                  THEN <<Op("delete", f), Op("create", f), Op("write", f)>>
                  ELSE <<Op("write", f)>>
        BY Zenon, <1>5, <1>8
    <2>. QED
        BY <2>1, <1>8 DEF op, f
<1>9. CASE op = "load" /\ missing
    <2>1. Front = CASE f[1] = "worldData" -> <<Do("saveGame")>>
                    [] f[1] = "chestData" -> saveChestData
                    [] f[1] = "entityData" -> saveEntityData(FALSE)
                    [] OTHER -> <<>>
        <3>1. op # "fit" /\ ~(op \in {"loadV4", "loadRaw"} /\ missing /\ f[1] = "chestData")
            BY <1>9
        <3>. QED
            BY Zenon, <3>1, <1>5, <1>9
    <2>2. \/ f[1] = "worldData" /\ Front = <<Do("saveGame")>>
          \/ f[1] = "chestData" /\ Front = saveChestData
          \/ f[1] = "entityData" /\ Front = saveEntityData(FALSE)
          \/ Front = <<>>
        BY <2>1
    <2>3. f # WorldData => screen = "game"
        BY <1>2, <1>9
    <2>4. op # "fit"
        BY <1>9
    <2>. QED
        BY <2>2, <2>3, <2>4, <1>3, <1>4, <1>6, <1>7, <1>9 DEF op, f, missing
<1>10. CASE op \in {"loadV4", "loadRaw"} /\ missing /\ f[1] = "chestData"
    <2>1. Front = saveChestData
        <3>1. op # "fit" /\ op # "load"
            BY <1>10
        <3>. QED
            BY Zenon, <3>1, <1>5, <1>10
    <2>2. screen = "game"
        BY <1>1, <1>10 DEF op
    <2>. QED
        BY <2>1, <2>2, <1>3, <1>6, <1>7, <1>10 DEF op, f, missing
<1>11. CASE ~(op = "fit") /\ ~(op = "load" /\ missing)
            /\ ~(op \in {"loadV4", "loadRaw"} /\ missing /\ f[1] = "chestData")
    <2>1. Front = <<>>
        BY Zenon, <1>5, <1>11
    <2>. QED
        BY <2>1, <1>11 DEF op
<1>. QED
    BY <1>8, <1>9, <1>10, <1>11

LEMMA FrontIs ==
    ASSUME Types, Script, todo # <<>>
    PROVE  LET h == Head(todo)
           IN  /\ Front \in Using({"create", "write", "delete", "saveGame"})
               /\ Front \in Seq(GameOps)
               /\ \A f : Then(Front, On("delete", f), On("write", f))
               /\ h.op \notin Reads \cup {"fit"} => Front = <<>>
               /\ h.op # "fit" => /\ ~Has(Front, Named({"delete"})) /\ ~Has(Front, ChunkSaves)
                                  /\ Paired(Front, {})
               /\ screen = "menu" => Front = <<>>
               /\ screen = "edit" => Front \in Seq(EditOps)
<1>. DEFINE h == Head(todo)
            f == h.file
            N == {"create", "write", "delete", "saveGame"}
            S == GameOps \cap Named(N)
            d == Op("delete", f)
            c == Op("create", f)
            w == Op("write", f)
            g == Do("saveGame")
<1>1. /\ h \in GameOps /\ h.op \in OpNames /\ f \in Files /\ f \in FilesFor(h.op)
      /\ h.op \notin {"create", "write", "saveGame", "load"} => screen = "game"
    BY HeadIs
<1>2. /\ screen \in {"menu", "edit", "game"}
      /\ screen = "menu" => h.op \notin Reads \cup {"fit"}
      /\ screen = "edit" => f = WorldData
    BY HeadIs DEF Types, TypeOK, EditOps, MenuOps, Reads
<1>3. N \in SUBSET OpNames
    BY DEF OpNames
<1>4. CASE Front = <<>> /\ h.op # "fit"
    <2>1. /\ <<>> \in Seq(S) /\ <<>> \in Seq(GameOps) /\ <<>> \in Seq(EditOps)
          /\ \A f1 : Then(<<>>, On("delete", f1), On("write", f1))
          /\ Paired(<<>>, {})
        BY HasNothing, HasNone DEF Paired
    <2>. QED
        BY <2>1, <1>4, HasNothing DEF Using
<1>5. CASE h.op = "fit"
    <2>0. screen = "game"
        BY <1>1, <1>5
    <2>1. f \in ChunkFiles
        BY <1>1, <1>5 DEF FilesFor
    <2>2. f \in Listed /\ f \in FilesFor("delete") /\ f \in FilesFor("create") /\ f \in FilesFor("write")
        BY <2>1, FilesAre DEF FilesFor, ChunkFiles, WorldData, EntityData
    <2>3. /\ d \in S /\ \A n1, f1 : d \in On(n1, f1) <=> "delete" = n1 /\ f = f1
          /\ c \in S /\ \A n1, f1 : c \in On(n1, f1) <=> "create" = n1 /\ f = f1
          /\ w \in S /\ \A n1, f1 : w \in On(n1, f1) <=> "write" = n1 /\ f = f1
        BY <2>2, <1>1, <1>3, OpIs
    <2>4. Front = <<d, c, w>> \/ Front = <<w>>
        BY <1>5, FrontCases DEF Reads
    <2>. HIDE DEF d, c, w
    <2>5. CASE Front = <<d, c, w>>
        <3>1. /\ <<d, c, w>> \in Seq(S) /\ DOMAIN <<d, c, w>> = {1, 2, 3}
              /\ <<d, c, w>>[1] = d /\ <<d, c, w>>[2] = c /\ <<d, c, w>>[3] = w
            BY <2>3, ThreeOps
        <3>2. /\ Front \in Seq(S) /\ DOMAIN Front = {1, 2, 3}
              /\ Front[1] = d /\ Front[2] = c /\ Front[3] = w
            BY <3>1, <2>5
        <3>3. \A f1 : Then(Front, On("delete", f1), On("write", f1))
            BY <3>2, <2>3 DEF Then
        <3>. HIDE DEF S
        <3>4. Front \in Using(N)
            BY <3>2 DEF S, Using
        <3>5. Front \in Seq(GameOps)
            BY <3>4, <1>3, UsingIs
        <3>. QED
            BY <3>3, <3>4, <3>5, <2>0, <1>5
    <2>6. CASE Front = <<w>>
        <3>1. <<w>> \in Seq(S) /\ \A A : Has(<<w>>, A) <=> w \in A
            BY <2>3, OneOp
        <3>2. Front \in Using(N) /\ \A A : Has(Front, A) <=> w \in A
            BY <3>1, <2>6 DEF Using
        <3>3. \A f1 : Then(Front, On("delete", f1), On("write", f1))
            BY <3>2, <2>3, HasNone
        <3>5. Front \in Seq(GameOps)
            BY <3>2, <1>3, UsingIs
        <3>. QED
            BY <3>2, <3>3, <3>5, <2>0, <1>5
    <2>. QED
        BY <2>4, <2>5, <2>6
<1>6. CASE h.op = "load" /\ f = WorldData /\ Front = <<g>>
    <2>1. /\ g \in GameOps /\ g.op = "saveGame" /\ <<g>> \in Seq(GameOps) /\ <<g>> \in Using({"saveGame"})
          /\ \A M : Has(<<g>>, Named(M)) <=> "saveGame" \in M
          /\ \A n1, f1 : Has(<<g>>, On(n1, f1)) <=> "saveGame" = n1 /\ f1 = WorldData
          /\ <<g>> \in Seq(EditOps)
        <3>1. g \in EditOps
            BY OneStep, NamesAre, DoIs DEF EditOps
        <3>2. <<g>> \in Seq(EditOps)
            BY <3>1, OneOp
        <3>. QED
            BY <3>2, OneStep, NamesAre, StepIs
    <2>. HIDE DEF g
    <2>2. {"saveGame"} \in SUBSET OpNames /\ {"saveGame"} \subseteq N
        BY DEF OpNames
    <2>3. Front \in Using(N)
        BY <2>1, <2>2, <1>3, <1>6, UsingIs
    <2>4. /\ ~Has(Front, Named({"create", "write", "fit"})) /\ ~Has(Front, Named({"delete"}))
          /\ ~Has(Front, Named({"write"})) /\ \A f1 : ~Has(Front, On("delete", f1))
        BY <2>1, <1>6
    <2>5. ~Has(Front, ChunkSaves)
        BY <2>4 DEF Has, ChunkSaves, Named
    <2>6. \A f1 : Then(Front, On("delete", f1), On("write", f1))
        BY <2>4, HasNone
    <2>7. Paired(Front, {})
        BY <2>4, NoWrites
    <2>8. h.op \in Reads
        BY <1>6 DEF Reads
    <2>. QED
        BY <2>1, <2>3, <2>4, <2>5, <2>6, <2>7, <2>8, <1>2, <1>6
<1>7. CASE h.op \in Reads /\ f \in {<<"chestData", 0>>, EntityData} /\ Front = <<c, w>> /\ screen = "game"
    <2>. DEFINE name == f[1]
    <2>1. /\ name \in {"worldData", "playerData", "chestData", "entityData"}
          /\ f = <<name, 0>> /\ f \in Files /\ f \notin ChunkFiles
        BY <1>1, <1>7, FilesAre DEF EntityData
    <2>. HIDE DEF name
    <2>2. Front = Save(name)
        BY <2>1, <1>7 DEF Save
    <2>. HIDE DEF f, c, w
    <2>3. /\ Front \in Using({"create", "write"})
          /\ \A A : Has(Front, A) <=> Op("create", f) \in A \/ Op("write", f) \in A
          /\ \A G : Paired(Front, G)
        BY <2>1, <2>2, SaveIs
    <2>4. Front \in Using(N)
        BY <2>3, <1>3, UsingIs, ConvertingIs
    <2>5. Front \in Seq(GameOps)
        BY <2>4, <1>3, UsingIs
    <2>6. ~Has(Front, Named({"delete"}))
        <3>1. {"delete"} \cap {"create", "write"} = {}
            OBVIOUS
        <3>. QED
            BY <3>1, <2>3, UsingIs, ConvertingIs
    <2>7. ~Has(Front, ChunkSaves)
        <3>1. Op("create", f).file = f /\ Op("write", f).file = f
            BY DEF Op
        <3>2. f[1] # "chunk"
            BY <2>1, FilesAre
        <3>. QED
            BY <3>1, <3>2, <2>3 DEF ChunkSaves
    <2>8. \A f1 : Then(Front, On("delete", f1), On("write", f1))
        <3>1. \A f1 : ~Has(Front, On("delete", f1))
            BY <2>6 DEF Has, Named, On
        <3>. QED
            BY <3>1, HasNone
    <2>. QED
        BY <2>3, <2>4, <2>5, <2>6, <2>7, <2>8, <1>7
<1>. QED
    BY <1>4, <1>5, <1>6, <1>7, FrontCases

\* What a step of a script changes, and what it leaves to do.
LEMMA WorkChanges ==
    ASSUME Types, Script, Work
    PROVE  LET h == Head(todo)
           IN  /\ todo # <<>>
               /\ h.op = "leave" => todo' = <<>>
               /\ h.op # "leave" => todo' = Front \o Tail(todo) /\ screen' = screen
               /\ h.op \notin {"create", "write", "delete"} => disk' = disk
               /\ h.op \notin Reads \cup {"replaceOldWater", "leave"} => mem' = mem
               /\ h.op # "saveGame" => gameData' = gameData
               /\ h.op # "list" => worldExists' = worldExists
               /\ h.op \notin {"list", "setVersion4", "setVersion5"} => worldVersion' = worldVersion
               /\ h.op \notin {"loaded", "made", "saved"} => saved' = saved
               /\ h.op \notin {"made", "saved"} => begun' = begun
               /\ world' = world /\ useCurrentVersion' = useCurrentVersion
               /\ now' = now /\ crashes' = crashes /\ grows' = grows
<1>. DEFINE h == Head(todo)
            f == h.file
            missing == Entry(f).form = "missing"
            C == CASE f[1] = "worldData" -> <<Do("saveGame")>>
                   [] f[1] = "chestData" -> saveChestData
                   [] f[1] = "entityData" -> saveEntityData(FALSE)
                   [] OTHER -> <<>>
            F == IF Entry(f).room # Content(mem, f).room
                 THEN <<Op("delete", f), Op("create", f), Op("write", f)>>
                 ELSE <<Op("write", f)>>
<1>1. todo # <<>> /\ h.op \in OpNames /\ Tail(todo) \in Seq(GameOps)
    BY HeadIs, WorkDoes
<1>2. <<>> \o Tail(todo) = Tail(todo)
    <2>. DEFINE t == Tail(todo)
    <2>. HIDE DEF t
    <2>1. t \in Seq(GameOps) => <<>> \o t = t
        OBVIOUS
    <2>. QED
        BY <1>1, <2>1 DEF t
<1>3. /\ h.op = "fit" => Front = F
      /\ h.op = "load" /\ missing => Front = C
      /\ h.op \in {"loadV4", "loadRaw"} /\ missing /\ f[1] = "chestData" => Front = saveChestData
      /\ h.op # "fit" /\ ~(h.op = "load" /\ missing)
         /\ ~(h.op \in {"loadV4", "loadRaw"} /\ missing /\ f[1] = "chestData") => Front = <<>>
    <2>1. Front = CASE h.op = "fit" -> F
                   [] h.op = "load" /\ missing -> C
                   [] h.op \in {"loadV4", "loadRaw"} /\ missing /\ f[1] = "chestData" -> saveChestData
                   [] OTHER -> <<>>
        BY DEF Front
    <2>2. /\ ~(h.op = "fit" /\ h.op = "load")
          /\ ~(h.op = "fit" /\ h.op \in {"loadV4", "loadRaw"})
          /\ ~(h.op = "load" /\ h.op \in {"loadV4", "loadRaw"})
        OBVIOUS
    <2>. HIDE DEF h, f, missing, C, F
    <2>3. h.op = "fit" => Front = F
        BY Zenon, <2>1, <2>2
    <2>4. h.op = "load" /\ missing => Front = C
        BY Zenon, <2>1, <2>2
    <2>5. h.op \in {"loadV4", "loadRaw"} /\ missing /\ f[1] = "chestData" => Front = saveChestData
        BY Zenon, <2>1, <2>2
    <2>6. h.op # "fit" /\ ~(h.op = "load" /\ missing)
          /\ ~(h.op \in {"loadV4", "loadRaw"} /\ missing /\ f[1] = "chestData") => Front = <<>>
        BY Zenon, <2>1, <2>2
    <2>. QED
        BY <2>3, <2>4, <2>5, <2>6
<1>. DEFINE Q == /\ todo # <<>>
                 /\ h.op = "leave" => todo' = <<>>
                 /\ h.op # "leave" => todo' = Front \o Tail(todo) /\ screen' = screen
                 /\ h.op \notin {"create", "write", "delete"} => disk' = disk
                 /\ h.op \notin Reads \cup {"replaceOldWater", "leave"} => mem' = mem
                 /\ h.op # "saveGame" => gameData' = gameData
                 /\ h.op # "list" => worldExists' = worldExists
                 /\ h.op \notin {"list", "setVersion4", "setVersion5"} => worldVersion' = worldVersion
                 /\ h.op \notin {"loaded", "made", "saved"} => saved' = saved
                 /\ h.op \notin {"made", "saved"} => begun' = begun
                 /\ world' = world /\ useCurrentVersion' = useCurrentVersion
                 /\ now' = now /\ crashes' = crashes /\ grows' = grows
<1>4. h.op \notin {"fit", "load", "loadV4", "loadRaw"} => Front = <<>>
    BY <1>3
<1>5. CASE h.op \in {"create", "write", "delete"}
    <2>1. Create(f) \/ Write(f) \/ Delete(f)
        BY <1>5, WorkDoes
    <2>2. todo' = Tail(todo) /\ UNCHANGED mem /\ GameKept
        BY <2>1 DEF Create, Write, Delete, Rest
    <2>. HIDE DEF h
    <2>. QED
        BY <1>1, <1>2, <1>4, <1>5, <2>2 DEF GameKept, h
<1>6. CASE h.op = "fit"
    <2>1. Fit(f)
        BY <1>6, WorkDoes
    <2>2. todo' = F \o Tail(todo) /\ UNCHANGED <<disk, mem>> /\ GameKept
        BY <2>1 DEF Fit, Rest
    <2>3. Front = F
        BY <1>3, <1>6
    <2>. HIDE DEF h, F
    <2>. QED
        BY <1>1, <1>6, <2>2, <2>3 DEF GameKept, h
<1>7. CASE h.op = "load"
    <2>1. Load(f)
        BY <1>7, WorkDoes
    <2>2. todo' = (IF ~missing THEN <<>> ELSE C) \o Tail(todo) /\ UNCHANGED disk /\ GameKept
        BY <2>1 DEF Load, Rest
    <2>3. Front = IF ~missing THEN <<>> ELSE C
        <3>. HIDE DEF h, C, missing, F
        <3>. QED
            BY <1>3, <1>7
    <2>4. h.op \in Reads
        BY <1>7 DEF Reads
    <2>. HIDE DEF h, C, missing, F
    <2>. QED
        BY <1>1, <1>7, <2>2, <2>3, <2>4 DEF GameKept, h
<1>8. CASE h.op \in {"loadV4", "loadRaw"}
    <2>1. LoadOld(f)
        BY <1>8, WorkDoes
    <2>2. /\ todo' = (IF missing /\ f[1] = "chestData" THEN saveChestData ELSE <<>>) \o Tail(todo)
          /\ UNCHANGED disk /\ GameKept
        BY <2>1 DEF LoadOld, Rest
    <2>3. Front = IF missing /\ f[1] = "chestData" THEN saveChestData ELSE <<>>
        <3>. HIDE DEF h, C, missing, F, f
        <3>. QED
            BY <1>3, <1>8
    <2>4. h.op \in Reads
        BY <1>8 DEF Reads
    <2>. HIDE DEF h, C, missing, F, f
    <2>. QED
        BY <1>1, <1>8, <2>2, <2>3, <2>4 DEF GameKept, h
<1>9. CASE h.op = "saveGame"
    <2>1. SaveGame
        BY <1>9, WorkDoes
    <2>. HIDE DEF h
    <2>. QED
        BY <1>1, <1>2, <1>4, <1>9, <2>1 DEF SaveGame, Rest, h
<1>10. CASE h.op \in {"setVersion4", "setVersion5"}
    <2>1. SetVersion(4) \/ SetVersion(currentVersion)
        BY <1>10, WorkDoes
    <2>. HIDE DEF h
    <2>. QED
        BY <1>1, <1>2, <1>4, <1>10, <2>1 DEF SetVersion, Rest, h
<1>11. CASE h.op = "replaceOldWater"
    <2>1. replaceOldWater
        BY <1>11, WorkDoes
    <2>. HIDE DEF h
    <2>. QED
        BY <1>1, <1>2, <1>4, <1>11, <2>1 DEF replaceOldWater, GameKept, Rest, h
<1>12. CASE h.op = "list"
    <2>1. List
        BY <1>12, WorkDoes
    <2>. HIDE DEF h
    <2>. QED
        BY <1>1, <1>2, <1>4, <1>12, <2>1 DEF List, Rest, h
<1>13. CASE h.op = "loaded"
    <2>1. Loaded
        BY <1>13, WorkDoes
    <2>. HIDE DEF h
    <2>. QED
        BY <1>1, <1>2, <1>4, <1>13, <2>1 DEF Loaded, Rest, h
<1>14. CASE h.op \in {"made", "saved"}
    <2>1. Promise("creation") \/ Promise("save")
        BY <1>14, WorkDoes
    <2>. HIDE DEF h
    <2>. QED
        BY <1>1, <1>2, <1>4, <1>14, <2>1 DEF Promise, Rest, h
<1>15. CASE h.op = "leave"
    <2>1. Leave
        BY <1>15, WorkDoes
    <2>. HIDE DEF h
    <2>. QED
        BY <1>1, <1>15, <2>1 DEF Leave, h
<1>16. Q
    BY <1>1, <1>5, <1>6, <1>7, <1>8, <1>9, <1>10, <1>11, <1>12, <1>13, <1>14, <1>15 DEF OpNames
<1>. QED
    BY <1>16

----------------------------------------------------------------------------
(* The parts of the game, the files and what the operations do to them.    *)

LEMMA StampsAre ==
    /\ Blank \in Stamps /\ Garbled \in Stamps
    /\ Blank.of = 0 /\ Garbled.of = 0
    /\ \A w \in Worlds, n \in 0..MaxStamp : Made(w, n) \in Stamps /\ Made(w, n).of = w
    /\ \A s \in Stamps : s.of \in Worlds \cup {0} /\ s.at \in Nat /\ s.wet \in BOOLEAN
    /\ \A s \in Stamps : [s EXCEPT !.wet = FALSE] \in Stamps
                         /\ [s EXCEPT !.wet = FALSE].of = s.of
<1>1. MaxStamp \in Nat \ {0} /\ 0 \in 0..MaxStamp /\ 1 \in 0..MaxStamp
    BY WorldFilesAssumption
<1>2. Blank \in Stamps /\ Garbled \in Stamps /\ Blank.of = 0 /\ Garbled.of = 0
    BY <1>1 DEF Blank, Garbled, Stamps
<1>3. \A w \in Worlds, n \in 0..MaxStamp : Made(w, n) \in Stamps /\ Made(w, n).of = w
    BY DEF Made, Stamps
<1>4. \A s \in Stamps : s.of \in Worlds \cup {0} /\ s.at \in Nat /\ s.wet \in BOOLEAN
    BY <1>1 DEF Stamps
<1>5. \A s \in Stamps : [s EXCEPT !.wet = FALSE] \in Stamps
                        /\ [s EXCEPT !.wet = FALSE].of = s.of
    BY DEF Stamps
<1>. QED
    BY <1>2, <1>3, <1>4, <1>5

\* What is in a record of parts.
LEMMA PartsIs ==
    ASSUME NEW m
    PROVE  m \in Parts <=>
           /\ m = [info |-> m.info, player |-> m.player, playerHp |-> m.playerHp,
                   chest |-> m.chest, chestHp |-> m.chestHp, entities |-> m.entities,
                   blocks |-> m.blocks, blockData |-> m.blockData]
           /\ m.info \in Stamps /\ m.player \in Stamps /\ m.playerHp \in Stamps
           /\ m.chest \in Stamps /\ m.chestHp \in Stamps /\ m.entities \in Stamps
           /\ m.blocks \in [Chunks -> Stamps] /\ m.blockData \in [Chunks -> Stamps]
    BY DEF Parts

LEMMA MainPartIs ==
    ASSUME NEW m
    PROVE  /\ MainPart(m, WorldData) = m.info
           /\ MainPart(m, <<"playerData", 0>>) = m.player
           /\ MainPart(m, <<"chestData", 0>>) = m.chest
           /\ MainPart(m, EntityData) = m.entities
           /\ \A c \in Chunks : MainPart(m, <<"chunk", c>>) = m.blocks[c]
           /\ \A c \in Chunks : MainPart(m, <<"chunkED", c>>) = m.blockData[c]
    BY DEF MainPart, WorldData, EntityData

LEMMA ExtraPartIs ==
    ASSUME NEW m
    PROVE  /\ ExtraPart(m, WorldData) = Blank
           /\ ExtraPart(m, <<"playerData", 0>>) = m.playerHp
           /\ ExtraPart(m, <<"chestData", 0>>) = m.chestHp
           /\ ExtraPart(m, EntityData) = Blank
           /\ \A c \in Chunks : ExtraPart(m, <<"chunk", c>>) = m.blockData[c]
           /\ \A c \in Chunks : ExtraPart(m, <<"chunkED", c>>) = Blank
    BY DEF ExtraPart, WorldData, EntityData

LEMMA PartIn ==
    ASSUME NEW m \in Parts, NEW f \in Files
    PROVE  MainPart(m, f) \in Stamps /\ ExtraPart(m, f) \in Stamps
<1>1. /\ m.info \in Stamps /\ m.player \in Stamps /\ m.playerHp \in Stamps
      /\ m.chest \in Stamps /\ m.chestHp \in Stamps /\ m.entities \in Stamps
      /\ \A c \in Chunks : m.blocks[c] \in Stamps /\ m.blockData[c] \in Stamps
    BY PartsIs
<1>2. CASE f \in {WorldData, EntityData, <<"playerData", 0>>, <<"chestData", 0>>}
    BY <1>1, <1>2, MainPartIs, ExtraPartIs, StampsAre
<1>3. CASE \E c \in Chunks : f = <<"chunk", c>> \/ f = <<"chunkED", c>>
    <2>1. PICK c \in Chunks : f = <<"chunk", c>> \/ f = <<"chunkED", c>>
        BY <1>3
    <2>2. MainPart(m, f) \in {m.blocks[c], m.blockData[c]}
          /\ ExtraPart(m, f) \in {m.blockData[c], Blank}
        BY <2>1, MainPartIs, ExtraPartIs
    <2>. QED
        BY <2>2, <1>1, StampsAre
<1>. QED
    BY <1>2, <1>3, FilesAre

LEMMA SizeIs ==
    ASSUME NEW f \in Files, NEW x \in Stamps, NEW y \in Stamps
    PROVE  /\ Size(f, "new", x, y) \in 1..2
           /\ f \in {WorldData, EntityData} => Size(f, "new", x, y) = 1
           /\ Size(f, "old", x, y) \in 0..Raw
           /\ f \in {WorldData, EntityData} => Size(f, "old", x, y) = 1
<1>1. x.at \in Nat
    BY StampsAre
<1>2. /\ Size(f, "new", x, y) \in 1..2
      /\ f \in {WorldData, EntityData} => Size(f, "new", x, y) = 1
    <2>. DEFINE n == x.at + (IF y.wet THEN 1 ELSE 0)
    <2>1. n \in Nat
        BY <1>1
    <2>. HIDE DEF n
    <2>2. 1 + (n % 2) \in 1..2
        BY <2>1
    <2>3. Size(f, "new", x, y) = CASE f[1] = "chunk" -> 1 + (n % 2)
                                   [] f[1] \in {"playerData", "chestData"} -> 2
                                   [] OTHER -> 1
        BY DEF Size, n
    <2>4. f \in {WorldData, EntityData} => f[1] \in {"worldData", "entityData"}
        BY DEF WorldData, EntityData
    <2>. QED
        BY <2>2, <2>3, <2>4
<1>3. Size(f, "old", x, y) \in {Raw, 1} /\ (f \in {WorldData, EntityData} => Size(f, "old", x, y) = 1)
    BY DEF Size, WorldData, EntityData
<1>. QED
    BY <1>2, <1>3 DEF Raw

LEMMA ContentIs ==
    ASSUME NEW m \in Parts, NEW f \in Files
    PROVE  LET c == Content(m, f)
           IN  /\ c = [form |-> "new", main |-> MainPart(m, f), extra |-> ExtraPart(m, f),
                       room |-> c.room, cut |-> FALSE]
               /\ c.room \in 1..2
               /\ f \in {WorldData, EntityData} => c.room = 1
               /\ c.room = Size(f, "new", MainPart(m, f), ExtraPart(m, f))
<1>1. MainPart(m, f) \in Stamps /\ ExtraPart(m, f) \in Stamps
    BY PartIn
<1>. DEFINE x == MainPart(m, f)
            y == ExtraPart(m, f)
<1>2. Content(m, f) = [form |-> "new", main |-> x, extra |-> y,
                       room |-> Size(f, "new", x, y), cut |-> FALSE]
    BY DEF Content, File
<1>. HIDE DEF x, y
<1>3. Content(m, f).room = Size(f, "new", x, y)
    BY <1>2
<1>. QED
    BY <1>1, <1>2, <1>3, SizeIs DEF x, y

\* What storing a part changes.
LEMMA SetMainIs ==
    ASSUME NEW m \in Parts, NEW s, NEW c
    PROVE  /\ SetMain(m, WorldData, s) =
             [info |-> s, player |-> m.player, playerHp |-> m.playerHp,
              chest |-> m.chest, chestHp |-> m.chestHp, entities |-> m.entities,
              blocks |-> m.blocks, blockData |-> m.blockData]
           /\ SetMain(m, <<"playerData", 0>>, s) =
             [info |-> m.info, player |-> s, playerHp |-> m.playerHp,
              chest |-> m.chest, chestHp |-> m.chestHp, entities |-> m.entities,
              blocks |-> m.blocks, blockData |-> m.blockData]
           /\ SetMain(m, <<"chestData", 0>>, s) =
             [info |-> m.info, player |-> m.player, playerHp |-> m.playerHp,
              chest |-> s, chestHp |-> m.chestHp, entities |-> m.entities,
              blocks |-> m.blocks, blockData |-> m.blockData]
           /\ SetMain(m, EntityData, s) =
             [info |-> m.info, player |-> m.player, playerHp |-> m.playerHp,
              chest |-> m.chest, chestHp |-> m.chestHp, entities |-> s,
              blocks |-> m.blocks, blockData |-> m.blockData]
           /\ SetMain(m, <<"chunk", c>>, s) =
             [info |-> m.info, player |-> m.player, playerHp |-> m.playerHp,
              chest |-> m.chest, chestHp |-> m.chestHp, entities |-> m.entities,
              blocks |-> [m.blocks EXCEPT ![c] = s], blockData |-> m.blockData]
           /\ SetMain(m, <<"chunkED", c>>, s) =
             [info |-> m.info, player |-> m.player, playerHp |-> m.playerHp,
              chest |-> m.chest, chestHp |-> m.chestHp, entities |-> m.entities,
              blocks |-> m.blocks, blockData |-> [m.blockData EXCEPT ![c] = s]]
<1>1. /\ m = [info |-> m.info, player |-> m.player, playerHp |-> m.playerHp,
              chest |-> m.chest, chestHp |-> m.chestHp, entities |-> m.entities,
              blocks |-> m.blocks, blockData |-> m.blockData]
    BY PartsIs
<1>2. SetMain(m, WorldData, s) =
      [info |-> s, player |-> m.player, playerHp |-> m.playerHp,
       chest |-> m.chest, chestHp |-> m.chestHp, entities |-> m.entities,
       blocks |-> m.blocks, blockData |-> m.blockData]
    <2>1. SetMain(m, WorldData, s) = [m EXCEPT !.info = s]
        BY DEF SetMain, WorldData, EntityData
    <2>. QED
        BY <2>1, <1>1
<1>3. SetMain(m, <<"playerData", 0>>, s) =
      [info |-> m.info, player |-> s, playerHp |-> m.playerHp,
       chest |-> m.chest, chestHp |-> m.chestHp, entities |-> m.entities,
       blocks |-> m.blocks, blockData |-> m.blockData]
    <2>1. SetMain(m, <<"playerData", 0>>, s) = [m EXCEPT !.player = s]
        BY DEF SetMain, WorldData, EntityData
    <2>. QED
        BY <2>1, <1>1
<1>4. SetMain(m, <<"chestData", 0>>, s) =
      [info |-> m.info, player |-> m.player, playerHp |-> m.playerHp,
       chest |-> s, chestHp |-> m.chestHp, entities |-> m.entities,
       blocks |-> m.blocks, blockData |-> m.blockData]
    <2>1. SetMain(m, <<"chestData", 0>>, s) = [m EXCEPT !.chest = s]
        BY DEF SetMain, WorldData, EntityData
    <2>. QED
        BY <2>1, <1>1
<1>5. SetMain(m, EntityData, s) =
      [info |-> m.info, player |-> m.player, playerHp |-> m.playerHp,
       chest |-> m.chest, chestHp |-> m.chestHp, entities |-> s,
       blocks |-> m.blocks, blockData |-> m.blockData]
    <2>1. SetMain(m, EntityData, s) = [m EXCEPT !.entities = s]
        BY DEF SetMain, WorldData, EntityData
    <2>. QED
        BY <2>1, <1>1
<1>6. SetMain(m, <<"chunk", c>>, s) =
      [info |-> m.info, player |-> m.player, playerHp |-> m.playerHp,
       chest |-> m.chest, chestHp |-> m.chestHp, entities |-> m.entities,
       blocks |-> [m.blocks EXCEPT ![c] = s], blockData |-> m.blockData]
    <2>1. SetMain(m, <<"chunk", c>>, s) = [m EXCEPT !.blocks[c] = s]
        BY DEF SetMain, WorldData, EntityData
    <2>. QED
        BY <2>1, <1>1
<1>7. SetMain(m, <<"chunkED", c>>, s) =
      [info |-> m.info, player |-> m.player, playerHp |-> m.playerHp,
       chest |-> m.chest, chestHp |-> m.chestHp, entities |-> m.entities,
       blocks |-> m.blocks, blockData |-> [m.blockData EXCEPT ![c] = s]]
    <2>1. SetMain(m, <<"chunkED", c>>, s) = [m EXCEPT !.blockData[c] = s]
        BY DEF SetMain, WorldData, EntityData
    <2>. QED
        BY <2>1, <1>1
<1>. QED
    BY <1>2, <1>3, <1>4, <1>5, <1>6, <1>7

LEMMA SetExtraIs ==
    ASSUME NEW m \in Parts, NEW s, NEW c
    PROVE  /\ SetExtra(m, WorldData, s) =
             [info |-> m.info, player |-> m.player, playerHp |-> m.playerHp,
              chest |-> m.chest, chestHp |-> m.chestHp, entities |-> m.entities,
              blocks |-> m.blocks, blockData |-> m.blockData]
           /\ SetExtra(m, <<"playerData", 0>>, s) =
             [info |-> m.info, player |-> m.player, playerHp |-> s,
              chest |-> m.chest, chestHp |-> m.chestHp, entities |-> m.entities,
              blocks |-> m.blocks, blockData |-> m.blockData]
           /\ SetExtra(m, <<"chestData", 0>>, s) =
             [info |-> m.info, player |-> m.player, playerHp |-> m.playerHp,
              chest |-> m.chest, chestHp |-> s, entities |-> m.entities,
              blocks |-> m.blocks, blockData |-> m.blockData]
           /\ SetExtra(m, EntityData, s) =
             [info |-> m.info, player |-> m.player, playerHp |-> m.playerHp,
              chest |-> m.chest, chestHp |-> m.chestHp, entities |-> m.entities,
              blocks |-> m.blocks, blockData |-> m.blockData]
           /\ SetExtra(m, <<"chunk", c>>, s) =
             [info |-> m.info, player |-> m.player, playerHp |-> m.playerHp,
              chest |-> m.chest, chestHp |-> m.chestHp, entities |-> m.entities,
              blocks |-> m.blocks, blockData |-> [m.blockData EXCEPT ![c] = s]]
           /\ SetExtra(m, <<"chunkED", c>>, s) =
             [info |-> m.info, player |-> m.player, playerHp |-> m.playerHp,
              chest |-> m.chest, chestHp |-> m.chestHp, entities |-> m.entities,
              blocks |-> m.blocks, blockData |-> m.blockData]
<1>1. /\ m = [info |-> m.info, player |-> m.player, playerHp |-> m.playerHp,
              chest |-> m.chest, chestHp |-> m.chestHp, entities |-> m.entities,
              blocks |-> m.blocks, blockData |-> m.blockData]
    BY PartsIs
<1>2. SetExtra(m, WorldData, s) =
      [info |-> m.info, player |-> m.player, playerHp |-> m.playerHp,
       chest |-> m.chest, chestHp |-> m.chestHp, entities |-> m.entities,
       blocks |-> m.blocks, blockData |-> m.blockData]
    <2>1. SetExtra(m, WorldData, s) = m
        BY DEF SetExtra, WorldData, EntityData
    <2>. QED
        BY <2>1, <1>1
<1>3. SetExtra(m, <<"playerData", 0>>, s) =
      [info |-> m.info, player |-> m.player, playerHp |-> s,
       chest |-> m.chest, chestHp |-> m.chestHp, entities |-> m.entities,
       blocks |-> m.blocks, blockData |-> m.blockData]
    <2>1. SetExtra(m, <<"playerData", 0>>, s) = [m EXCEPT !.playerHp = s]
        BY DEF SetExtra, WorldData, EntityData
    <2>. QED
        BY <2>1, <1>1
<1>4. SetExtra(m, <<"chestData", 0>>, s) =
      [info |-> m.info, player |-> m.player, playerHp |-> m.playerHp,
       chest |-> m.chest, chestHp |-> s, entities |-> m.entities,
       blocks |-> m.blocks, blockData |-> m.blockData]
    <2>1. SetExtra(m, <<"chestData", 0>>, s) = [m EXCEPT !.chestHp = s]
        BY DEF SetExtra, WorldData, EntityData
    <2>. QED
        BY <2>1, <1>1
<1>5. SetExtra(m, EntityData, s) =
      [info |-> m.info, player |-> m.player, playerHp |-> m.playerHp,
       chest |-> m.chest, chestHp |-> m.chestHp, entities |-> m.entities,
       blocks |-> m.blocks, blockData |-> m.blockData]
    <2>1. SetExtra(m, EntityData, s) = m
        BY DEF SetExtra, WorldData, EntityData
    <2>. QED
        BY <2>1, <1>1
<1>6. SetExtra(m, <<"chunk", c>>, s) =
      [info |-> m.info, player |-> m.player, playerHp |-> m.playerHp,
       chest |-> m.chest, chestHp |-> m.chestHp, entities |-> m.entities,
       blocks |-> m.blocks, blockData |-> [m.blockData EXCEPT ![c] = s]]
    <2>1. SetExtra(m, <<"chunk", c>>, s) = [m EXCEPT !.blockData[c] = s]
        BY DEF SetExtra, WorldData, EntityData
    <2>. QED
        BY <2>1, <1>1
<1>7. SetExtra(m, <<"chunkED", c>>, s) =
      [info |-> m.info, player |-> m.player, playerHp |-> m.playerHp,
       chest |-> m.chest, chestHp |-> m.chestHp, entities |-> m.entities,
       blocks |-> m.blocks, blockData |-> m.blockData]
    <2>1. SetExtra(m, <<"chunkED", c>>, s) = m
        BY DEF SetExtra, WorldData, EntityData
    <2>. QED
        BY <2>1, <1>1
<1>. QED
    BY <1>2, <1>3, <1>4, <1>5, <1>6, <1>7

\* The files, by kind.
LEMMA FileKinds ==
    ASSUME NEW f \in Files
    PROVE  \/ f = WorldData
           \/ f = <<"playerData", 0>>
           \/ f = <<"chestData", 0>>
           \/ f = EntityData
           \/ \E c \in Chunks : f = <<"chunk", c>>
           \/ \E c \in Chunks : f = <<"chunkED", c>>
    BY FilesAre

LEMMA KindsDiffer ==
    /\ WorldData # <<"playerData", 0>> /\ WorldData # <<"chestData", 0>> /\ WorldData # EntityData
    /\ <<"playerData", 0>> # <<"chestData", 0>> /\ <<"playerData", 0>> # EntityData
    /\ <<"chestData", 0>> # EntityData
    /\ \A c : /\ <<"chunk", c>> \notin {WorldData, EntityData, <<"playerData", 0>>, <<"chestData", 0>>}
              /\ <<"chunkED", c>> \notin {WorldData, EntityData, <<"playerData", 0>>, <<"chestData", 0>>}
    /\ \A c, d : /\ <<"chunk", c>> # <<"chunkED", d>>
                 /\ <<"chunk", c>> = <<"chunk", d>> <=> c = d
                 /\ <<"chunkED", c>> = <<"chunkED", d>> <=> c = d
    BY DEF WorldData, EntityData

LEMMA RecordIs ==
    ASSUME NEW r, NEW a1 \in Stamps, NEW a2 \in Stamps, NEW a3 \in Stamps, NEW a4 \in Stamps,
           NEW a5 \in Stamps, NEW a6 \in Stamps,
           NEW b1 \in [Chunks -> Stamps], NEW b2 \in [Chunks -> Stamps],
           r = [info |-> a1, player |-> a2, playerHp |-> a3, chest |-> a4, chestHp |-> a5,
                entities |-> a6, blocks |-> b1, blockData |-> b2]
    PROVE  /\ r \in Parts /\ r.info = a1 /\ r.player = a2 /\ r.playerHp = a3 /\ r.chest = a4
           /\ r.chestHp = a5 /\ r.entities = a6 /\ r.blocks = b1 /\ r.blockData = b2
    BY DEF Parts

\* A part becomes s here and stays what it was elsewhere.
Changed(new, old, s, here) == (here => new = s) /\ (~here => new = old)

LEMMA MainPartsAre ==
    ASSUME NEW m, NEW r, NEW s, NEW f \in Files,
           Changed(r.info, m.info, s, f = WorldData),
           Changed(r.player, m.player, s, f = <<"playerData", 0>>),
           Changed(r.chest, m.chest, s, f = <<"chestData", 0>>),
           Changed(r.entities, m.entities, s, f = EntityData),
           \A c \in Chunks : Changed(r.blocks[c], m.blocks[c], s, f = <<"chunk", c>>),
           \A c \in Chunks : Changed(r.blockData[c], m.blockData[c], s, f = <<"chunkED", c>>)
    PROVE  \A g \in Files : Changed(MainPart(r, g), MainPart(m, g), s, g = f)
<1>. TAKE g \in Files
<1>1. CASE g = WorldData
    BY <1>1, MainPartIs DEF Changed
<1>2. CASE g = <<"playerData", 0>>
    BY <1>2, MainPartIs DEF Changed
<1>3. CASE g = <<"chestData", 0>>
    BY <1>3, MainPartIs DEF Changed
<1>4. CASE g = EntityData
    BY <1>4, MainPartIs DEF Changed
<1>5. CASE \E c \in Chunks : g = <<"chunk", c>>
    BY <1>5, MainPartIs DEF Changed
<1>6. CASE \E c \in Chunks : g = <<"chunkED", c>>
    BY <1>6, MainPartIs DEF Changed
<1>. QED
    BY <1>1, <1>2, <1>3, <1>4, <1>5, <1>6, FileKinds

\* The files with a second part.
WithExtra == {<<"playerData", 0>>, <<"chestData", 0>>} \cup ChunkFiles

LEMMA ExtraPartsAre ==
    ASSUME NEW m, NEW r, NEW s, NEW f \in Files,
           Changed(r.playerHp, m.playerHp, s, f = <<"playerData", 0>>),
           Changed(r.chestHp, m.chestHp, s, f = <<"chestData", 0>>),
           \A c \in Chunks : Changed(r.blockData[c], m.blockData[c], s, f = <<"chunk", c>>)
    PROVE  \A g \in Files :
              Changed(ExtraPart(r, g), ExtraPart(m, g), s, g = f /\ g \in WithExtra)
<1>. TAKE g \in Files
<1>1. CASE g = WorldData
    BY <1>1, ExtraPartIs, KindsDiffer DEF Changed, WithExtra, ChunkFiles, WorldData
<1>2. CASE g = <<"playerData", 0>>
    BY <1>2, ExtraPartIs DEF Changed, WithExtra
<1>3. CASE g = <<"chestData", 0>>
    BY <1>3, ExtraPartIs DEF Changed, WithExtra
<1>4. CASE g = EntityData
    BY <1>4, ExtraPartIs, KindsDiffer DEF Changed, WithExtra, ChunkFiles, EntityData
<1>5. CASE \E c \in Chunks : g = <<"chunk", c>>
    BY <1>5, ExtraPartIs DEF Changed, WithExtra, ChunkFiles
<1>6. CASE \E c \in Chunks : g = <<"chunkED", c>>
    BY <1>6, ExtraPartIs, KindsDiffer DEF Changed, WithExtra, ChunkFiles
<1>. QED
    BY <1>1, <1>2, <1>3, <1>4, <1>5, <1>6, FileKinds

\* A function of the chunks, changed at one.
LEMMA ChunkButIs ==
    ASSUME NEW b \in [Chunks -> Stamps], NEW c \in Chunks, NEW s \in Stamps
    PROVE  /\ [b EXCEPT ![c] = s] \in [Chunks -> Stamps]
           /\ \A d \in Chunks : [b EXCEPT ![c] = s][d] = IF d = c THEN s ELSE b[d]
    OBVIOUS

LEMMA StoredMain ==
    ASSUME NEW m \in Parts, NEW f \in Files, NEW s \in Stamps
    PROVE  LET r == SetMain(m, f, s)
           IN  /\ r \in Parts
               /\ \A g \in Files : Changed(MainPart(r, g), MainPart(m, g), s, g = f)
               /\ \A g \in Files : \/ ExtraPart(r, g) = ExtraPart(m, g)
                                   \/ \E c \in Chunks : f = <<"chunkED", c>> /\ g = <<"chunk", c>>
<1>. DEFINE r == SetMain(m, f, s)
            Q == /\ r \in Parts
                 /\ \A g \in Files : Changed(MainPart(r, g), MainPart(m, g), s, g = f)
                 /\ \A g \in Files : \/ ExtraPart(r, g) = ExtraPart(m, g)
                                     \/ \E c \in Chunks : f = <<"chunkED", c>> /\ g = <<"chunk", c>>
<1>1. /\ m.info \in Stamps /\ m.player \in Stamps /\ m.playerHp \in Stamps
      /\ m.chest \in Stamps /\ m.chestHp \in Stamps /\ m.entities \in Stamps
      /\ m.blocks \in [Chunks -> Stamps] /\ m.blockData \in [Chunks -> Stamps]
    BY PartsIs
<1>2. ASSUME f = WorldData
      PROVE  Q
    <2>1. r = [info |-> s, player |-> m.player, playerHp |-> m.playerHp, chest |-> m.chest,
               chestHp |-> m.chestHp, entities |-> m.entities, blocks |-> m.blocks,
               blockData |-> m.blockData]
        BY Zenon, <1>2, SetMainIs
    <2>. HIDE DEF r
    <2>3. /\ r \in Parts
          /\ r.info = s /\ r.player = m.player /\ r.playerHp = m.playerHp /\ r.chest = m.chest
          /\ r.chestHp = m.chestHp /\ r.entities = m.entities /\ r.blocks = m.blocks
          /\ r.blockData = m.blockData
        BY <2>1, <1>1, RecordIs
    <2>4. /\ Changed(r.info, m.info, s, f = WorldData)
          /\ Changed(r.player, m.player, s, f = <<"playerData", 0>>)
          /\ Changed(r.chest, m.chest, s, f = <<"chestData", 0>>)
          /\ Changed(r.entities, m.entities, s, f = EntityData)
          /\ \A d \in Chunks : Changed(r.blocks[d], m.blocks[d], s, f = <<"chunk", d>>)
          /\ \A d \in Chunks : Changed(r.blockData[d], m.blockData[d], s, f = <<"chunkED", d>>)
        BY <2>3, <1>2, KindsDiffer DEF Changed
    <2>5. \A g \in Files : Changed(MainPart(r, g), MainPart(m, g), s, g = f)
        BY <2>4, MainPartsAre
    <2>6. \A g \in Files : ExtraPart(r, g) = ExtraPart(m, g)
        BY <2>3 DEF ExtraPart
    <2>. QED
        BY <2>3, <2>5, <2>6
<1>3. ASSUME f = <<"playerData", 0>>
      PROVE  Q
    <2>1. r = [info |-> m.info, player |-> s, playerHp |-> m.playerHp, chest |-> m.chest,
               chestHp |-> m.chestHp, entities |-> m.entities, blocks |-> m.blocks,
               blockData |-> m.blockData]
        BY Zenon, <1>3, SetMainIs
    <2>. HIDE DEF r
    <2>3. /\ r \in Parts
          /\ r.info = m.info /\ r.player = s /\ r.playerHp = m.playerHp /\ r.chest = m.chest
          /\ r.chestHp = m.chestHp /\ r.entities = m.entities /\ r.blocks = m.blocks
          /\ r.blockData = m.blockData
        BY <2>1, <1>1, RecordIs
    <2>4. /\ Changed(r.info, m.info, s, f = WorldData)
          /\ Changed(r.player, m.player, s, f = <<"playerData", 0>>)
          /\ Changed(r.chest, m.chest, s, f = <<"chestData", 0>>)
          /\ Changed(r.entities, m.entities, s, f = EntityData)
          /\ \A d \in Chunks : Changed(r.blocks[d], m.blocks[d], s, f = <<"chunk", d>>)
          /\ \A d \in Chunks : Changed(r.blockData[d], m.blockData[d], s, f = <<"chunkED", d>>)
        BY <2>3, <1>3, KindsDiffer DEF Changed
    <2>5. \A g \in Files : Changed(MainPart(r, g), MainPart(m, g), s, g = f)
        BY <2>4, MainPartsAre
    <2>6. \A g \in Files : ExtraPart(r, g) = ExtraPart(m, g)
        BY <2>3 DEF ExtraPart
    <2>. QED
        BY <2>3, <2>5, <2>6
<1>4. ASSUME f = <<"chestData", 0>>
      PROVE  Q
    <2>1. r = [info |-> m.info, player |-> m.player, playerHp |-> m.playerHp, chest |-> s,
               chestHp |-> m.chestHp, entities |-> m.entities, blocks |-> m.blocks,
               blockData |-> m.blockData]
        BY Zenon, <1>4, SetMainIs
    <2>. HIDE DEF r
    <2>3. /\ r \in Parts
          /\ r.info = m.info /\ r.player = m.player /\ r.playerHp = m.playerHp /\ r.chest = s
          /\ r.chestHp = m.chestHp /\ r.entities = m.entities /\ r.blocks = m.blocks
          /\ r.blockData = m.blockData
        BY <2>1, <1>1, RecordIs
    <2>4. /\ Changed(r.info, m.info, s, f = WorldData)
          /\ Changed(r.player, m.player, s, f = <<"playerData", 0>>)
          /\ Changed(r.chest, m.chest, s, f = <<"chestData", 0>>)
          /\ Changed(r.entities, m.entities, s, f = EntityData)
          /\ \A d \in Chunks : Changed(r.blocks[d], m.blocks[d], s, f = <<"chunk", d>>)
          /\ \A d \in Chunks : Changed(r.blockData[d], m.blockData[d], s, f = <<"chunkED", d>>)
        BY <2>3, <1>4, KindsDiffer DEF Changed
    <2>5. \A g \in Files : Changed(MainPart(r, g), MainPart(m, g), s, g = f)
        BY <2>4, MainPartsAre
    <2>6. \A g \in Files : ExtraPart(r, g) = ExtraPart(m, g)
        BY <2>3 DEF ExtraPart
    <2>. QED
        BY <2>3, <2>5, <2>6
<1>5. ASSUME f = EntityData
      PROVE  Q
    <2>1. r = [info |-> m.info, player |-> m.player, playerHp |-> m.playerHp, chest |-> m.chest,
               chestHp |-> m.chestHp, entities |-> s, blocks |-> m.blocks,
               blockData |-> m.blockData]
        BY Zenon, <1>5, SetMainIs
    <2>. HIDE DEF r
    <2>3. /\ r \in Parts
          /\ r.info = m.info /\ r.player = m.player /\ r.playerHp = m.playerHp /\ r.chest = m.chest
          /\ r.chestHp = m.chestHp /\ r.entities = s /\ r.blocks = m.blocks
          /\ r.blockData = m.blockData
        BY <2>1, <1>1, RecordIs
    <2>4. /\ Changed(r.info, m.info, s, f = WorldData)
          /\ Changed(r.player, m.player, s, f = <<"playerData", 0>>)
          /\ Changed(r.chest, m.chest, s, f = <<"chestData", 0>>)
          /\ Changed(r.entities, m.entities, s, f = EntityData)
          /\ \A d \in Chunks : Changed(r.blocks[d], m.blocks[d], s, f = <<"chunk", d>>)
          /\ \A d \in Chunks : Changed(r.blockData[d], m.blockData[d], s, f = <<"chunkED", d>>)
        BY <2>3, <1>5, KindsDiffer DEF Changed
    <2>5. \A g \in Files : Changed(MainPart(r, g), MainPart(m, g), s, g = f)
        BY <2>4, MainPartsAre
    <2>6. \A g \in Files : ExtraPart(r, g) = ExtraPart(m, g)
        BY <2>3 DEF ExtraPart
    <2>. QED
        BY <2>3, <2>5, <2>6
<1>6. ASSUME NEW c \in Chunks, f = <<"chunk", c>>
      PROVE  Q
    <2>1. r = [info |-> m.info, player |-> m.player, playerHp |-> m.playerHp, chest |-> m.chest,
               chestHp |-> m.chestHp, entities |-> m.entities, blocks |-> [m.blocks EXCEPT ![c] = s],
               blockData |-> m.blockData]
        BY Zenon, <1>6, SetMainIs
    <2>. HIDE DEF r
    <2>2. [m.blocks EXCEPT ![c] = s] \in [Chunks -> Stamps]
          /\ \A d \in Chunks : [m.blocks EXCEPT ![c] = s][d] = IF d = c THEN s ELSE m.blocks[d]
        BY <1>1, ChunkButIs
    <2>3. /\ r \in Parts
          /\ r.info = m.info /\ r.player = m.player /\ r.playerHp = m.playerHp /\ r.chest = m.chest
          /\ r.chestHp = m.chestHp /\ r.entities = m.entities /\ r.blocks = [m.blocks EXCEPT ![c] = s]
          /\ r.blockData = m.blockData
        BY <2>1, <2>2, <1>1, RecordIs
    <2>4. /\ Changed(r.info, m.info, s, f = WorldData)
          /\ Changed(r.player, m.player, s, f = <<"playerData", 0>>)
          /\ Changed(r.chest, m.chest, s, f = <<"chestData", 0>>)
          /\ Changed(r.entities, m.entities, s, f = EntityData)
          /\ \A d \in Chunks : Changed(r.blocks[d], m.blocks[d], s, f = <<"chunk", d>>)
          /\ \A d \in Chunks : Changed(r.blockData[d], m.blockData[d], s, f = <<"chunkED", d>>)
        BY <2>3, <2>2, <1>6, KindsDiffer DEF Changed
    <2>5. \A g \in Files : Changed(MainPart(r, g), MainPart(m, g), s, g = f)
        BY <2>4, MainPartsAre
    <2>6. \A g \in Files : ExtraPart(r, g) = ExtraPart(m, g)
        BY <2>3 DEF ExtraPart
    <2>. QED
        BY <2>3, <2>5, <2>6
<1>7. ASSUME NEW c \in Chunks, f = <<"chunkED", c>>
      PROVE  Q
    <2>1. r = [info |-> m.info, player |-> m.player, playerHp |-> m.playerHp, chest |-> m.chest,
               chestHp |-> m.chestHp, entities |-> m.entities, blocks |-> m.blocks,
               blockData |-> [m.blockData EXCEPT ![c] = s]]
        BY Zenon, <1>7, SetMainIs
    <2>. HIDE DEF r
    <2>2. [m.blockData EXCEPT ![c] = s] \in [Chunks -> Stamps]
          /\ \A d \in Chunks : [m.blockData EXCEPT ![c] = s][d] = IF d = c THEN s ELSE m.blockData[d]
        BY <1>1, ChunkButIs
    <2>3. /\ r \in Parts
          /\ r.info = m.info /\ r.player = m.player /\ r.playerHp = m.playerHp /\ r.chest = m.chest
          /\ r.chestHp = m.chestHp /\ r.entities = m.entities /\ r.blocks = m.blocks
          /\ r.blockData = [m.blockData EXCEPT ![c] = s]
        BY <2>1, <2>2, <1>1, RecordIs
    <2>4. /\ Changed(r.info, m.info, s, f = WorldData)
          /\ Changed(r.player, m.player, s, f = <<"playerData", 0>>)
          /\ Changed(r.chest, m.chest, s, f = <<"chestData", 0>>)
          /\ Changed(r.entities, m.entities, s, f = EntityData)
          /\ \A d \in Chunks : Changed(r.blocks[d], m.blocks[d], s, f = <<"chunk", d>>)
          /\ \A d \in Chunks : Changed(r.blockData[d], m.blockData[d], s, f = <<"chunkED", d>>)
        BY <2>3, <2>2, <1>7, KindsDiffer DEF Changed
    <2>5. \A g \in Files : Changed(MainPart(r, g), MainPart(m, g), s, g = f)
        BY <2>4, MainPartsAre
    <2>6. \A g \in Files : g = <<"chunk", c>> \/ ExtraPart(r, g) = ExtraPart(m, g)
        BY <2>2, <2>3, ExtraPartIs, FileKinds, KindsDiffer
    <2>. QED
        BY <2>3, <2>5, <2>6, <1>7
<1>. HIDE DEF Q
<1>8. Q
    BY FileKinds, <1>2, <1>3, <1>4, <1>5, <1>6, <1>7 DEF Q
<1>. QED
    BY <1>8 DEF Q

LEMMA StoredExtra ==
    ASSUME NEW m \in Parts, NEW f \in Files, NEW s \in Stamps
    PROVE  LET r == SetExtra(m, f, s)
           IN  /\ r \in Parts
               /\ \A g \in Files : Changed(ExtraPart(r, g), ExtraPart(m, g), s, g = f /\ g \in WithExtra)
               /\ \A g \in Files : \/ MainPart(r, g) = MainPart(m, g)
                                   \/ \E c \in Chunks : f = <<"chunk", c>> /\ g = <<"chunkED", c>>
<1>. DEFINE r == SetExtra(m, f, s)
            Q == /\ r \in Parts
                 /\ \A g \in Files : Changed(ExtraPart(r, g), ExtraPart(m, g), s, g = f /\ g \in WithExtra)
                 /\ \A g \in Files : \/ MainPart(r, g) = MainPart(m, g)
                                     \/ \E c \in Chunks : f = <<"chunk", c>> /\ g = <<"chunkED", c>>
<1>1. /\ m.info \in Stamps /\ m.player \in Stamps /\ m.playerHp \in Stamps
      /\ m.chest \in Stamps /\ m.chestHp \in Stamps /\ m.entities \in Stamps
      /\ m.blocks \in [Chunks -> Stamps] /\ m.blockData \in [Chunks -> Stamps]
    BY PartsIs
<1>2. ASSUME f = WorldData
      PROVE  Q
    <2>1. r = [info |-> m.info, player |-> m.player, playerHp |-> m.playerHp, chest |-> m.chest,
               chestHp |-> m.chestHp, entities |-> m.entities, blocks |-> m.blocks,
               blockData |-> m.blockData]
        BY Zenon, <1>2, SetExtraIs
    <2>. HIDE DEF r
    <2>3. /\ r \in Parts
          /\ r.info = m.info /\ r.player = m.player /\ r.playerHp = m.playerHp /\ r.chest = m.chest
          /\ r.chestHp = m.chestHp /\ r.entities = m.entities /\ r.blocks = m.blocks
          /\ r.blockData = m.blockData
        BY <2>1, <1>1, RecordIs
    <2>4. /\ Changed(r.playerHp, m.playerHp, s, f = <<"playerData", 0>>)
          /\ Changed(r.chestHp, m.chestHp, s, f = <<"chestData", 0>>)
          /\ \A d \in Chunks : Changed(r.blockData[d], m.blockData[d], s, f = <<"chunk", d>>)
        BY <2>3, <1>2, KindsDiffer DEF Changed
    <2>5. \A g \in Files : Changed(ExtraPart(r, g), ExtraPart(m, g), s, g = f /\ g \in WithExtra)
        BY <2>4, ExtraPartsAre
    <2>6. \A g \in Files : MainPart(r, g) = MainPart(m, g)
        BY <2>3 DEF MainPart
    <2>. QED
        BY <2>3, <2>5, <2>6
<1>3. ASSUME f = <<"playerData", 0>>
      PROVE  Q
    <2>1. r = [info |-> m.info, player |-> m.player, playerHp |-> s, chest |-> m.chest,
               chestHp |-> m.chestHp, entities |-> m.entities, blocks |-> m.blocks,
               blockData |-> m.blockData]
        BY Zenon, <1>3, SetExtraIs
    <2>. HIDE DEF r
    <2>3. /\ r \in Parts
          /\ r.info = m.info /\ r.player = m.player /\ r.playerHp = s /\ r.chest = m.chest
          /\ r.chestHp = m.chestHp /\ r.entities = m.entities /\ r.blocks = m.blocks
          /\ r.blockData = m.blockData
        BY <2>1, <1>1, RecordIs
    <2>4. /\ Changed(r.playerHp, m.playerHp, s, f = <<"playerData", 0>>)
          /\ Changed(r.chestHp, m.chestHp, s, f = <<"chestData", 0>>)
          /\ \A d \in Chunks : Changed(r.blockData[d], m.blockData[d], s, f = <<"chunk", d>>)
        BY <2>3, <1>3, KindsDiffer DEF Changed
    <2>5. \A g \in Files : Changed(ExtraPart(r, g), ExtraPart(m, g), s, g = f /\ g \in WithExtra)
        BY <2>4, ExtraPartsAre
    <2>6. \A g \in Files : MainPart(r, g) = MainPart(m, g)
        BY <2>3 DEF MainPart
    <2>. QED
        BY <2>3, <2>5, <2>6
<1>4. ASSUME f = <<"chestData", 0>>
      PROVE  Q
    <2>1. r = [info |-> m.info, player |-> m.player, playerHp |-> m.playerHp, chest |-> m.chest,
               chestHp |-> s, entities |-> m.entities, blocks |-> m.blocks,
               blockData |-> m.blockData]
        BY Zenon, <1>4, SetExtraIs
    <2>. HIDE DEF r
    <2>3. /\ r \in Parts
          /\ r.info = m.info /\ r.player = m.player /\ r.playerHp = m.playerHp /\ r.chest = m.chest
          /\ r.chestHp = s /\ r.entities = m.entities /\ r.blocks = m.blocks
          /\ r.blockData = m.blockData
        BY <2>1, <1>1, RecordIs
    <2>4. /\ Changed(r.playerHp, m.playerHp, s, f = <<"playerData", 0>>)
          /\ Changed(r.chestHp, m.chestHp, s, f = <<"chestData", 0>>)
          /\ \A d \in Chunks : Changed(r.blockData[d], m.blockData[d], s, f = <<"chunk", d>>)
        BY <2>3, <1>4, KindsDiffer DEF Changed
    <2>5. \A g \in Files : Changed(ExtraPart(r, g), ExtraPart(m, g), s, g = f /\ g \in WithExtra)
        BY <2>4, ExtraPartsAre
    <2>6. \A g \in Files : MainPart(r, g) = MainPart(m, g)
        BY <2>3 DEF MainPart
    <2>. QED
        BY <2>3, <2>5, <2>6
<1>5. ASSUME f = EntityData
      PROVE  Q
    <2>1. r = [info |-> m.info, player |-> m.player, playerHp |-> m.playerHp, chest |-> m.chest,
               chestHp |-> m.chestHp, entities |-> m.entities, blocks |-> m.blocks,
               blockData |-> m.blockData]
        BY Zenon, <1>5, SetExtraIs
    <2>. HIDE DEF r
    <2>3. /\ r \in Parts
          /\ r.info = m.info /\ r.player = m.player /\ r.playerHp = m.playerHp /\ r.chest = m.chest
          /\ r.chestHp = m.chestHp /\ r.entities = m.entities /\ r.blocks = m.blocks
          /\ r.blockData = m.blockData
        BY <2>1, <1>1, RecordIs
    <2>4. /\ Changed(r.playerHp, m.playerHp, s, f = <<"playerData", 0>>)
          /\ Changed(r.chestHp, m.chestHp, s, f = <<"chestData", 0>>)
          /\ \A d \in Chunks : Changed(r.blockData[d], m.blockData[d], s, f = <<"chunk", d>>)
        BY <2>3, <1>5, KindsDiffer DEF Changed
    <2>5. \A g \in Files : Changed(ExtraPart(r, g), ExtraPart(m, g), s, g = f /\ g \in WithExtra)
        BY <2>4, ExtraPartsAre
    <2>6. \A g \in Files : MainPart(r, g) = MainPart(m, g)
        BY <2>3 DEF MainPart
    <2>. QED
        BY <2>3, <2>5, <2>6
<1>6. ASSUME NEW c \in Chunks, f = <<"chunk", c>>
      PROVE  Q
    <2>1. r = [info |-> m.info, player |-> m.player, playerHp |-> m.playerHp, chest |-> m.chest,
               chestHp |-> m.chestHp, entities |-> m.entities, blocks |-> m.blocks,
               blockData |-> [m.blockData EXCEPT ![c] = s]]
        BY Zenon, <1>6, SetExtraIs
    <2>. HIDE DEF r
    <2>2. [m.blockData EXCEPT ![c] = s] \in [Chunks -> Stamps]
          /\ \A d \in Chunks : [m.blockData EXCEPT ![c] = s][d] = IF d = c THEN s ELSE m.blockData[d]
        BY <1>1, ChunkButIs
    <2>3. /\ r \in Parts
          /\ r.info = m.info /\ r.player = m.player /\ r.playerHp = m.playerHp /\ r.chest = m.chest
          /\ r.chestHp = m.chestHp /\ r.entities = m.entities /\ r.blocks = m.blocks
          /\ r.blockData = [m.blockData EXCEPT ![c] = s]
        BY <2>1, <2>2, <1>1, RecordIs
    <2>4. /\ Changed(r.playerHp, m.playerHp, s, f = <<"playerData", 0>>)
          /\ Changed(r.chestHp, m.chestHp, s, f = <<"chestData", 0>>)
          /\ \A d \in Chunks : Changed(r.blockData[d], m.blockData[d], s, f = <<"chunk", d>>)
        BY <2>3, <2>2, <1>6, KindsDiffer DEF Changed
    <2>5. \A g \in Files : Changed(ExtraPart(r, g), ExtraPart(m, g), s, g = f /\ g \in WithExtra)
        BY <2>4, ExtraPartsAre
    <2>6. \A g \in Files : g = <<"chunkED", c>> \/ MainPart(r, g) = MainPart(m, g)
        BY <2>2, <2>3, MainPartIs, FileKinds, KindsDiffer
    <2>. QED
        BY <2>3, <2>5, <2>6, <1>6
<1>7. ASSUME NEW c \in Chunks, f = <<"chunkED", c>>
      PROVE  Q
    <2>1. r = [info |-> m.info, player |-> m.player, playerHp |-> m.playerHp, chest |-> m.chest,
               chestHp |-> m.chestHp, entities |-> m.entities, blocks |-> m.blocks,
               blockData |-> m.blockData]
        BY Zenon, <1>7, SetExtraIs
    <2>. HIDE DEF r
    <2>3. /\ r \in Parts
          /\ r.info = m.info /\ r.player = m.player /\ r.playerHp = m.playerHp /\ r.chest = m.chest
          /\ r.chestHp = m.chestHp /\ r.entities = m.entities /\ r.blocks = m.blocks
          /\ r.blockData = m.blockData
        BY <2>1, <1>1, RecordIs
    <2>4. /\ Changed(r.playerHp, m.playerHp, s, f = <<"playerData", 0>>)
          /\ Changed(r.chestHp, m.chestHp, s, f = <<"chestData", 0>>)
          /\ \A d \in Chunks : Changed(r.blockData[d], m.blockData[d], s, f = <<"chunk", d>>)
        BY <2>3, <1>7, KindsDiffer DEF Changed
    <2>5. \A g \in Files : Changed(ExtraPart(r, g), ExtraPart(m, g), s, g = f /\ g \in WithExtra)
        BY <2>4, ExtraPartsAre
    <2>6. \A g \in Files : MainPart(r, g) = MainPart(m, g)
        BY <2>3 DEF MainPart
    <2>. QED
        BY <2>3, <2>5, <2>6
<1>. HIDE DEF Q
<1>8. Q
    BY FileKinds, <1>2, <1>3, <1>4, <1>5, <1>6, <1>7 DEF Q
<1>. QED
    BY <1>8 DEF Q


\* A file as a write leaves it.
Written(d, old, f) ==
    /\ d.form = "new" /\ d.main = MainPart(mem, f) /\ d.extra = ExtraPart(mem, f)
    /\ d.cut <=> Content(mem, f).room > old.room /\ ~grows
    /\ d.room \in {old.room, Content(mem, f).room} /\ d.room >= old.room
\* A file as it is created.
Fresh(d, n) == d.form = "fresh" /\ d.main = Blank /\ d.room = n /\ ~d.cut

LEMMA FileTypesAre ==
    /\ Missing \in FileTypes /\ Missing.form = "missing" /\ ~Missing.cut /\ Missing.main = Blank
    /\ Missing.extra = Blank
    /\ \A d \in FileTypes : /\ d.form \in {"missing", "fresh", "old", "new", "newer"} /\ d.main \in Stamps
                            /\ d.extra \in Stamps /\ d.room \in 0..Raw /\ d.cut \in BOOLEAN
    BY StampsAre DEF Missing, FileTypes, Raw

\* Changing the fields of a file.
LEMMA RoomButIs ==
    ASSUME NEW d \in FileTypes, NEW n \in 0..Raw
    PROVE  LET x == [d EXCEPT !.room = n]
           IN  /\ x \in FileTypes /\ x.form = d.form /\ x.main = d.main /\ x.extra = d.extra
               /\ x.room = n /\ x.cut = d.cut
    BY DEF FileTypes

LEMMA CutButIs ==
    ASSUME NEW d \in FileTypes, NEW n \in 0..Raw
    PROVE  LET x == [d EXCEPT !.room = n, !.cut = TRUE]
           IN  /\ x \in FileTypes /\ x.form = d.form /\ x.main = d.main /\ x.extra = d.extra
               /\ x.room = n /\ x.cut = TRUE
    BY DEF FileTypes

LEMMA FreshIs ==
    ASSUME NEW n \in 1..2
    PROVE  LET x == [Missing EXCEPT !.form = "fresh", !.room = n]
           IN  x \in FileTypes /\ Fresh(x, n)
<1>. n \in 0..Raw
    BY DEF Raw
<1>1. ASSUME NEW d \in FileTypes, d.main = Blank, d.cut = FALSE
      PROVE  LET x == [d EXCEPT !.form = "fresh", !.room = n]
             IN  x \in FileTypes /\ Fresh(x, n)
    BY <1>1 DEF FileTypes, Fresh
<1>2. Missing \in FileTypes /\ Missing.main = Blank /\ Missing.cut = FALSE
    BY FileTypesAre, StampsAre DEF Missing
<1>. QED
    BY Zenon, <1>1, <1>2

LEMMA DiskButIs ==
    ASSUME disk \in [Worlds -> [Files -> FileTypes]], world \in Worlds,
           NEW f \in Files, NEW x \in FileTypes
    PROVE  /\ DiskBut(f, x) \in [Worlds -> [Files -> FileTypes]]
           /\ DiskBut(f, x)[world][f] = x
           /\ \A w \in Worlds, g \in Files :
                 w # world \/ g # f => DiskBut(f, x)[w][g] = disk[w][g]
    BY DEF DiskBut

LEMMA WorkOnDisk ==
    ASSUME Types, Script, Work
    PROVE  LET h == Head(todo)
               f == h.file
           IN  /\ disk' \in [Worlds -> [Files -> FileTypes]]
               /\ \A w \in Worlds, g \in Files :
                     w # world \/ g # f \/ h.op \notin {"create", "write", "delete"} =>
                        disk'[w][g] = disk[w][g]
               /\ h.op \in {"create", "write", "delete"} => world \in Worlds
               /\ h.op = "delete" => disk'[world][f] = Missing
               /\ h.op = "create" =>
                     /\ Entry(f).form = "missing" => Fresh(disk'[world][f], Content(mem, f).room)
                     /\ Entry(f).form # "missing" => disk' = disk
               /\ h.op = "write" =>
                     /\ Entry(f).form = "missing" => disk' = disk
                     /\ Entry(f).form # "missing" => Written(disk'[world][f], Entry(f), f)
<1>. DEFINE h == Head(todo)
            f == h.file
            T == [Worlds -> [Files -> FileTypes]]
            c == Content(mem, f)
<1>1. /\ todo # <<>> /\ h.op \in OpNames /\ f \in Files
      /\ h.op \in {"create", "write", "delete"} => world \in Worlds
    BY HeadIs, WorkDoes DEF FileOps
<1>2. disk \in T /\ mem \in Parts /\ grows \in BOOLEAN
    BY DEF Types, TypeOK
<1>3. /\ c = [form |-> "new", main |-> MainPart(mem, f), extra |-> ExtraPart(mem, f),
              room |-> c.room, cut |-> FALSE]
      /\ c.room \in 1..2 /\ MainPart(mem, f) \in Stamps /\ ExtraPart(mem, f) \in Stamps
    BY <1>1, <1>2, ContentIs, PartIn
<1>4. CASE h.op \notin {"create", "write", "delete"}
    <2>1. disk' = disk
        BY <1>4, WorkChanges
    <2>. QED
        BY <2>1, <1>2, <1>4
<1>. DEFINE x0 == MainPart(mem, f)
            y0 == ExtraPart(mem, f)
            n == c.room
<1>8. c = [form |-> "new", main |-> x0, extra |-> y0, room |-> n, cut |-> FALSE]
      /\ n \in 1..2 /\ x0 \in Stamps /\ y0 \in Stamps
    BY <1>3
<1>9. \A x \in FileTypes : disk' = DiskBut(f, x) /\ world \in Worlds =>
         /\ disk' \in T /\ disk'[world][f] = x
         /\ \A w \in Worlds, g \in Files : w # world \/ g # f => disk'[w][g] = disk[w][g]
    <2>. HIDE DEF f
    <2>. QED
        BY <1>1, <1>2, DiskButIs
<1>5. CASE h.op = "delete"
    <2>1. disk' = DiskBut(f, Missing)
        BY <1>5, WorkDoes DEF Delete
    <2>2. disk' \in T /\ disk'[world][f] = Missing
          /\ \A w \in Worlds, g \in Files : w # world \/ g # f => disk'[w][g] = disk[w][g]
        <3>. HIDE DEF T, f, h
        <3>. QED
            BY <2>1, <1>1, <1>5, <1>9, FileTypesAre
    <2>. QED
        BY <2>2, <1>1, <1>5
<1>6. CASE h.op = "create"
    <2>1. disk' = IF Entry(f).form = "missing"
                  THEN DiskBut(f, [Missing EXCEPT !.form = "fresh", !.room = n])
                  ELSE disk
        BY <1>6, WorkDoes DEF Create
    <2>2. CASE Entry(f).form # "missing"
        BY <2>1, <2>2, <1>1, <1>2, <1>6
    <2>3. CASE Entry(f).form = "missing"
        <3>. DEFINE x == [Missing EXCEPT !.form = "fresh", !.room = n]
        <3>1. x \in FileTypes /\ Fresh(x, n)
            BY Zenon, <1>8, FreshIs
        <3>2. disk' = DiskBut(f, x)
            BY <2>1, <2>3
        <3>3. disk' \in T /\ disk'[world][f] = x
              /\ \A w \in Worlds, g \in Files : w # world \/ g # f => disk'[w][g] = disk[w][g]
            <4>. HIDE DEF T, f, h, n, x
            <4>. QED
                BY <3>1, <3>2, <1>1, <1>6, <1>9
        <3>. HIDE DEF x
        <3>. QED
            BY <3>1, <3>3, <2>3, <1>1, <1>6
    <2>. QED
        BY <2>2, <2>3
<1>7. CASE h.op = "write"
    <2>. DEFINE room == Entry(f).room
    <2>1. disk' = IF Entry(f).form = "missing" THEN disk
                  ELSE IF n <= room THEN DiskBut(f, [c EXCEPT !.room = room])
                  ELSE IF grows THEN DiskBut(f, c)
                  ELSE DiskBut(f, [c EXCEPT !.room = room, !.cut = TRUE])
        BY <1>7, WorkDoes DEF Write
    <2>2. room \in 0..Raw
        BY <1>1, <1>2, <1>7 DEF Entry, FileTypes
    <2>3. CASE Entry(f).form = "missing"
        <3>1. disk' = disk
            BY <2>1, <2>3
        <3>. QED
            BY <3>1, <2>3, <1>1, <1>2, <1>7
    <2>4. ASSUME Entry(f).form # "missing"
          PROVE  \E x \in FileTypes : disk' = DiskBut(f, x) /\ Written(x, Entry(f), f)
        <3>. DEFINE W(x) == /\ x.form = "new" /\ x.main = x0 /\ x.extra = y0
                            /\ x.cut <=> n > room /\ ~grows
                            /\ x.room \in {room, n} /\ x.room >= room
        <3>1. \A x : W(x) => Written(x, Entry(f), f)
            BY DEF Written
        <3>. HIDE DEF room, c, x0, y0, n
        <3>5. c \in FileTypes /\ c.form = "new" /\ c.main = x0 /\ c.extra = y0 /\ c.room = n /\ ~c.cut
            BY <1>8 DEF FileTypes, Raw
        <3>2. CASE n <= room
            <4>. DEFINE x == [c EXCEPT !.room = room]
            <4>1. /\ x \in FileTypes /\ x.form = c.form /\ x.main = c.main /\ x.extra = c.extra
                  /\ x.room = room /\ x.cut = c.cut
                BY Zenon, <2>2, <3>5, RoomButIs
            <4>2. x \in FileTypes /\ x.form = "new" /\ x.main = x0 /\ x.extra = y0 /\ x.room = room
                  /\ ~x.cut
                BY Zenon, <4>1, <3>5
            <4>3. ~(n > room)
                BY <2>2, <1>8, <3>2
            <4>4. disk' = DiskBut(f, x)
                BY <2>1, <2>4, <3>2
            <4>. HIDE DEF x
            <4>. QED
                BY <2>2, <3>1, <4>2, <4>3, <4>4
        <3>3. CASE n > room /\ grows
            <4>1. c \in FileTypes /\ W(c)
                BY <2>2, <1>8, <3>3 DEF FileTypes, Raw
            <4>2. ~(n <= room)
                BY <2>2, <1>8, <3>3
            <4>. HIDE DEF W
            <4>. QED
                BY <2>1, <2>4, <3>1, <3>3, <4>1, <4>2
        <3>4. CASE n > room /\ ~grows
            <4>. DEFINE x == [c EXCEPT !.room = room, !.cut = TRUE]
            <4>1. /\ x \in FileTypes /\ x.form = c.form /\ x.main = c.main /\ x.extra = c.extra
                  /\ x.room = room /\ x.cut = TRUE
                BY Zenon, <2>2, <3>5, CutButIs
            <4>2. x \in FileTypes /\ x.form = "new" /\ x.main = x0 /\ x.extra = y0 /\ x.room = room
                  /\ x.cut
                BY Zenon, <4>1, <3>5
            <4>3. ~(n <= room)
                BY <2>2, <1>8, <3>4
            <4>4. disk' = DiskBut(f, x)
                BY <2>1, <2>4, <3>4, <4>3
            <4>. HIDE DEF x
            <4>. QED
                BY <2>2, <3>1, <3>4, <4>2, <4>4
        <3>. QED
            BY <3>2, <3>3, <3>4, <2>2, <1>8
    <2>5. CASE Entry(f).form # "missing"
        <3>1. PICK x \in FileTypes : disk' = DiskBut(f, x) /\ Written(x, Entry(f), f)
            BY <2>4, <2>5
        <3>2. disk' \in T /\ disk'[world][f] = x
              /\ \A w \in Worlds, g \in Files : w # world \/ g # f => disk'[w][g] = disk[w][g]
            <4>. HIDE DEF T, f, h
            <4>. QED
                BY <3>1, <1>1, <1>7, <1>9
        <3>. QED
            BY <3>1, <3>2, <2>5, <1>1, <1>7
    <2>. QED
        BY <2>3, <2>5
<1>. QED
    BY <1>4, <1>5, <1>6, <1>7

\* Replacing the old water.
Dry(m) == [m EXCEPT !.blockData = [c \in Chunks |-> [m.blockData[c] EXCEPT !.wet = FALSE]]]
\* Creating a world, and leaving the game.
Filled(m, s) == [m EXCEPT !.info = s, !.player = s, !.entities = s,
                          !.blocks = [c \in Chunks |-> s]]

LEMMA WetIs ==
    ASSUME NEW m \in Parts
    PROVE  /\ Dry(m) \in Parts
           /\ \A g \in Listed : MainPart(Dry(m), g) = MainPart(m, g)
           /\ \A g \in Listed \ ChunkFiles : ExtraPart(Dry(m), g) = ExtraPart(m, g)
<1>. DEFINE b == [c \in Chunks |-> [m.blockData[c] EXCEPT !.wet = FALSE]]
<1>1. b \in [Chunks -> Stamps]
    BY StampsAre, PartsIs
<1>. HIDE DEF b
<1>2. Dry(m) = [info |-> m.info, player |-> m.player, playerHp |-> m.playerHp,
                chest |-> m.chest, chestHp |-> m.chestHp, entities |-> m.entities,
                blocks |-> m.blocks, blockData |-> b]
    <2>1. Dry(m) = [m EXCEPT !.blockData = b]
        BY Zenon DEF Dry, b
    <2>. QED
        BY <2>1 DEF Parts
<1>5. /\ m.info \in Stamps /\ m.player \in Stamps /\ m.playerHp \in Stamps
      /\ m.chest \in Stamps /\ m.chestHp \in Stamps /\ m.entities \in Stamps
      /\ m.blocks \in [Chunks -> Stamps]
    BY PartsIs
<1>. DEFINE d == Dry(m)
<1>6. d = [info |-> m.info, player |-> m.player, playerHp |-> m.playerHp,
           chest |-> m.chest, chestHp |-> m.chestHp, entities |-> m.entities,
           blocks |-> m.blocks, blockData |-> b]
    BY <1>2
<1>. HIDE DEF d
<1>3. /\ d \in Parts /\ d.info = m.info /\ d.player = m.player /\ d.playerHp = m.playerHp
      /\ d.chest = m.chest /\ d.chestHp = m.chestHp /\ d.entities = m.entities
      /\ d.blocks = m.blocks
    BY Zenon, <1>1, <1>5, <1>6, RecordIs
<1>4. \A g \in Listed : MainPart(d, g) = MainPart(m, g)
    BY <1>3, MainPartIs, FilesAre DEF ChunkFiles
<1>7. \A g \in Listed \ ChunkFiles : ExtraPart(d, g) = ExtraPart(m, g)
    BY <1>3, ExtraPartIs, FilesAre
<1>. QED
    BY <1>3, <1>4, <1>7 DEF d

LEMMA FilledIs ==
    ASSUME NEW m \in Parts, NEW s \in Stamps
    PROVE  LET d == Filled(m, s)
           IN  /\ d \in Parts /\ d.info = s /\ d.player = s /\ d.entities = s
               /\ \A c \in Chunks : d.blocks[c] = s
<1>. DEFINE b == [c \in Chunks |-> s]
<1>1. b \in [Chunks -> Stamps] /\ \A c \in Chunks : b[c] = s
    OBVIOUS
<1>. HIDE DEF b
<1>. DEFINE d == Filled(m, s)
<1>2. d = [info |-> s, player |-> s, playerHp |-> m.playerHp,
           chest |-> m.chest, chestHp |-> m.chestHp, entities |-> s,
           blocks |-> b, blockData |-> m.blockData]
    <2>1. d = [m EXCEPT !.info = s, !.player = s, !.entities = s, !.blocks = b]
        BY Zenon DEF Filled, b
    <2>. QED
        BY <2>1 DEF Parts
<1>. HIDE DEF d
<1>3. /\ d \in Parts /\ d.info = s /\ d.player = s /\ d.entities = s
      /\ d.blocks = b
    BY Zenon, <1>1, <1>2, PartsIs, RecordIs
<1>4. /\ d \in Parts /\ d.info = s /\ d.player = s /\ d.entities = s
      /\ \A c \in Chunks : d.blocks[c] = s
    BY <1>1, <1>3
<1>. QED
    BY Zenon, <1>4 DEF d

\* What reading file f as a and b puts in memory m.
Read(m, f, a, b) ==
    /\ \A g \in Files : \/ Changed(MainPart(m, g), MainPart(mem, g), a, g = f)
                        \/ \E c \in Chunks : f = <<"chunk", c>> /\ g = <<"chunkED", c>>
    /\ \A g \in Files : Changed(ExtraPart(m, g), ExtraPart(mem, g), b, g = f /\ g \in WithExtra)
ReadMain(m, f, a) ==
    /\ \A g \in Files : Changed(MainPart(m, g), MainPart(mem, g), a, g = f)
    /\ \A g \in Files : \/ ExtraPart(m, g) = ExtraPart(mem, g)
                        \/ \E c \in Chunks : f = <<"chunkED", c>> /\ g = <<"chunk", c>>

LEMMA ReadBoth ==
    ASSUME mem \in Parts, NEW f \in Listed, NEW a \in Stamps, NEW b \in Stamps
    PROVE  LET r == SetExtra(SetMain(mem, f, a), f, b)
           IN  r \in Parts /\ Read(r, f, a, b)
<1>. DEFINE q == SetMain(mem, f, a)
            r == SetExtra(q, f, b)
<1>1. /\ f \in Files /\ \A c \in Chunks : f # <<"chunkED", c>>
    BY KindsDiffer, FilesAre, FileKinds DEF Listed
<1>2. /\ q \in Parts
      /\ \A g \in Files : Changed(MainPart(q, g), MainPart(mem, g), a, g = f)
      /\ \A g \in Files : ExtraPart(q, g) = ExtraPart(mem, g)
    <2>1. /\ q \in Parts
          /\ \A g \in Files : Changed(MainPart(q, g), MainPart(mem, g), a, g = f)
          /\ \A g \in Files : \/ ExtraPart(q, g) = ExtraPart(mem, g)
                              \/ \E c \in Chunks : f = <<"chunkED", c>> /\ g = <<"chunk", c>>
        BY <1>1, StoredMain
    <2>. HIDE DEF q
    <2>. QED
        BY <2>1, <1>1
<1>. HIDE DEF q
<1>3. /\ r \in Parts
      /\ \A g \in Files : Changed(ExtraPart(r, g), ExtraPart(q, g), b, g = f /\ g \in WithExtra)
      /\ \A g \in Files : \/ MainPart(r, g) = MainPart(q, g)
                          \/ \E c \in Chunks : f = <<"chunk", c>> /\ g = <<"chunkED", c>>
    BY <1>1, <1>2, StoredExtra
<1>. HIDE DEF r
<1>4. \A g \in Files : Changed(ExtraPart(r, g), ExtraPart(mem, g), b, g = f /\ g \in WithExtra)
    BY <1>2, <1>3
<1>5. \A g \in Files : \/ Changed(MainPart(r, g), MainPart(mem, g), a, g = f)
                       \/ \E c \in Chunks : f = <<"chunk", c>> /\ g = <<"chunkED", c>>
    BY <1>2, <1>3
<1>6. r \in Parts /\ Read(r, f, a, b)
    BY <1>3, <1>4, <1>5 DEF Read
<1>. USE DEF r, q
<1>. QED
    BY Zenon, <1>6

\* What a step reads.
LEMMA WorkInMemory ==
    ASSUME Types, Script, Work
    PROVE  LET h == Head(todo)
               f == h.file
               file == Entry(f)
           IN  /\ mem' \in Parts
               /\ h.op = "load" =>
                     \/ file.form = "missing" /\ f \notin ChunkFiles /\ mem' = mem
                     \/ /\ file.form # "missing" \/ f \in ChunkFiles
                        /\ \E a \in {file.main, Garbled}, b \in {file.extra, Garbled} :
                              /\ file.form = "new" /\ ~file.cut => a = file.main /\ b = file.extra
                              /\ Read(mem', f, a, b)
               /\ h.op \in {"loadV4", "loadRaw"} =>
                     \/ file.form = "missing" /\ mem' = mem
                     \/ /\ file.form # "missing"
                        /\ \E a \in {file.main, Garbled} :
                              /\ file.form = "old" => a = file.main
                              /\ ReadMain(mem', f, a)
<1>. DEFINE h == Head(todo)
            f == h.file
            file == Entry(f)
<1>1. /\ todo # <<>> /\ h.op \in OpNames /\ f \in Files /\ f \in FilesFor(h.op)
      /\ mem \in Parts
      /\ disk \in [Worlds -> [Files -> FileTypes]]
    BY HeadIs, WorkDoes DEF Types, TypeOK
<1>2. CASE h.op \notin Reads \cup {"replaceOldWater", "leave"}
    <2>1. mem' = mem
        BY <1>2, WorkChanges
    <2>. QED
        BY <2>1, <1>1, <1>2 DEF Reads
<1>. DEFINE main == IF file.form = "new" /\ ~file.cut THEN file.main ELSE Garbled
            extra == IF file.form = "new" /\ ~file.cut THEN file.extra ELSE Garbled
            old == IF file.form = "old" THEN file.main ELSE Garbled
<1>3. CASE h.op = "load"
    <2>1. mem' = IF file.form = "missing" /\ f[1] # "chunk" THEN mem
                 ELSE SetExtra(SetMain(mem, f, main), f, extra)
        BY <1>3, WorkDoes DEF Load
    <2>2. f \in Listed /\ (f[1] = "chunk" <=> f \in ChunkFiles)
        BY <1>1, <1>3, FilesAre DEF FilesFor
    <2>3. CASE file.form = "missing" /\ f \notin ChunkFiles
        <3>1. mem' = mem
            BY <2>1, <2>2, <2>3
        <3>. QED
            BY <3>1, <1>1, <1>3, <2>3
    <2>4. CASE file.form # "missing" \/ f \in ChunkFiles
        <3>1. mem' = SetExtra(SetMain(mem, f, main), f, extra)
            BY <2>1, <2>2, <2>4
        <3>2. main \in Stamps /\ extra \in Stamps
            <4>1. world \in Worlds \/ world = 0
                BY DEF Types, TypeOK
            <4>2. CASE world \in Worlds
                BY <4>2, <1>1, StampsAre, FileTypesAre DEF Entry
            <4>3. world \in Worlds
                BY <4>1, <1>3, <1>1, HeadIs
            <4>. QED
                BY <4>2, <4>3
        <3>. DEFINE a == main
                    b == extra
        <3>3. /\ a \in {file.main, Garbled} /\ b \in {file.extra, Garbled}
              /\ file.form = "new" /\ ~file.cut => a = file.main /\ b = file.extra
            OBVIOUS
        <3>. HIDE DEF main, extra, f, file
        <3>4. mem' \in Parts /\ Read(mem', f, a, b)
            BY Zenon, <3>1, <3>2, <2>2, <1>1, ReadBoth
        <3>5. \E x \in {file.main, Garbled}, y \in {file.extra, Garbled} :
                  /\ file.form = "new" /\ ~file.cut => x = file.main /\ y = file.extra
                  /\ Read(mem', f, x, y)
            BY Zenon, <3>3, <3>4
        <3>. USE DEF f, file
        <3>. QED
            BY <3>4, <3>5, <1>3, <2>4
    <2>. QED
        BY <2>3, <2>4
<1>4. CASE h.op \in {"loadV4", "loadRaw"}
    <2>1. mem' = IF file.form = "missing" THEN mem ELSE SetMain(mem, f, old)
        BY <1>4, WorkDoes DEF LoadOld
    <2>2. CASE file.form = "missing"
        BY <2>1, <2>2, <1>1, <1>4
    <2>3. CASE file.form # "missing"
        <3>1. mem' = SetMain(mem, f, old)
            BY <2>1, <2>3
        <3>2. old \in Stamps
            <4>1. world \in Worlds
                BY <1>1, <1>4, HeadIs
            <4>. QED
                BY <4>1, <1>1, StampsAre, FileTypesAre DEF Entry
        <3>3. old \in {file.main, Garbled} /\ (file.form = "old" => old = file.main)
            OBVIOUS
        <3>. HIDE DEF old, f, file
        <3>4. /\ mem' \in Parts
              /\ \A g \in Files : Changed(MainPart(mem', g), MainPart(mem, g), old, g = f)
              /\ \A g \in Files : \/ ExtraPart(mem', g) = ExtraPart(mem, g)
                                  \/ \E c \in Chunks : f = <<"chunkED", c>> /\ g = <<"chunk", c>>
            <4>. DEFINE r == SetMain(mem, f, old)
            <4>1. /\ r \in Parts
                  /\ \A g \in Files : Changed(MainPart(r, g), MainPart(mem, g), old, g = f)
                  /\ \A g \in Files : \/ ExtraPart(r, g) = ExtraPart(mem, g)
                                      \/ \E c \in Chunks : f = <<"chunkED", c>> /\ g = <<"chunk", c>>
                BY <3>2, <1>1, StoredMain
            <4>. HIDE DEF r
            <4>2. mem' = r
                BY <3>1 DEF r
            <4>. QED
                BY <4>1, <4>2
        <3>5. \E x \in {file.main, Garbled} : (file.form = "old" => x = file.main)
                                              /\ ReadMain(mem', f, x)
            BY <3>3, <3>4 DEF ReadMain
        <3>. USE DEF f, file
        <3>. QED
            BY <3>4, <3>5, <1>4, <2>3
    <2>. QED
        BY <2>2, <2>3
<1>5. CASE h.op \in {"replaceOldWater", "leave"}
    <2>1. mem' \in Parts
        <3>1. mem' = Dry(mem) \/ mem' = Filled(mem, Blank)
            BY <1>5, WorkDoes DEF Leave, replaceOldWater, Dry, Filled
        <3>2. Dry(mem) \in Parts
            BY <1>1, WetIs
        <3>3. Filled(mem, Blank) \in Parts
            BY Zenon, <1>1, StampsAre, FilledIs
        <3>. QED
            BY Zenon, <3>1, <3>2, <3>3
    <2>. QED
        BY <2>1, <1>5 DEF Reads
<1>. QED
    BY <1>2, <1>3, <1>4, <1>5 DEF Reads

----------------------------------------------------------------------------
(* The types are kept.                                                     *)

LEMMA SnapshotIs ==
    ASSUME NEW m \in Parts, NEW v \in Nat, NEW by \in {"creation", "save"}
    PROVE  LET s == Snapshot(m, v, by)
           IN  s \in Snapshots /\ s.parts = m /\ s.version = v /\ s.by = by
    BY DEF Snapshot, Snapshots

\* A snapshot with other options.
Edited(s, info) == [s EXCEPT !.parts.info = info]
LEMMA EditedIs ==
    ASSUME NEW s \in Snapshots, NEW info \in Stamps
    PROVE  LET e == Edited(s, info)
           IN  /\ e \in Snapshots /\ e.version = s.version /\ e.by = s.by
               /\ e.parts.info = info
               /\ \A f \in Files : /\ Changed(MainPart(e.parts, f), MainPart(s.parts, f), info,
                                              f = WorldData)
                                   /\ ExtraPart(e.parts, f) = ExtraPart(s.parts, f)
<1>. DEFINE e == Edited(s, info)
            q == SetMain(s.parts, WorldData, info)
<1>1. s.parts \in Parts /\ s.version \in Nat /\ s.by \in {"creation", "save"}
    BY DEF Snapshots
<1>2. e = [parts |-> [s.parts EXCEPT !.info = info], version |-> s.version, by |-> s.by]
    BY DEF Edited, Snapshots
<1>3. q = [s.parts EXCEPT !.info = info]
    BY DEF SetMain, WorldData
<1>4. /\ q \in Parts
      /\ \A g \in Files : Changed(MainPart(q, g), MainPart(s.parts, g), info, g = WorldData)
      /\ \A g \in Files : \/ ExtraPart(q, g) = ExtraPart(s.parts, g)
                          \/ \E c \in Chunks : WorldData = <<"chunkED", c>> /\ g = <<"chunk", c>>
    BY <1>1, StoredMain, FilesAre
<1>5. q.info = info
    BY <1>4, FilesAre, MainPartIs DEF Changed
<1>. HIDE DEF q, e
<1>6. e = [parts |-> q, version |-> s.version, by |-> s.by]
    BY <1>2, <1>3
<1>7. e \in Snapshots /\ e.version = s.version /\ e.by = s.by /\ e.parts = q
    BY <1>6, <1>4, <1>1 DEF Snapshots
<1>8. \A g \in Files : ExtraPart(q, g) = ExtraPart(s.parts, g)
    BY <1>4, KindsDiffer
<1>. QED
    BY <1>4, <1>5, <1>7, <1>8 DEF e

LEMMA WorldBut ==
    ASSUME NEW S, NEW g \in [Worlds -> S], NEW w \in Worlds, NEW x \in S
    PROVE  [g EXCEPT ![w] = x] \in [Worlds -> S]
    OBVIOUS

\* The files after a step of a script.
LEMMA FilesSoundKept ==
    ASSUME Types, Script, Work
    PROVE  FilesSound'
<1>. DEFINE h == Head(todo)
            f == h.file
            Sound(d, g) ==
                /\ d.form = "missing" => d = Missing
                /\ d.cut => /\ d.form = "new" /\ ~grows
                            /\ g[1] \in {"playerData", "chestData", "chunk"}
                /\ d.form # "missing" /\ g[1] \in {"worldData", "entityData"} => d.room >= 1
<1>1. \A w \in Worlds, g \in Files : Sound(disk[w][g], g)
    BY DEF Types, FilesSound
<1>2. grows' = grows /\ f \in Files /\ mem \in Parts /\ disk \in [Worlds -> [Files -> FileTypes]]
    BY WorkChanges, HeadIs, WorkDoes DEF Types, TypeOK
<1>3. \A w \in Worlds, g \in Files :
         w # world \/ g # f \/ h.op \notin {"create", "write", "delete"} => disk'[w][g] = disk[w][g]
    BY Zenon, WorkOnDisk
<1>4. Content(mem, f).room \in 1..2 /\ (f \in {WorldData, EntityData} => Content(mem, f).room = 1)
    BY <1>2, ContentIs
<1>5. ASSUME world \in Worlds, h.op \in {"create", "write", "delete"}
      PROVE  Sound(disk'[world][f], f)
    <2>. DEFINE d == disk'[world][f]
                n == Content(mem, f).room
    <2>1. Sound(Entry(f), f) /\ Entry(f) \in FileTypes
        BY <1>1, <1>2, <1>5 DEF Entry
    <2>2. Sound(Missing, f)
        BY FileTypesAre
    <2>3. CASE h.op = "delete"
        <3>1. d = Missing
            BY Zenon, <2>3, WorkOnDisk
        <3>. HIDE DEF d, Sound
        <3>. QED
            BY <3>1, <2>2 DEF d
    <2>4. CASE Entry(f).form = "missing" /\ h.op = "create"
        <3>1. Fresh(d, n)
            BY <2>4, WorkOnDisk
        <3>. HIDE DEF d, f, h
        <3>2. Sound(d, f)
            BY <3>1, <1>4 DEF Fresh
        <3>. QED
            BY <3>2 DEF d, f
    <2>5. CASE Entry(f).form # "missing" /\ h.op = "write"
        <3>1. Written(d, Entry(f), f)
            BY <2>5, WorkOnDisk
        <3>2. f \in Listed
            BY <2>5, HeadIs, WorkDoes DEF FilesFor
        <3>. DEFINE room == Entry(f).room
        <3>3. room \in Nat
            BY <2>1, FileTypesAre DEF Raw
        <3>4. d.form = "new" /\ d.room \in {room, n} /\ d.room >= room
              /\ (d.cut => n > room /\ ~grows)
            BY <3>1 DEF Written
        <3>5. CASE f \in {WorldData, EntityData}
            <4>1. room >= 1 /\ n = 1
                BY <2>1, <2>5, <3>5, <1>4 DEF WorldData, EntityData
            <4>. HIDE DEF d, f, h, room, n
            <4>2. Sound(d, f)
                BY <3>3, <3>4, <4>1
            <4>. QED
                BY <4>2 DEF d, f
        <3>6. CASE f \notin {WorldData, EntityData}
            <4>1. f[1] \in {"playerData", "chestData", "chunk"}
                BY <3>2, <3>6, FilesAre DEF ChunkFiles
            <4>. HIDE DEF d, f, h, room, n
            <4>2. Sound(d, f)
                BY <3>4, <4>1
            <4>. QED
                BY <4>2 DEF d, f
        <3>. QED
            BY <3>5, <3>6
    <2>6. CASE ~(Entry(f).form = "missing" <=> h.op = "create") /\ h.op # "delete"
        <3>1. disk' = disk
            BY <2>6, <1>5, WorkOnDisk
        <3>2. d = Entry(f)
            BY <3>1 DEF Entry
        <3>. HIDE DEF d, Sound
        <3>. QED
            BY <3>2, <2>1 DEF d
    <2>. QED
        BY <2>3, <2>4, <2>5, <2>6, <1>5
<1>6. \A w \in Worlds, g \in Files : Sound(disk'[w][g], g)
    <2>. HIDE DEF Sound, h, f
    <2>. QED
        BY <1>1, <1>3, <1>5
<1>. QED
    BY <1>6, <1>2 DEF FilesSound

LEMMA WorkTypes ==
    ASSUME Types, Script, Work
    PROVE  Types'
<1>. DEFINE h == Head(todo)
<1>1. /\ disk' \in [Worlds -> [Files -> FileTypes]] /\ mem' \in Parts
    BY WorkOnDisk, WorkInMemory
<1>2. /\ h.op # "saveGame" => gameData' = gameData
      /\ h.op # "list" => worldExists' = worldExists
      /\ h.op \notin {"list", "setVersion4", "setVersion5"} => worldVersion' = worldVersion
      /\ h.op \notin {"loaded", "made", "saved"} => saved' = saved
      /\ h.op \notin {"made", "saved"} => begun' = begun
      /\ h.op # "leave" => screen' = screen
      /\ world' = world /\ useCurrentVersion' = useCurrentVersion
      /\ now' = now /\ grows' = grows
    BY WorkChanges
<1>3. h.op \notin {"create", "write", "saveGame", "load"} => world \in Worlds
    BY HeadIs, WorkDoes
<1>4. /\ gameData \in [exists : [Worlds -> BOOLEAN], version : [Worlds -> Nat]]
      /\ worldExists \in [Worlds -> BOOLEAN] /\ worldVersion \in [Worlds -> Nat]
      /\ screen \in {"menu", "edit", "game"}
      /\ world \in Worlds \cup {0} /\ (screen # "menu" => world # 0)
      /\ useCurrentVersion \in BOOLEAN /\ grows \in BOOLEAN /\ now \in 1..MaxStamp
      /\ saved \in [Worlds -> SUBSET Snapshots] /\ begun \in [Worlds -> Nat]
      /\ mem \in Parts
    BY DEF Types, TypeOK
<1>5. gameData' \in [exists : [Worlds -> BOOLEAN], version : [Worlds -> Nat]]
    <2>1. CASE h.op = "saveGame"
        <3>1. gameData' = [exists |-> worldExists, version |-> worldVersion]
            BY <2>1, WorkDoes DEF SaveGame
        <3>. QED
            BY <3>1, <1>4
    <2>. QED
        BY <2>1, <1>2, <1>4
<1>6. worldExists' \in [Worlds -> BOOLEAN]
    <2>1. CASE h.op = "list"
        <3>1. worldExists' = [worldExists EXCEPT ![world] = TRUE]
            BY <2>1, WorkDoes DEF List
        <3>. QED
            BY <3>1, <1>4, <1>3, <2>1
    <2>. QED
        BY <2>1, <1>2, <1>4
<1>7. worldVersion' \in [Worlds -> Nat]
    <2>1. CASE h.op \in {"list", "setVersion4", "setVersion5"}
        <3>1. \E v \in 0..5 : worldVersion' = [worldVersion EXCEPT ![world] = v]
            BY <2>1, WorkDoes DEF List, SetVersion, currentVersion
        <3>. QED
            BY <3>1, <1>4, <1>3, <2>1
    <2>. QED
        BY <2>1, <1>2, <1>4
<1>8. screen' \in {"menu", "edit", "game"} /\ (screen' # "menu" => world' # 0)
    <2>1. CASE h.op = "leave"
        BY <2>1, WorkDoes DEF Leave
    <2>. QED
        BY <2>1, <1>2, <1>4
<1>9. saved' \in [Worlds -> SUBSET Snapshots]
    <2>1. CASE h.op = "loaded"
        <3>1. saved' = saved \/ saved' = [saved EXCEPT ![world] = {}]
            BY <2>1, WorkDoes DEF Loaded
        <3>. QED
            BY <3>1, <1>4, <1>3, <2>1
    <2>2. CASE h.op \in {"made", "saved"}
        <3>1. \E by \in {"creation", "save"} :
                 saved' = [saved EXCEPT ![world] = {Snapshot(mem, currentVersion, by)}]
            BY <2>2, WorkDoes DEF Promise
        <3>2. PICK by \in {"creation", "save"} :
                 saved' = [saved EXCEPT ![world] = {Snapshot(mem, currentVersion, by)}]
            BY Zenon, <3>1
        <3>3. {Snapshot(mem, currentVersion, by)} \in SUBSET Snapshots
            BY <1>4, SnapshotIs DEF currentVersion
        <3>. QED
            BY Zenon, <3>2, <3>3, <1>4, <1>3, <2>2, WorldBut
    <2>. QED
        BY <2>1, <2>2, <1>2, <1>4
<1>10. begun' \in [Worlds -> Nat]
    <2>1. CASE h.op \in {"made", "saved"}
        <3>1. begun' = [begun EXCEPT ![world] = 0]
            BY <2>1, WorkDoes DEF Promise
        <3>. QED
            BY <3>1, <1>4, <1>3, <2>1
    <2>. QED
        BY <2>1, <1>2, <1>4
<1>11. FilesSound'
    BY FilesSoundKept
<1>. QED
    BY <1>1, <1>2, <1>4, <1>5, <1>6, <1>7, <1>8, <1>9, <1>10, <1>11 DEF Types, TypeOK

\* What the player does from the screens, and the resets.
Screens ==
    \/ \E w \in Worlds : CreateWorld(w) \/ OpenWorld(w) \/ DeleteWorld(w)
                         \/ RecoverWorld(w) \/ EditWorld(w)
    \/ ConfirmEdit \/ CancelEdit \/ Play
    \/ \E quit \in BOOLEAN : SaveWorld(quit)
    \/ QuitWorld \/ Crash

LEMMA NextIs == Next <=> Work \/ Screens
    BY Zenon DEF Next, Screens

LEMMA MadeIs ==
    ASSUME Types, now < MaxStamp, NEW w \in Worlds
    PROVE  /\ now + 1 \in 1..MaxStamp
           /\ Made(w, now + 1) \in Stamps /\ Made(w, now + 1).of = w
<1>1. now \in 1..MaxStamp /\ MaxStamp \in Nat
    BY WorldFilesAssumption DEF Types, TypeOK
<1>2. now + 1 \in 1..MaxStamp /\ now + 1 \in 0..MaxStamp
    BY <1>1
<1>. QED
    BY <1>2, StampsAre

\* What playing makes of the memory.
Played(m, s, chestUsed) ==
    [info |-> s, player |-> s, playerHp |-> s, entities |-> s,
     chest |-> IF chestUsed THEN s ELSE m.chest,
     chestHp |-> IF chestUsed THEN s ELSE m.chestHp,
     blocks |-> [c \in Chunks |-> s], blockData |-> [c \in Chunks |-> s]]
LEMMA PlayedIs ==
    ASSUME NEW m \in Parts, NEW s \in Stamps, NEW chestUsed \in BOOLEAN
    PROVE  LET d == Played(m, s, chestUsed)
           IN  /\ d \in Parts /\ d.player = s /\ d.entities = s
               /\ \A c \in Chunks : d.blocks[c] = s
<1>. DEFINE b == [c \in Chunks |-> s]
            x == IF chestUsed THEN s ELSE m.chest
            y == IF chestUsed THEN s ELSE m.chestHp
            d == Played(m, s, chestUsed)
<1>1. b \in [Chunks -> Stamps] /\ \A c \in Chunks : b[c] = s
    OBVIOUS
<1>2. x \in Stamps /\ y \in Stamps
    BY PartsIs
<1>3. d = [info |-> s, player |-> s, playerHp |-> s, entities |-> s, chest |-> x, chestHp |-> y,
           blocks |-> b, blockData |-> b]
    BY Zenon DEF Played
<1>. HIDE DEF b, x, y, d
<1>4. d = [info |-> s, player |-> s, playerHp |-> s, chest |-> x, chestHp |-> y, entities |-> s,
           blocks |-> b, blockData |-> b]
    BY <1>3
<1>5. d \in Parts /\ d.player = s /\ d.entities = s /\ d.blocks = b
    BY Zenon, <1>1, <1>2, <1>4, RecordIs
<1>. QED
    BY <1>1, <1>5 DEF d

LEMMA BootIs ==
    /\ BootMemory \in Parts /\ BootMemory.player = Blank /\ BootMemory.entities = Blank
    /\ \A c \in Chunks : BootMemory.blocks[c] = Blank
    BY StampsAre DEF BootMemory, Parts

\* The snapshots of a world whose options are edited.
EditedSnapshots(version, info) ==
    UNION {{s, Edited(s, info)} : s \in {t \in saved[world] : SameForm(t.version, version)}}

LEMMA ScreenTypes ==
    ASSUME Types, Screens
    PROVE  Types'
<1>1. /\ gameData \in [exists : [Worlds -> BOOLEAN], version : [Worlds -> Nat]]
      /\ worldExists \in [Worlds -> BOOLEAN] /\ worldVersion \in [Worlds -> Nat]
      /\ screen \in {"menu", "edit", "game"}
      /\ world \in Worlds \cup {0} /\ (screen # "menu" => world # 0)
      /\ useCurrentVersion \in BOOLEAN /\ grows \in BOOLEAN /\ now \in 1..MaxStamp
      /\ saved \in [Worlds -> SUBSET Snapshots] /\ begun \in [Worlds -> Nat]
      /\ mem \in Parts /\ disk \in [Worlds -> [Files -> FileTypes]]
    BY DEF Types, TypeOK
<1>2. disk' = disk /\ grows' = grows
    BY DEF Screens, CreateWorld, OpenWorld, DeleteWorld, RecoverWorld, EditWorld,
           ConfirmEdit, CancelEdit, Play, SaveWorld, QuitWorld, Leave, Crash
<1>3. FilesSound' /\ disk' \in [Worlds -> [Files -> FileTypes]] /\ grows' \in BOOLEAN
    BY <1>1, <1>2 DEF Types, FilesSound
<1>4. ASSUME NEW w \in Worlds, CreateWorld(w)
      PROVE  Types'
    <2>1. /\ now < MaxStamp /\ mem' = Filled(mem, Made(w, now + 1)) /\ now' = now + 1
          /\ world' = w /\ screen' = "game"
          /\ worldExists' = [worldExists EXCEPT ![w] = TRUE]
          /\ worldVersion' = [worldVersion EXCEPT ![w] = currentVersion]
          /\ saved' = [saved EXCEPT ![w] = {}]
          /\ gameData' = gameData /\ useCurrentVersion' = useCurrentVersion /\ begun' = begun
        BY Zenon, <1>4 DEF CreateWorld, Filled
    <2>2. now + 1 \in 1..MaxStamp /\ mem' \in Parts
        BY <1>1, <2>1, MadeIs, FilledIs
    <2>3. /\ worldExists' \in [Worlds -> BOOLEAN] /\ worldVersion' \in [Worlds -> Nat]
          /\ saved' \in [Worlds -> SUBSET Snapshots]
        BY <1>1, <2>1 DEF currentVersion
    <2>. QED
        BY <1>1, <1>3, <2>1, <2>2, <2>3, WorldFilesAssumption DEF Types, TypeOK
<1>5. ASSUME NEW w \in Worlds, OpenWorld(w) \/ DeleteWorld(w) \/ RecoverWorld(w) \/ EditWorld(w)
      PROVE  Types'
    <2>1. /\ gameData' = gameData /\ begun' = begun /\ saved' = saved /\ mem' = mem
          /\ now' = now /\ worldVersion' = worldVersion
          /\ worldExists' \in {worldExists, [worldExists EXCEPT ![w] = FALSE]}
          /\ useCurrentVersion' \in BOOLEAN
          /\ world' = w \/ (world' = world /\ screen' = screen)
          /\ screen' \in {"menu", "edit", "game"}
        BY <1>1, <1>5 DEF OpenWorld, DeleteWorld, RecoverWorld, EditWorld
    <2>2. worldExists' \in [Worlds -> BOOLEAN]
        BY <1>1, <2>1
    <2>. QED
        BY <1>1, <1>3, <2>1, <2>2, WorldFilesAssumption DEF Types, TypeOK
<1>6. CASE ConfirmEdit
    <2>. DEFINE info == Made(world, now + 1)
                version == IF useCurrentVersion THEN currentVersion ELSE 0
    <2>1. /\ now < MaxStamp /\ screen = "edit" /\ mem' = SetMain(mem, WorldData, info)
          /\ now' = now + 1 /\ world' = world /\ screen' = "menu"
          /\ worldExists' = [worldExists EXCEPT ![world] = TRUE]
          /\ worldVersion' = [worldVersion EXCEPT ![world] = version]
          /\ gameData' = gameData /\ useCurrentVersion' = useCurrentVersion /\ begun' = begun
        BY <1>6 DEF ConfirmEdit, SetMain, WorldData, Idle
    <2>2. saved' = [saved EXCEPT ![world] = EditedSnapshots(version, info)]
        BY Zenon, <1>6 DEF ConfirmEdit, EditedSnapshots, Edited
    <2>3. world \in Worlds /\ version \in 0..5
        BY <1>1, <2>1 DEF currentVersion
    <2>4. now + 1 \in 1..MaxStamp /\ info \in Stamps
        BY <2>1, <2>3, MadeIs
    <2>5. mem' \in Parts
        BY <1>1, <2>1, <2>4, StoredMain, FilesAre
    <2>. HIDE DEF info, version
    <2>6. EditedSnapshots(version, info) \in SUBSET Snapshots
        <3>1. saved[world] \subseteq Snapshots
            BY <1>1, <2>3
        <3>2. ASSUME NEW s \in saved[world]
              PROVE  {s, Edited(s, info)} \subseteq Snapshots
            BY <3>1, <2>4, EditedIs
        <3>. QED
            BY <3>2 DEF EditedSnapshots
    <2>7. /\ worldExists' \in [Worlds -> BOOLEAN] /\ worldVersion' \in [Worlds -> Nat]
          /\ saved' \in [Worlds -> SUBSET Snapshots]
        BY <1>1, <2>1, <2>2, <2>3, <2>6
    <2>. QED
        BY <1>1, <1>3, <2>1, <2>4, <2>5, <2>7 DEF Types, TypeOK
<1>7. CASE CancelEdit
    <2>1. /\ UNCHANGED <<gameData, worldExists, worldVersion, mem, world, useCurrentVersion, now,
                         saved, begun>>
          /\ screen' = "menu"
        BY <1>7 DEF CancelEdit
    <2>. QED
        BY <1>1, <1>3, <2>1 DEF Types, TypeOK
<1>8. CASE Play
    <2>1. /\ now < MaxStamp /\ screen = "game" /\ now' = now + 1
          /\ \E u \in BOOLEAN : mem' = Played(mem, Made(world, now + 1), u)
          /\ UNCHANGED <<gameData, worldExists, worldVersion, screen, world, useCurrentVersion,
                         saved, begun>>
        BY Zenon, <1>8 DEF Play, Played, Idle
    <2>2. world \in Worlds
        BY <1>1, <2>1
    <2>3. now + 1 \in 1..MaxStamp /\ mem' \in Parts
        BY <1>1, <2>1, <2>2, MadeIs, PlayedIs
    <2>. QED
        BY <1>1, <1>3, <2>1, <2>3 DEF Types, TypeOK
<1>9. ASSUME NEW quit \in BOOLEAN, SaveWorld(quit)
      PROVE  Types'
    <2>1. /\ screen = "game"
          /\ saved' = [saved EXCEPT ![world] =
                          IF @ = {} \/ worldVersion[world] > currentVersion THEN {}
                          ELSE @ \cup {Snapshot(mem, currentVersion, "save")}]
          /\ begun' = [begun EXCEPT ![world] = @ + 1]
          /\ UNCHANGED <<gameData, worldExists, worldVersion, mem, screen, world,
                         useCurrentVersion, now>>
        BY <1>9 DEF SaveWorld, Idle
    <2>2. world \in Worlds
        BY <1>1, <2>1
    <2>3. Snapshot(mem, currentVersion, "save") \in Snapshots
        BY <1>1, SnapshotIs DEF currentVersion
    <2>4. saved' \in [Worlds -> SUBSET Snapshots] /\ begun' \in [Worlds -> Nat]
        BY <1>1, <2>1, <2>2, <2>3
    <2>. QED
        BY <1>1, <1>3, <2>1, <2>4 DEF Types, TypeOK
<1>10. CASE QuitWorld
    <2>1. /\ mem' = Filled(mem, Blank) /\ screen' = "menu"
          /\ UNCHANGED <<gameData, worldExists, worldVersion, world, useCurrentVersion, now,
                         saved, begun>>
        BY Zenon, <1>10 DEF QuitWorld, Leave, Filled
    <2>2. mem' \in Parts
        BY <1>1, <2>1, StampsAre, FilledIs
    <2>. QED
        BY <1>1, <1>3, <2>1, <2>2 DEF Types, TypeOK
<1>11. CASE Crash
    <2>1. /\ mem' = BootMemory /\ worldExists' = gameData.exists
          /\ worldVersion' = gameData.version /\ screen' = "menu" /\ world' = 0
          /\ useCurrentVersion' = FALSE
          /\ UNCHANGED <<gameData, now, saved, begun>>
        BY <1>11 DEF Crash
    <2>. QED
        BY <1>1, <1>3, <2>1, BootIs DEF Types, TypeOK
<1>. QED
    BY <1>4, <1>5, <1>6, <1>7, <1>8, <1>9, <1>10, <1>11 DEF Screens

----------------------------------------------------------------------------
(* The script is kept.                                                     *)

LEMMA NothingToDo ==
    /\ InOrder(<<>>) /\ \A A : ~Has(<<>>, A)
    /\ \A S : <<>> \in Seq(S)
    /\ \A A, B : Then(<<>>, A, B)
    BY EmptyInOrder, HasNothing, HasNone

\* What opening a world of any version does: a newer one is refused.
LEMMA OpenScriptIs ==
    ASSUME NEW v \in Nat
    PROVE  LET s == loadAllChunk(v)
           IN  /\ s \in Seq(GameOps) /\ InOrder(s) /\ Paired(s, {})
               /\ Then(s, Named(Reads), Named({"loaded"}))
               /\ ~Has(s, Named({"saved"}))
               /\ First(s, Named({"loaded"}), Named(Changes))
               /\ v > 5 => s = <<>>
               /\ v >= 5 => ~Has(s, Named(Changes)) /\ ~Has(s, Named(Promises))
               /\ v < 5 => Has(s, Named({"setVersion5"}))
               /\ v < 4 => First(s, Named({"setVersion4", "setVersion5"}), ChunkSaves)
<1>1. CASE v > 5
    <2>1. loadAllChunk(v) = <<>>
        BY <1>1 DEF loadAllChunk, currentVersion
    <2>2. Paired(<<>>, {})
        BY NoWrites, NothingToDo
    <2>3. First(<<>>, Named({"loaded"}), Named(Changes))
        BY HasNone, NothingToDo
    <2>. QED
        BY <1>1, <2>1, <2>2, <2>3, NothingToDo
<1>2. CASE v \in 0..5
    <2>1. v >= 5 => v = 5
        BY <1>2
    <2>. QED
        BY <1>2, <2>1, LoadScriptIs
<1>. QED
    BY <1>1, <1>2

LEMMA WorkScript ==
    ASSUME Types, Script, Work
    PROVE  Script'
<1>. DEFINE h == Head(todo)
            t == Tail(todo)
<1>1. todo # <<>> /\ h.op \in OpNames
    BY WorkDoes, HeadIs
<1>2. CASE h.op = "leave"
    <2>1. todo' = <<>> /\ screen' = "menu"
        BY <1>2, WorkDoes DEF Leave
    <2>. QED
        BY <2>1, NothingToDo DEF Script
<1>3. CASE h.op # "leave"
    <2>1. todo' = Front \o t /\ screen' = screen /\ world' = world
        BY <1>3, WorkChanges
    <2>2. /\ Front \in Using({"create", "write", "delete", "saveGame"}) /\ Front \in Seq(GameOps)
          /\ \A f : Then(Front, On("delete", f), On("write", f))
          /\ h.op = "saveGame" => Front = <<>>
          /\ screen = "menu" => Front = <<>>
          /\ screen = "edit" => Front \in Seq(EditOps)
        BY <1>1, FrontIs DEF Reads
    <2>3. /\ t \in Seq(GameOps) /\ InOrder(t)
          /\ screen = "menu" => t \in Seq(MenuOps)
          /\ screen = "edit" => t \in Seq(EditOps)
          /\ screen = "game" => Then(t, Named(Reads), Named({"loaded"}))
          /\ world = 0 => h.op = "saveGame"
        BY <1>1, HeadIs
    <2>4. /\ ~Has(Front, Named(OpNames \ Plain)) /\ ~Has(Front, Named(Reads))
          /\ ~Has(Front, Named({"fit"}))
        <3>. DEFINE N == {"create", "write", "delete", "saveGame"}
        <3>1. /\ (OpNames \ Plain) \cap N = {} /\ Reads \cap N = {} /\ {"fit"} \cap N = {}
              /\ N \in SUBSET OpNames
            BY DEF Plain, OpNames, Conversions, Promises, Reads
        <3>. HIDE DEF N
        <3>2. \A M : M \cap N = {} => ~Has(Front, Named(M))
            BY <3>1, <2>2, UsingIs DEF N
        <3>. QED
            BY <3>1, <3>2
    <2>5. InOrder(Front \o t)
        BY <2>2, <2>3, <2>4, PlainBefore
    <2>6. screen = "menu" => Front \o t \in Seq(MenuOps)
        BY <2>2, <2>3
    <2>7. screen = "edit" => Front \o t \in Seq(EditOps)
        BY <2>2, <2>3, ConcatIs
    <2>8. screen = "game" =>
             /\ Front \o t \in Seq(GameOps)
             /\ Then(Front \o t, Named(Reads), Named({"loaded"}))
        <3>1. Then(Front, Named(Reads), Named({"loaded"}))
            BY <2>4, HasNone
        <3>. HIDE DEF t
        <3>. QED
            BY <2>2, <2>3, <3>1, ConcatIs, ThenConcat
    <2>9. Has(Front \o t, Named({"create", "write"})) => world # 0
        <3>1. SUFFICES ASSUME world = 0
                       PROVE  ~Has(Front \o t, Named({"create", "write"}))
            OBVIOUS
        <3>2. Front \o t = t
            BY <3>1, <2>2, <2>3
        <3>3. ~Has(todo, Named({"create", "write"})) /\ todo \in Seq(GameOps)
            BY <3>1, <1>1, HeadIs DEF Script
        <3>. QED
            BY <3>2, <3>3, <1>1, HasTail
    <2>. QED
        BY <2>1, <2>5, <2>6, <2>7, <2>8, <2>9 DEF Script
<1>. QED
    BY <1>2, <1>3

LEMMA ScreenScript ==
    ASSUME Types, Script, Listing, Screens
    PROVE  Script'
<1>. DEFINE Good(s, sc, w) ==
                /\ sc = "menu" => s \in Seq(MenuOps)
                /\ sc = "edit" => s \in Seq(EditOps)
                /\ sc = "game" => s \in Seq(GameOps) /\ Then(s, Named(Reads), Named({"loaded"}))
                /\ Has(s, Named({"create", "write"})) => w # 0
                /\ InOrder(s)
<1>1. SUFFICES Good(todo', screen', world')
    BY DEF Script
<1>2. 0 \notin Worlds /\ worldVersion \in [Worlds -> Nat] /\ worldExists \in [Worlds -> BOOLEAN]
      /\ (screen # "menu" => world # 0)
    BY WorldFilesAssumption DEF Types, TypeOK
<1>3. \A sc, w : Good(<<>>, sc, w)
    BY NothingToDo
<1>4. ASSUME NEW w \in Worlds, CreateWorld(w)
      PROVE  Good(todo', screen', world')
    <2>1. todo' = CreateScript /\ screen' = "game" /\ world' = w
        BY <1>4 DEF CreateWorld, CreateScript
    <2>2. /\ CreateScript \in Seq(GameOps) /\ InOrder(CreateScript)
          /\ ~Has(CreateScript, Named(Reads \cup {"loaded", "saved"}))
        BY CreateScriptIs
    <2>3. Then(CreateScript, Named(Reads), Named({"loaded"}))
        BY <2>2, HasNo, HasNone
    <2>. QED
        BY <2>1, <2>2, <2>3, <1>2
<1>5. ASSUME NEW w \in Worlds, OpenWorld(w)
      PROVE  Good(todo', screen', world')
    <2>1. todo' = loadAllChunk(worldVersion[w]) /\ screen' = "game" /\ world' = w
        BY <1>5 DEF OpenWorld
    <2>. DEFINE s == loadAllChunk(worldVersion[w])
    <2>2. s \in Seq(GameOps) /\ InOrder(s) /\ Then(s, Named(Reads), Named({"loaded"}))
        BY <1>2, OpenScriptIs
    <2>. HIDE DEF s
    <2>. QED
        BY <2>1, <2>2, <1>2 DEF s
<1>6. ASSUME NEW w \in Worlds, DeleteWorld(w)
      PROVE  Good(todo', screen', world')
    <2>1. todo' = <<Do("saveGame")>> /\ screen' = "menu"
        BY <1>6 DEF DeleteWorld, Idle
    <2>2. ~Has(<<Do("saveGame")>>, Named({"create", "write"}))
        BY MenuScriptsAre
    <2>. QED
        BY <2>1, <2>2, MenuScriptsAre
<1>7. ASSUME NEW w \in Worlds, RecoverWorld(w)
      PROVE  Good(todo', screen', world')
    <2>1. todo' = <<>>
        BY <1>7 DEF RecoverWorld, Idle
    <2>. QED
        BY <2>1, <1>3
<1>8. ASSUME NEW w \in Worlds, EditWorld(w)
      PROVE  Good(todo', screen', world')
    <2>1. todo' = loadWorldData /\ screen' = "edit" /\ world' = w
        BY <1>8 DEF EditWorld
    <2>. QED
        BY <2>1, <1>2, MenuScriptsAre
<1>9. CASE ConfirmEdit
    <2>1. /\ todo' = saveWorldData \o <<Do("saveGame")>> /\ screen' = "menu"
          /\ screen = "edit" /\ world' = world
        BY <1>9 DEF ConfirmEdit, Idle
    <2>. HIDE DEF Good
    <2>2. Good(saveWorldData \o <<Do("saveGame")>>, "menu", world)
        BY <2>1, <1>2, MenuScriptsAre DEF Good
    <2>. QED
        BY <2>1, <2>2
<1>10. CASE CancelEdit \/ Play \/ QuitWorld \/ Crash
    <2>1. todo' = <<>>
        BY <1>10 DEF CancelEdit, Play, QuitWorld, Crash, Leave, Idle
    <2>. QED
        BY <2>1, <1>3
<1>11. ASSUME NEW quit \in BOOLEAN, SaveWorld(quit)
       PROVE  Good(todo', screen', world')
    <2>1. /\ screen = "game" /\ screen' = screen /\ world' = world
          /\ todo' = saveAllChunk(worldExists[world])
               \o <<Do("list"), Do("saveGame"), Do("saved")>>
               \o (IF quit THEN <<Do("leave")>> ELSE <<>>)
        BY <1>11 DEF SaveWorld, Idle
    <2>2. worldExists[world] = TRUE
        BY <1>2, <2>1 DEF Listing, Types, TypeOK
    <2>3. todo' = SaveScript(quit)
        BY <2>1, <2>2 DEF SaveScript
    <2>. DEFINE s == SaveScript(quit)
    <2>4. /\ s \in Seq(GameOps) /\ InOrder(s)
          /\ ~Has(s, Named(Reads \cup {"loaded"}))
        BY Zenon, SaveScriptIs
    <2>5. Then(s, Named(Reads), Named({"loaded"}))
        BY <2>4, HasNo, HasNone
    <2>. HIDE DEF s
    <2>. QED
        BY <2>1, <2>3, <2>4, <2>5, <1>2 DEF s
<1>. QED
    BY <1>4, <1>5, <1>6, <1>7, <1>8, <1>9, <1>10, <1>11 DEF Screens

----------------------------------------------------------------------------
(* The list of worlds is kept.                                             *)

Fronts == {"create", "write", "delete", "saveGame"}

\* What a step leaves in the script.
LEMMA WorkTodo ==
    ASSUME Types, Script, Work
    PROVE  LET h == Head(todo)
               t == Tail(todo)
           IN  /\ \A A : Has(todo, A) <=> h \in A \/ Has(t, A)
               /\ \A N : h \in Named(N) <=> h.op \in N
               /\ \A n, f : h \in On(n, f) <=> h.op = n /\ h.file = f
               /\ h.op = "leave" => todo' = <<>> /\ \A A : ~Has(todo', A) /\ ~Has(t, A)
               /\ h.op # "leave" => \A A : Has(todo', A) <=> Has(Front, A) \/ Has(t, A)
               /\ \A N : N \cap Fronts = {} => ~Has(Front, Named(N))
               /\ \A N : N \cap Fronts = {} => (Has(todo', Named(N)) <=> Has(t, Named(N)))
<1>. DEFINE h == Head(todo)
            t == Tail(todo)
<1>1. /\ todo # <<>> /\ todo \in Seq(GameOps) /\ h \in Ops /\ t \in Seq(GameOps)
      /\ Front \in Using(Fronts) /\ Front \in Seq(GameOps)
    BY WorkDoes, HeadIs, FrontIs DEF Fronts
<1>2. \A A : Has(todo, A) <=> h \in A \/ Has(t, A)
    BY <1>1, HasTail
<1>3. (\A N : h \in Named(N) <=> h.op \in N) /\ \A n, f : h \in On(n, f) <=> h.op = n /\ h.file = f
    BY <1>1 DEF Named, On
<1>4. h.op # "leave" => \A A : Has(todo', A) <=> Has(Front, A) \/ Has(t, A)
    <2>1. h.op # "leave" => todo' = Front \o t
        BY WorkChanges
    <2>2. \A A : Has(Front \o t, A) <=> Has(Front, A) \/ Has(t, A)
        <3>. HIDE DEF t
        <3>. QED
            BY Zenon, <1>1, HasConcat
    <2>. HIDE DEF h, t
    <2>. QED
        BY Zenon, <2>1, <2>2
<1>5. \A N : N \cap Fronts = {} => ~Has(Front, Named(N))
    <2>1. Fronts \in SUBSET OpNames
        BY DEF Fronts, OpNames
    <2>. QED
        BY <2>1, <1>1, UsingIs
<1>6. h.op = "leave" => todo' = <<>> /\ \A A : ~Has(todo', A) /\ ~Has(t, A)
    <2>1. SUFFICES ASSUME h.op = "leave"
                   PROVE  todo' = <<>> /\ \A A : ~Has(todo', A) /\ ~Has(t, A)
        OBVIOUS
    <2>2. todo' = <<>>
        BY <2>1, WorkDoes DEF Leave
    <2>3. ~Has(t, Ops)
        <3>1. Never(todo, Named({"leave"}), Ops)
            BY DEF Script, InOrder
        <3>2. h \in Named({"leave"})
            BY <2>1, <1>3
        <3>. QED
            BY <3>1, <3>2, <1>1, NeverTail
    <2>4. \A A : ~Has(t, A)
        <3>1. \A i \in DOMAIN t : t[i] \in Ops
            <4>. HIDE DEF t
            <4>. QED
                BY <1>1 DEF GameOps
        <3>. QED
            BY <3>1, <2>3 DEF Has
    <2>. QED
        BY <2>2, <2>4, HasNothing
<1>7. \A N : N \cap Fronts = {} => (Has(todo', Named(N)) <=> Has(t, Named(N)))
    BY <1>4, <1>5, <1>6
<1>. QED
    BY <1>2, <1>3, <1>4, <1>5, <1>6, <1>7

\* A conversion has no save in front of it or after it.
LEMMA SavesDoNotConvert ==
    ASSUME Types, Script, Work, Saving
    PROVE  Head(todo).op \notin Reads \cup Conversions \cup {"loaded"}
<1>1. ~Has(todo, Named(Reads \cup Conversions \cup {"loaded"}))
    BY DEF Saving, Script, InOrder
<1>. QED
    BY <1>1, WorkTodo

LEMMA WorkListing ==
    ASSUME Types, Script, Listing, Work
    PROVE  Listing'
<1>. DEFINE h == Head(todo)
            t == Tail(todo)
<1>1. /\ \A A : Has(todo, A) <=> h \in A \/ Has(t, A)
      /\ \A N : h \in Named(N) <=> h.op \in N
      /\ h.op = "leave" => todo' = <<>> /\ \A A : ~Has(todo', A) /\ ~Has(t, A)
      /\ h.op # "leave" => \A A : Has(todo', A) <=> Has(Front, A) \/ Has(t, A)
      /\ \A N : N \cap Fronts = {} => (Has(todo', Named(N)) <=> Has(t, Named(N)))
    BY Zenon, WorkTodo
<1>2. /\ todo # <<>> /\ todo \in Seq(GameOps) /\ t \in Seq(GameOps) /\ h \in GameOps
      /\ h.op \notin {"create", "write", "saveGame", "load"} => world \in Worlds
    BY WorkDoes, HeadIs
<1>3. /\ h.op # "saveGame" => gameData' = gameData
      /\ h.op # "list" => worldExists' = worldExists
      /\ h.op \notin {"list", "setVersion4", "setVersion5"} => worldVersion' = worldVersion
      /\ h.op # "leave" => screen' = screen
      /\ world' = world
    BY WorkChanges
<1>4. /\ gameData \in [exists : [Worlds -> BOOLEAN], version : [Worlds -> Nat]]
      /\ worldExists \in [Worlds -> BOOLEAN] /\ worldVersion \in [Worlds -> Nat]
    BY DEF Types, TypeOK
<1>5. h.op = "list" => /\ worldExists' = [worldExists EXCEPT ![world] = TRUE]
                       /\ worldVersion' = [worldVersion EXCEPT ![world] = 5]
    BY WorkDoes DEF List, currentVersion
<1>6. h.op = "setVersion4" => worldVersion' = [worldVersion EXCEPT ![world] = 4]
    BY WorkDoes DEF SetVersion
<1>7. h.op = "setVersion5" => worldVersion' = [worldVersion EXCEPT ![world] = 5]
    BY WorkDoes DEF SetVersion, currentVersion
<1>8. /\ Then(todo, Named({"setVersion4", "setVersion5", "list"}), Named({"saveGame"}))
      /\ Then(todo, Named({"setVersion4"}), Named({"setVersion5"}))
    BY DEF Script, InOrder
<1>9. \/ gameData = [exists |-> worldExists, version |-> worldVersion]
      \/ Has(todo, Named({"saveGame"}))
    BY DEF Listing
<1>10. \/ gameData' = [exists |-> worldExists', version |-> worldVersion']
       \/ Has(todo', Named({"saveGame"}))
    <2>1. CASE h.op = "saveGame"
        BY <2>1, <1>3, WorkDoes DEF SaveGame
    <2>2. CASE h.op \in {"setVersion4", "setVersion5", "list"}
        <3>1. Has(t, Named({"saveGame"}))
            BY <2>2, <1>1, <1>2, <1>8, ThenTail
        <3>. QED
            BY <3>1, <2>2, <1>1
    <2>3. CASE h.op \notin {"saveGame", "setVersion4", "setVersion5", "list"}
        BY <2>3, <1>1, <1>3, <1>9
    <2>. QED
        BY <2>1, <2>2, <2>3
<1>11. ASSUME screen' = "game"
       PROVE  /\ worldExists'[world']
              /\ worldVersion'[world'] < 5 => Has(todo', Named({"setVersion5"}))
              /\ worldVersion'[world'] > 5 => todo' = <<>> \/ Has(todo', Named({"list"}))
              /\ \/ worldVersion'[world'] >= 4
                 \/ First(todo', Named({"setVersion4", "setVersion5"}), ChunkSaves)
    <2>1. h.op # "leave" /\ screen = "game"
        <3>1. h.op = "leave" => screen' = "menu"
            BY WorkDoes DEF Leave
        <3>. QED
            BY <3>1, <1>3, <1>11
    <2>2. /\ world \in Worlds /\ worldExists[world]
          /\ worldVersion[world] < 5 => Has(todo, Named({"setVersion5"}))
          /\ worldVersion[world] > 5 => Has(todo, Named({"list"}))
          /\ \/ worldVersion[world] >= 4
             \/ First(todo, Named({"setVersion4", "setVersion5"}), ChunkSaves)
        BY <2>1, <1>2 DEF Listing, Types, TypeOK
    <2>3. worldExists'[world']
        BY <2>2, <1>3, <1>4, <1>5
    <2>4. /\ worldVersion'[world'] < 5 => Has(todo', Named({"setVersion5"}))
          /\ worldVersion'[world'] > 5 => Has(todo', Named({"list"}))
        <3>1. CASE h.op = "setVersion4"
            <4>1. Has(t, Named({"setVersion5"}))
                BY <3>1, <1>1, <1>2, <1>8, ThenTail
            <4>2. worldVersion'[world'] = 4
                BY <3>1, <2>2, <1>3, <1>4, <1>6
            <4>. QED
                BY <4>1, <4>2, <2>1, <1>1
        <3>2. CASE h.op \in {"setVersion5", "list"}
            BY <3>2, <2>2, <1>3, <1>4, <1>5, <1>7
        <3>3. CASE h.op \notin {"setVersion4", "setVersion5", "list"}
            BY <3>3, <2>1, <2>2, <1>1, <1>3
        <3>. QED
            BY <3>1, <3>2, <3>3
    <2>5. \/ worldVersion'[world'] >= 4
          \/ First(todo', Named({"setVersion4", "setVersion5"}), ChunkSaves)
        <3>1. CASE h.op \in {"setVersion4", "setVersion5", "list"}
            BY <3>1, <2>2, <1>3, <1>4, <1>5, <1>6, <1>7
        <3>2. CASE h.op \notin {"setVersion4", "setVersion5", "list"} /\ worldVersion[world] >= 4
            BY <3>2, <1>3
        <3>3. CASE /\ h.op \notin {"setVersion4", "setVersion5", "list"}
                   /\ First(todo, Named({"setVersion4", "setVersion5"}), ChunkSaves)
            <4>. DEFINE V == Named({"setVersion4", "setVersion5"})
            <4>1. h \notin V
                BY <3>3, <1>1
            <4>2. h \notin ChunkSaves /\ First(t, V, ChunkSaves)
                <5>. HIDE DEF V
                <5>. QED
                    BY <3>3, <4>1, <1>2, FirstTail DEF V
            <4>3. ~Has(Front, ChunkSaves)
                <5>1. CASE h.op = "fit"
                    <6>1. h \in ChunkSaves
                        BY <5>1, <1>2, FilesAre DEF ChunkSaves, GameOps, FilesFor
                    <6>. QED
                        BY <6>1, <4>2
                <5>2. CASE h.op # "fit"
                    BY <5>2, <1>2, FrontIs
                <5>. QED
                    BY <5>1, <5>2
            <4>4. First(Front, V, ChunkSaves)
                BY <4>3, HasNone
            <4>5. todo' = Front \o t /\ Front \in Seq(GameOps)
                BY <2>1, <1>2, WorkChanges, FrontIs
            <4>6. First(Front \o t, V, ChunkSaves)
                <5>. HIDE DEF V, t
                <5>. QED
                    BY <4>2, <4>4, <4>5, <1>2, FirstConcat
            <4>. QED
                BY <4>5, <4>6
        <3>. QED
            BY <3>1, <3>2, <3>3, <2>2
    <2>. QED
        BY <2>3, <2>4, <2>5
<1>12. ASSUME Saving'
       PROVE  /\ worldVersion'[world'] = 5 \/ Has(todo', Named({"list"}))
              /\ saved'[world'] # {} =>
                    worldVersion'[world'] = 5 /\ gameData'.version[world'] = 5
    <2>1. Has(todo', Named({"saved"})) /\ Fronts \cap {"saved"} = {}
        BY <1>12 DEF Saving, Fronts
    <2>2. Has(t, Named({"saved"})) /\ Saving
        BY <2>1, <1>1 DEF Saving
    <2>3. h.op \notin {"setVersion4", "setVersion5"}
        BY <2>2, SavesDoNotConvert DEF Conversions
    <2>4. /\ worldVersion[world] = 5 \/ Has(todo, Named({"list"}))
          /\ saved[world] # {} => worldVersion[world] = 5 /\ gameData.version[world] = 5
        BY <2>2 DEF Listing
    <2>5. worldVersion'[world'] = 5 \/ Has(todo', Named({"list"}))
        <3>1. CASE h.op = "list"
            BY <3>1, <1>2, <1>3, <1>4, <1>5
        <3>2. CASE h.op # "list"
            <4>1. worldVersion' = worldVersion /\ world' = world
                BY <3>2, <2>3, <1>3
            <4>2. h \notin Named({"list"}) /\ {"list"} \cap Fronts = {}
                BY <3>2, <1>1 DEF Fronts
            <4>. QED
                BY <4>1, <4>2, <2>4, <1>1
        <3>. QED
            BY <3>1, <3>2
    <2>6. saved' = saved
        <3>1. h.op # "saved"
            <4>1. Never(todo, Named(Promises), Named(OpNames \ {"leave"}))
                BY DEF Script, InOrder
            <4>2. h.op = "saved" => ~Has(t, Named(OpNames \ {"leave"}))
                BY <4>1, <1>1, <1>2, NeverTail DEF Promises
            <4>3. ~Has(t, Named(OpNames \ {"leave"})) => ~Has(t, Named({"saved"}))
                BY HasNo DEF OpNames
            <4>. QED
                BY <4>2, <4>3, <2>2
        <3>2. h.op \notin {"loaded", "made", "saved"}
            BY <3>1, <2>2, SavesDoNotConvert DEF Conversions
        <3>. QED
            BY <3>2, WorkChanges
    <2>7. saved[world] # {} => worldVersion'[world] = 5
        BY <2>3, <2>4, <1>2, <1>3, <1>4, <1>5
    <2>8. h.op = "saveGame" => gameData'.version = worldVersion
        BY WorkDoes DEF SaveGame
    <2>. QED
        BY <2>4, <2>5, <2>6, <2>7, <2>8, <1>3
<1>. QED
    BY <1>10, <1>11, <1>12 DEF Listing, Saving

LEMMA ScreenListing ==
    ASSUME Types, Listing, Screens
    PROVE  Listing'
<1>. DEFINE Equal == gameData = [exists |-> worldExists, version |-> worldVersion]
<1>1. /\ gameData \in [exists : [Worlds -> BOOLEAN], version : [Worlds -> Nat]]
      /\ worldExists \in [Worlds -> BOOLEAN] /\ worldVersion \in [Worlds -> Nat]
      /\ world \in Worlds \cup {0} /\ (screen # "menu" => world \in Worlds)
    BY DEF Types, TypeOK
<1>2. todo = <<>> => Equal
    BY NothingToDo DEF Listing
<1>3. \A A : ~Has(<<>>, A)
    BY NothingToDo
<1>4. ASSUME NEW w \in Worlds, CreateWorld(w)
      PROVE  Listing'
    <2>1. /\ todo' = CreateScript /\ world' = w
          /\ worldExists' = [worldExists EXCEPT ![w] = TRUE]
          /\ worldVersion' = [worldVersion EXCEPT ![w] = 5]
        BY <1>4 DEF CreateWorld, CreateScript, currentVersion
    <2>2. Has(CreateScript, Named({"saveGame"})) /\ ~Has(CreateScript, Named({"saved"}))
        BY CreateScriptIs, HasNo
    <2>. QED
        BY <2>1, <2>2, <1>1 DEF Listing, Saving
<1>5. ASSUME NEW w \in Worlds, OpenWorld(w)
      PROVE  Listing'
    <2>1. /\ todo' = loadAllChunk(worldVersion[w]) /\ world' = w /\ worldExists[w] /\ todo = <<>>
          /\ gameData' = gameData /\ worldExists' = worldExists /\ worldVersion' = worldVersion
        BY <1>5 DEF OpenWorld, Idle
    <2>. DEFINE v == worldVersion[w]
    <2>2. /\ v \in Nat
          /\ ~Has(loadAllChunk(v), Named({"saved"}))
          /\ v > 5 => loadAllChunk(v) = <<>>
          /\ v < 5 => Has(loadAllChunk(v), Named({"setVersion5"}))
          /\ v < 4 => First(loadAllChunk(v), Named({"setVersion4", "setVersion5"}), ChunkSaves)
        BY <1>1, OpenScriptIs
    <2>. QED
        BY <2>1, <2>2, <1>2 DEF Listing, Saving
<1>6. ASSUME NEW w \in Worlds, DeleteWorld(w)
      PROVE  Listing'
    <2>1. todo' = <<Do("saveGame")>> /\ screen' = "menu"
        BY <1>6 DEF DeleteWorld, Idle
    <2>2. Has(todo', Named({"saveGame"})) /\ ~Has(todo', Named({"saved"}))
        BY <2>1, MenuScriptsAre
    <2>. QED
        BY <2>1, <2>2 DEF Listing, Saving
<1>7. ASSUME NEW w \in Worlds, RecoverWorld(w) \/ EditWorld(w)
      PROVE  Listing'
    <2>1. /\ todo = <<>> /\ todo' \in {<<>>, loadWorldData} /\ screen' = "edit"
          /\ gameData' = gameData /\ worldExists' = worldExists /\ worldVersion' = worldVersion
        BY <1>7 DEF RecoverWorld, EditWorld, Idle
    <2>2. ~Has(todo', Named({"saved"}))
        BY <2>1, <1>3, MenuScriptsAre
    <2>. QED
        BY <2>1, <2>2, <1>2 DEF Listing, Saving
<1>8. CASE ConfirmEdit
    <2>1. todo' = saveWorldData \o <<Do("saveGame")>> /\ screen' = "menu"
        BY <1>8 DEF ConfirmEdit
    <2>2. Has(todo', Named({"saveGame"})) /\ ~Has(todo', Named({"saved"}))
        BY <2>1, MenuScriptsAre
    <2>. QED
        BY <2>1, <2>2 DEF Listing, Saving
<1>9. CASE CancelEdit \/ Play \/ QuitWorld
    <2>1. /\ todo = <<>> /\ todo' = <<>> /\ world' = world
          /\ screen' = "menu" \/ (screen = "game" /\ screen' = "game")
          /\ gameData' = gameData /\ worldExists' = worldExists /\ worldVersion' = worldVersion
        BY <1>9 DEF CancelEdit, Play, QuitWorld, Leave, Idle
    <2>2. ~Has(todo', Named({"saved"}))
        BY <2>1, <1>3
    <2>. QED
        BY <2>1, <2>2, <1>2, <1>3 DEF Listing, Saving
<1>10. ASSUME NEW quit \in BOOLEAN, SaveWorld(quit)
       PROVE  Listing'
    <2>1. /\ todo = <<>> /\ screen = "game" /\ screen' = screen /\ world' = world
          /\ gameData' = gameData /\ worldExists' = worldExists /\ worldVersion' = worldVersion
        BY <1>10 DEF SaveWorld, Idle
    <2>2. /\ worldExists[world] /\ worldVersion[world] >= 5 /\ gameData.version = worldVersion
          /\ world \in Worlds
        BY <2>1, <1>1, <1>2, <1>3 DEF Listing
    <2>3. Equal
        BY <2>1, <1>2
    <2>4. todo' = SaveScript(quit)
        BY <1>10, <2>2 DEF SaveWorld, SaveScript
    <2>5. Has(todo', Named({"list"}))
        BY <2>4, SaveScriptIs
    <2>6. worldVersion[world] > 5 => saved'[world] = {}
        BY <1>10, <2>2 DEF SaveWorld, Types, currentVersion
    <2>7. worldVersion[world] = 5 \/ worldVersion[world] > 5
        BY <1>1, <2>2
    <2>8. /\ worldVersion'[world'] = 5 \/ Has(todo', Named({"list"}))
          /\ ~(worldVersion'[world'] < 5) /\ worldVersion'[world'] >= 4
          /\ saved'[world'] # {} => worldVersion'[world'] = 5 /\ gameData'.version[world'] = 5
        BY <2>1, <2>2, <2>5, <2>6, <2>7, <1>1
    <2>. QED
        BY <2>1, <2>2, <2>3, <2>5, <2>8 DEF Listing
<1>11. CASE Crash
    <2>1. /\ todo' = <<>> /\ screen' = "menu" /\ gameData' = gameData
          /\ worldExists' = gameData.exists /\ worldVersion' = gameData.version
        BY <1>11 DEF Crash
    <2>2. ~Has(todo', Named({"saved"}))
        BY <2>1, <1>3
    <2>3. gameData = [exists |-> gameData.exists, version |-> gameData.version]
        BY <1>1
    <2>. QED
        BY <2>1, <2>2, <2>3 DEF Listing, Saving
<1>. QED
    BY <1>4, <1>5, <1>6, <1>7, <1>8, <1>9, <1>10, <1>11 DEF Screens

----------------------------------------------------------------------------
(* Nothing of another world.                                               *)

Mixable == {f \in Files : f[1] \in {"playerData", "entityData", "chunk"}}
Clean(m) ==
    /\ m.player.of \in Own /\ m.entities.of \in Own
    /\ \A c \in Chunks : m.blocks[c].of \in Own

LEMMA CleanIs ==
    ASSUME NEW m
    PROVE  Clean(m) <=> \A f \in Mixable : MainPart(m, f).of \in Own
<1>1. \A f \in Mixable : \/ f = <<"playerData", 0>> \/ f = EntityData
                          \/ \E c \in Chunks : f = <<"chunk", c>>
    BY FileKinds DEF Mixable, WorldData
<1>2. /\ <<"playerData", 0>> \in Mixable /\ EntityData \in Mixable
      /\ \A c \in Chunks : <<"chunk", c>> \in Mixable
    BY DEF Mixable, Files, EntityData
<1>3. ASSUME Clean(m), NEW f \in Mixable
      PROVE  MainPart(m, f).of \in Own
    <2>1. CASE f = <<"playerData", 0>> \/ f = EntityData
        BY <2>1, <1>3, MainPartIs DEF Clean
    <2>2. CASE \E c \in Chunks : f = <<"chunk", c>>
        BY <2>2, <1>3, MainPartIs DEF Clean
    <2>. QED
        BY <1>1, <2>1, <2>2
<1>4. ASSUME \A f \in Mixable : MainPart(m, f).of \in Own
      PROVE  Clean(m)
    <2>1. m.player.of \in Own /\ m.entities.of \in Own
        BY <1>2, <1>4, MainPartIs
    <2>2. \A c \in Chunks : m.blocks[c].of \in Own
        BY <1>2, <1>4, MainPartIs
    <2>. QED
        BY <2>1, <2>2 DEF Clean
<1>. QED
    BY <1>3, <1>4

LEMMA WorkApart ==
    ASSUME Types, Script, Apart, Work
    PROVE  Apart'
<1>. DEFINE h == Head(todo)
            f == h.file
<1>1. /\ todo # <<>> /\ h.op \in OpNames /\ f \in Files
      /\ h.op \notin {"create", "write", "saveGame", "load"} => screen = "game"
      /\ screen = "menu" => h \in MenuOps
      /\ screen = "edit" => h \in EditOps
      /\ screen \in {"menu", "edit", "game"}
    BY WorkDoes, HeadIs DEF Types, TypeOK
<1>2. (\A g \in Mixable : MainPart(mem, g).of \in Own) /\ NothingFromAnotherWorld
    BY CleanIs DEF Apart, Clean
<1>3. /\ world' = world /\ (h.op # "leave" => screen' = screen)
      /\ h.op \notin Reads \cup {"replaceOldWater", "leave"} => mem' = mem
    BY WorkChanges
<1>4. world \in Worlds => \A g \in Mixable : Entry(g).main.of \in {0, world}
    BY <1>2 DEF NothingFromAnotherWorld, Mixable, Entry
<1>5. f \in Mixable /\ h.op \in Reads \cup {"create", "write"} => screen = "game"
    <2>1. WorldData \notin Mixable
        BY DEF Mixable, WorldData
    <2>. QED
        BY <2>1, <1>1 DEF MenuOps, EditOps
<1>6. screen = "game" => world \in Worlds /\ Own = {0, world}
    BY DEF Types, TypeOK, Own
<1>7. NothingFromAnotherWorld'
    <2>1. \A w \in Worlds, g \in Mixable : disk[w][g].main.of \in {0, w}
        BY <1>2 DEF NothingFromAnotherWorld, Mixable
    <2>2. ASSUME NEW w \in Worlds, NEW g \in Mixable
          PROVE  disk'[w][g].main.of \in {0, w}
        <3>0. g \in Files
            BY DEF Mixable
        <3>1. CASE w # world \/ g # f \/ h.op \notin {"create", "write", "delete"}
            <4>1. disk'[w][g] = disk[w][g]
                BY Zenon, <3>0, <3>1, WorkOnDisk
            <4>. QED
                BY <4>1, <2>1
        <3>2. CASE w = world /\ g = f /\ h.op = "delete"
            <4>1. disk'[w][g] = Missing
                BY Zenon, <3>2, WorkOnDisk
            <4>. QED
                BY <4>1, FileTypesAre, StampsAre
        <3>3. CASE w = world /\ g = f /\ h.op = "create"
            <4>1. Fresh(disk'[w][g], Content(mem, f).room) \/ disk'[w][g] = disk[w][g]
                BY <3>3, WorkOnDisk
            <4>. QED
                BY <4>1, <2>1, StampsAre DEF Fresh
        <3>4. CASE w = world /\ g = f /\ h.op = "write"
            <4>1. Written(disk'[w][g], Entry(f), f) \/ disk'[w][g] = disk[w][g]
                BY <3>4, WorkOnDisk
            <4>2. MainPart(mem, f).of \in {0, w}
                BY <3>4, <1>2, <1>5, <1>6
            <4>. QED
                BY <4>1, <4>2, <2>1 DEF Written
        <3>. QED
            BY <3>1, <3>2, <3>3, <3>4
    <2>. QED
        BY <2>2 DEF NothingFromAnotherWorld, Mixable
<1>8. Clean(mem)'
    <2>1. CASE h.op = "leave"
        <3>1. mem' = Filled(mem, Blank)
            BY Zenon, <2>1, WorkDoes DEF Leave, Filled
        <3>2. /\ mem'.player = Blank /\ mem'.entities = Blank
              /\ \A c \in Chunks : mem'.blocks[c] = Blank
            BY <3>1, FilledIs, StampsAre DEF Types, TypeOK
        <3>. QED
            BY <3>2, StampsAre DEF Clean, Own
    <2>2. ASSUME h.op # "leave", \A g \in Mixable : MainPart(mem', g).of \in Own
          PROVE  Clean(mem)'
        <3>1. Own' = Own
            BY <2>2, <1>3 DEF Own
        <3>2. Clean(mem')
            BY <2>2, CleanIs
        <3>. QED
            BY <3>1, <3>2 DEF Clean
    <2>3. CASE h.op \notin Reads \cup {"replaceOldWater", "leave"}
        BY <2>2, <2>3, <1>2, <1>3
    <2>4. CASE h.op = "replaceOldWater"
        <3>1. mem' = Dry(mem)
            BY <2>4, WorkDoes DEF replaceOldWater, Dry
        <3>2. \A g \in Mixable : g \in Listed
            BY DEF Mixable, Listed
        <3>3. \A g \in Mixable : MainPart(mem', g) = MainPart(mem, g)
            BY <3>1, <3>2, WetIs DEF Types, TypeOK
        <3>. QED
            BY <2>2, <2>4, <3>3, <1>2
    <2>5. CASE h.op \in Reads
        <3>. DEFINE file == Entry(f)
        <3>1. ASSUME NEW a \in {file.main, Garbled}, NEW g \in Mixable,
                     \/ MainPart(mem', g) = MainPart(mem, g)
                     \/ MainPart(mem', g) = a /\ g = f
              PROVE  MainPart(mem', g).of \in Own
            <4>1. CASE MainPart(mem', g) = MainPart(mem, g)
                BY <4>1, <1>2
            <4>2. CASE MainPart(mem', g) = a /\ g = f
                <5>1. screen = "game"
                    BY <4>2, <2>5, <1>5
                <5>2. file.main.of \in Own
                    BY <4>2, <5>1, <1>4, <1>6
                <5>3. a.of \in Own
                    BY <5>2, StampsAre DEF Own
                <5>. QED
                    BY <4>2, <5>3
            <4>. QED
                BY <3>1, <4>1, <4>2
        <3>2. CASE mem' = mem
            BY <2>2, <2>5, <3>2, <1>2 DEF Reads
        <3>3. CASE mem' # mem
            <4>1. \E a \in {file.main, Garbled} : \A g \in Mixable :
                     \/ MainPart(mem', g) = MainPart(mem, g)
                     \/ MainPart(mem', g) = a /\ g = f
                <5>1. \A g \in Mixable : g \in Files /\ \A c \in Chunks : g # <<"chunkED", c>>
                    BY DEF Mixable
                <5>2. CASE h.op = "load"
                    <6>1. PICK a \in {file.main, Garbled}, b \in {file.extra, Garbled} :
                              Read(mem', f, a, b)
                        BY <5>2, <3>3, WorkInMemory
                    <6>. QED
                        BY <6>1, <5>1 DEF Read, Changed
                <5>3. CASE h.op \in {"loadV4", "loadRaw"}
                    <6>1. PICK a \in {file.main, Garbled} : ReadMain(mem', f, a)
                        BY <5>3, <3>3, WorkInMemory
                    <6>. QED
                        BY <6>1, <5>1 DEF ReadMain, Changed
                <5>. QED
                    BY <5>2, <5>3, <2>5 DEF Reads
            <4>2. \A g \in Mixable : MainPart(mem', g).of \in Own
                BY <4>1, <3>1
            <4>. QED
                BY <2>2, <2>5, <4>2 DEF Reads
        <3>. QED
            BY <3>2, <3>3
    <2>. QED
        BY <2>1, <2>3, <2>4, <2>5
<1>. QED
    BY <1>7, <1>8 DEF Apart, Clean

LEMMA ScreenApart ==
    ASSUME Types, Apart, Screens
    PROVE  Apart'
<1>1. disk' = disk
    BY DEF Screens, CreateWorld, OpenWorld, DeleteWorld, RecoverWorld, EditWorld,
           ConfirmEdit, CancelEdit, Play, SaveWorld, QuitWorld, Leave, Crash
<1>2. NothingFromAnotherWorld'
    BY <1>1 DEF Apart, NothingFromAnotherWorld
<1>3. /\ mem \in Parts /\ Clean(mem)
      /\ screen # "menu" => world \in Worlds
      /\ screen \in {"menu", "edit", "game"}
    BY DEF Types, TypeOK, Apart, Clean
<1>. SUFFICES Clean(mem)'
    BY <1>2 DEF Apart, Clean
<1>4. ASSUME NEW w \in Worlds, CreateWorld(w)
      PROVE  Clean(mem)'
    <2>1. /\ mem' = Filled(mem, Made(w, now + 1)) /\ now < MaxStamp
          /\ world' = w /\ screen' = "game"
        BY Zenon, <1>4 DEF CreateWorld, Filled
    <2>. DEFINE s == Made(w, now + 1)
    <2>2. s \in Stamps /\ s.of = w
        BY <2>1, MadeIs
    <2>. HIDE DEF s
    <2>3. mem' = Filled(mem, s)
        BY <2>1 DEF s
    <2>4. mem'.player = s /\ mem'.entities = s /\ \A c \in Chunks : mem'.blocks[c] = s
        BY <2>2, <2>3, <1>3, FilledIs
    <2>. QED
        BY <2>1, <2>2, <2>4 DEF Clean, Own
<1>5. ASSUME mem' = mem, screen' = "game" /\ screen = "game" => world' = world,
             screen = "game" => screen' = "game"
      PROVE  Clean(mem)'
    <2>1. Own \subseteq Own'
        BY <1>5 DEF Own
    <2>. QED
        BY <2>1, <1>3, <1>5 DEF Clean
<1>6. ASSUME NEW w \in Worlds, OpenWorld(w) \/ DeleteWorld(w) \/ RecoverWorld(w) \/ EditWorld(w)
      PROVE  Clean(mem)'
    <2>1. screen = "menu" /\ mem' = mem
        BY <1>6 DEF OpenWorld, DeleteWorld, RecoverWorld, EditWorld, Idle
    <2>. QED
        BY <2>1, <1>5
<1>7. CASE CancelEdit \/ \E quit \in BOOLEAN : SaveWorld(quit)
    <2>1. /\ mem' = mem /\ world' = world
          /\ (screen = "edit" /\ screen' = "menu") \/ screen' = screen
        BY <1>7 DEF CancelEdit, SaveWorld, Idle
    <2>. QED
        BY <2>1, <1>5
<1>8. CASE ConfirmEdit
    <2>. DEFINE info == Made(world, now + 1)
    <2>1. /\ now < MaxStamp /\ screen = "edit" /\ mem' = SetMain(mem, WorldData, info)
          /\ screen' = "menu"
        BY <1>8 DEF ConfirmEdit, SetMain, WorldData, Idle
    <2>2. info \in Stamps
        BY <2>1, <1>3, MadeIs
    <2>. HIDE DEF info
    <2>3. \A g \in Files : Changed(MainPart(mem', g), MainPart(mem, g), info, g = WorldData)
        BY <2>1, <2>2, <1>3, StoredMain, FilesAre
    <2>4. \A g \in Mixable : MainPart(mem', g) = MainPart(mem, g)
        BY <2>3 DEF Mixable, Changed, WorldData
    <2>5. Own' = Own
        BY <2>1 DEF Own
    <2>6. Clean(mem')
        BY <2>4, <1>3, CleanIs
    <2>. QED
        BY <2>5, <2>6 DEF Clean
<1>9. CASE Play
    <2>1. /\ now < MaxStamp /\ screen = "game" /\ world' = world /\ screen' = screen
          /\ \E u \in BOOLEAN : mem' = Played(mem, Made(world, now + 1), u)
        BY Zenon, <1>9 DEF Play, Played, Idle
    <2>. DEFINE s == Made(world, now + 1)
    <2>2. s \in Stamps /\ s.of = world
        BY <2>1, <1>3, MadeIs
    <2>. HIDE DEF s
    <2>3. PICK u \in BOOLEAN : mem' = Played(mem, s, u)
        BY <2>1 DEF s
    <2>4. mem'.player = s /\ mem'.entities = s /\ \A c \in Chunks : mem'.blocks[c] = s
        BY <2>2, <2>3, <1>3, PlayedIs
    <2>. QED
        BY <2>1, <2>2, <2>4 DEF Clean, Own
<1>10. CASE QuitWorld
    <2>1. mem' = Filled(mem, Blank)
        BY Zenon, <1>10 DEF QuitWorld, Leave, Filled
    <2>2. mem'.player = Blank /\ mem'.entities = Blank /\ \A c \in Chunks : mem'.blocks[c] = Blank
        BY <2>1, <1>3, FilledIs, StampsAre
    <2>. QED
        BY <2>2, StampsAre DEF Clean, Own
<1>11. CASE Crash
    <2>1. mem' = BootMemory
        BY <1>11 DEF Crash
    <2>. QED
        BY <2>1, BootIs, StampsAre DEF Clean, Own
<1>. QED
    BY <1>4, <1>6, <1>7, <1>8, <1>9, <1>10, <1>11 DEF Screens

----------------------------------------------------------------------------
(* What the files of a world hold.                                         *)

LEMMA ChunksAreFinite == IsFiniteSet(ChunkFiles)
<1>1. WorldChunks \in Nat
    BY WorldFilesAssumption
<1>2. IsFiniteSet(Chunks)
    BY <1>1, FS_Interval DEF Chunks
<1>3. IsFiniteSet({"chunk"})
    BY FS_Singleton
<1>. QED
    BY <1>2, <1>3, FS_Product DEF ChunkFiles

LEMMA SameFormIs ==
    ASSUME NEW v1 \in Nat, NEW v2 \in Nat, SameForm(v1, v2)
    PROVE  /\ FilesOf(v1) = FilesOf(v2) /\ \A f \in Files : FormOf(v1, f) = FormOf(v2, f)
           /\ v1 = 5 <=> v2 = 5
           /\ v1 >= 4 => v2 = v1
<1>1. \/ v1 = v2
      \/ v1 < 2 /\ v2 < 2
      \/ v1 \in 2..3 /\ v2 \in 2..3
    BY DEF SameForm
<1>2. FilesOf(v1) = FilesOf(v2)
    <2>1. CASE v1 = v2
        BY <2>1
    <2>2. CASE v1 < 2 /\ v2 < 2
        <3>1. ~(v1 >= 4) /\ ~(v2 >= 4) /\ ~(v1 >= 2) /\ ~(v2 >= 2)
            BY <2>2
        <3>. QED
            BY <3>1 DEF FilesOf
    <2>3. CASE v1 \in 2..3 /\ v2 \in 2..3
        <3>1. ~(v1 >= 4) /\ ~(v2 >= 4) /\ v1 >= 2 /\ v2 >= 2
            BY <2>3
        <3>. QED
            BY <3>1 DEF FilesOf
    <2>. QED
        BY <1>1, <2>1, <2>2, <2>3
<1>3. /\ v1 < 4 <=> v2 < 4
      /\ v1 < 5 <=> v2 < 5
      /\ v1 > currentVersion <=> v2 > currentVersion
    BY <1>1 DEF currentVersion
<1>4. \A f \in Files : FormOf(v1, f) = FormOf(v2, f)
    BY <1>3 DEF FormOf
<1>. QED
    BY <1>1, <1>2, <1>4

LEMMA SameFormTwice ==
    ASSUME NEW v1 \in Nat, NEW v2 \in Nat, NEW v3 \in Nat, SameForm(v1, v3), SameForm(v2, v3)
    PROVE  SameForm(v1, v2)
    BY DEF SameForm

\* The files of a version.
LEMMA FilesOfIs ==
    ASSUME NEW v \in Nat
    PROVE  /\ FilesOf(v) \subseteq Files /\ ChunkFiles \subseteq FilesOf(v)
           /\ WorldData \in FilesOf(v)
           /\ <<"playerData", 0>> \in FilesOf(v) /\ <<"chestData", 0>> \in FilesOf(v)
           /\ EntityData \in FilesOf(v) <=> v >= 4
           /\ v >= 4 => FilesOf(v) = Listed
<1>1. v >= 4 => FilesOf(v) = Listed
    BY DEF FilesOf
<1>2. ~(v >= 4) => FilesOf(v) = {f \in Files : f[1] # "entityData" /\ (f[1] = "chunkED" => v >= 2)}
    BY DEF FilesOf
<1>3. \A f \in ChunkFiles : f[1] = "chunk" /\ f \in Files
    BY FilesAre
<1>. QED
    BY <1>1, <1>2, <1>3, FilesAre DEF WorldData, EntityData

\* What every file of a world that is promised something is.
LEMMA HeldIs ==
    ASSUME Types, NEW w \in Worlds, saved[w] # {}, VersionsAgree(w), FilesHeld(w),
           NEW v \in {worldVersion[w], gameData.version[w]},
           NEW f \in FilesOf(v)
    PROVE  /\ \A s \in saved[w] : \A g \in Files : FormOf(s.version, g) = FormOf(v, g)
           /\ \A s \in saved[w] : FilesOf(s.version) = FilesOf(v)
           /\ \/ disk[w][f].cut
              \/ f \in LostChunks(w)
              \/ \E s \in saved[w] : Holds(s, f, disk[w][f])
<1>1. /\ \A s \in saved[w] : s.version \in Nat
      /\ v \in Nat
    BY DEF Types, TypeOK, Snapshots
<1>2. ASSUME NEW s \in saved[w]
      PROVE  /\ \A g \in Files : FormOf(s.version, g) = FormOf(v, g)
             /\ FilesOf(s.version) = FilesOf(v)
    <2>1. SameForm(s.version, v)
        BY DEF VersionsAgree
    <2>. QED
        BY <1>1, <2>1, SameFormIs
<1>3. CASE f \in ChunkFiles
    BY <1>2, <1>3 DEF LostChunks
<1>4. CASE f \notin ChunkFiles
    <2>1. PICK t \in saved[w] : TRUE
        OBVIOUS
    <2>2. f \in FilesOf(t.version) \ ChunkFiles
        BY <1>2, <1>4
    <2>. QED
        BY <1>2, <2>1, <2>2 DEF FilesHeld
<1>. QED
    BY <1>3, <1>4

LEMMA FewerLost ==
    ASSUME NEW A \in SUBSET ChunkFiles, NEW B \in SUBSET A
    PROVE  /\ Cardinality(A) \in Nat /\ Cardinality(B) \in Nat
           /\ Cardinality(B) <= Cardinality(A)
<1>1. IsFiniteSet(A)
    BY ChunksAreFinite, FS_Subset
<1>. QED
    BY <1>1, FS_Subset, FS_CardinalityType

\* One file of the worlds changes, and no snapshot is forgotten.
LEMMA FewLostKept ==
    ASSUME NEW w \in Worlds, begun[w] \in Nat, FewLost(w), begun'[w] = begun[w],
           AtRisk(w)' \subseteq AtRisk(w),
           Saving' /\ w = world' => Saving /\ w = world
    PROVE  FewLost(w)'
<1>. DEFINE m == IF Saving /\ w = world THEN 1 ELSE 0
            n == IF Saving' /\ w = world' THEN 1 ELSE 0
<1>1. AtRisk(w) \subseteq ChunkFiles
    BY DEF AtRisk, LostChunks
<1>2. n <= m /\ m \in Nat /\ n \in Nat
    OBVIOUS
<1>3. /\ Cardinality(AtRisk(w)) \in Nat /\ Cardinality(AtRisk(w)') \in Nat
      /\ Cardinality(AtRisk(w)') <= Cardinality(AtRisk(w))
    BY <1>1, FewerLost
<1>4. Cardinality(AtRisk(w)) + m <= begun[w]
    BY DEF FewLost
<1>5. Cardinality(AtRisk(w)') + n <= begun'[w]
    <2>. HIDE DEF m, n
    <2>. QED
        BY <1>2, <1>3, <1>4
<1>. QED
    BY <1>5 DEF FewLost

LEMMA AtRiskIs ==
    ASSUME NEW w
    PROVE  /\ AtRisk(w) \subseteq LostChunks(w)
           /\ ~Saving \/ w # world \/ Head(todo).file \notin ChunkFiles => AtRisk(w) = LostChunks(w)
    BY DEF AtRisk, LostChunks

\* When a world keeps what it is promised.
LEMMA KeptBy ==
    ASSUME Types, NEW w \in Worlds, Kept(w), saved'[w] = saved[w], begun'[w] = begun[w],
           worldVersion'[w] \in {worldVersion[w], gameData.version[w]},
           gameData'.version[w] \in {worldVersion[w], gameData.version[w]},
           Saving' /\ w = world' => Saving /\ w = world,
           saved[w] # {} =>
              /\ \A f \in Files \ ChunkFiles :
                    \/ disk'[w][f] = disk[w][f] \/ disk'[w][f].cut
                    \/ \E s \in saved[w] : Holds(s, f, disk'[w][f])
              /\ \A f \in ChunkFiles : disk'[w][f] = disk[w][f] \/ ~disk'[w][f].cut
              /\ AtRisk(w)' \subseteq AtRisk(w)
    PROVE  Kept(w)'
<1>. SUFFICES ASSUME saved'[w] # {}
              PROVE  (VersionsAgree(w) /\ FilesHeld(w) /\ FewLost(w) /\ WholeChunks(w))'
    BY DEF Kept
<1>1. saved[w] # {} /\ VersionsAgree(w) /\ FilesHeld(w) /\ FewLost(w) /\ WholeChunks(w)
    BY DEF Kept
<1>2. VersionsAgree(w)'
    BY <1>1 DEF VersionsAgree
<1>3. FilesHeld(w)'
    <2>1. ASSUME NEW t \in saved[w], NEW f \in FilesOf(t.version) \ ChunkFiles
          PROVE  disk'[w][f].cut \/ \E s \in saved[w] : Holds(s, f, disk'[w][f])
        <3>1. f \in Files \ ChunkFiles
            BY FilesOfIs DEF Types, Snapshots
        <3>2. disk[w][f].cut \/ \E s \in saved[w] : Holds(s, f, disk[w][f])
            BY <1>1 DEF FilesHeld
        <3>. QED
            BY <3>1, <3>2, <1>1
    <2>. QED
        BY <2>1 DEF FilesHeld
<1>4. FewLost(w)'
    <2>1. begun[w] \in Nat
        BY DEF Types
    <2>. QED
        BY <1>1, <2>1, FewLostKept
<1>5. WholeChunks(w)'
    BY <1>1 DEF WholeChunks
<1>. QED
    BY <1>2, <1>3, <1>4, <1>5

LEMMA LostSame ==
    ASSUME NEW w, saved'[w] = saved[w],
           \A f \in ChunkFiles : disk'[w][f] = disk[w][f]
    PROVE  LostChunks(w)' = LostChunks(w)
    BY DEF LostChunks

LEMMA WorkKeptElsewhere ==
    ASSUME Types, Script, Work, NEW w \in Worlds, w # world, Kept(w)
    PROVE  Kept(w)'
<1>. DEFINE h == Head(todo)
<1>1. /\ world' = world
      /\ h.op # "saveGame" => gameData' = gameData
      /\ h.op \notin {"list", "setVersion4", "setVersion5"} => worldVersion' = worldVersion
      /\ h.op \notin {"loaded", "made", "saved"} => saved' = saved
      /\ h.op \notin {"made", "saved"} => begun' = begun
    BY WorkChanges
<1>2. /\ saved \in [Worlds -> SUBSET Snapshots] /\ begun \in [Worlds -> Nat]
      /\ worldVersion \in [Worlds -> Nat]
    BY DEF Types, TypeOK
<1>3. saved'[w] = saved[w]
    <2>1. CASE h.op = "loaded"
        <3>1. saved' = saved \/ saved' = [saved EXCEPT ![world] = {}]
            BY <2>1, WorkDoes DEF Loaded
        <3>. QED
            BY <3>1, <1>2
    <2>2. CASE h.op \in {"made", "saved"}
        <3>1. \E x : saved' = [saved EXCEPT ![world] = x]
            BY <2>2, WorkDoes DEF Promise
        <3>. QED
            BY <3>1, <1>2
    <2>. QED
        BY <2>1, <2>2, <1>1
<1>4. begun'[w] = begun[w]
    <2>1. CASE h.op \in {"made", "saved"}
        <3>1. begun' = [begun EXCEPT ![world] = 0]
            BY <2>1, WorkDoes DEF Promise
        <3>. QED
            BY <3>1, <1>2
    <2>. QED
        BY <2>1, <1>1
<1>5. worldVersion'[w] = worldVersion[w]
    <2>1. CASE h.op \in {"list", "setVersion4", "setVersion5"}
        <3>1. \E v : worldVersion' = [worldVersion EXCEPT ![world] = v]
            BY <2>1, WorkDoes DEF List, SetVersion
        <3>. QED
            BY <3>1, <1>2
    <2>. QED
        BY <2>1, <1>1
<1>6. gameData'.version[w] \in {worldVersion[w], gameData.version[w]}
    <2>1. CASE h.op = "saveGame"
        <3>1. gameData' = [exists |-> worldExists, version |-> worldVersion]
            BY <2>1, WorkDoes DEF SaveGame
        <3>. QED
            BY <3>1
    <2>. QED
        BY <2>1, <1>1
<1>7. \A f \in Files : disk'[w][f] = disk[w][f]
    BY Zenon, WorkOnDisk
<1>8. AtRisk(w)' \subseteq AtRisk(w)
    <2>1. LostChunks(w)' = LostChunks(w)
        BY <1>3, <1>7, LostSame, FilesAre
    <2>2. AtRisk(w) = LostChunks(w)
        BY AtRiskIs
    <2>3. AtRisk(w)' = LostChunks(w)'
        BY <1>1 DEF AtRisk, LostChunks
    <2>. QED
        BY <2>1, <2>2, <2>3
<1>9. \A f \in ChunkFiles : f \in Files
    BY FilesAre
<1>. QED
    BY <1>1, <1>3, <1>4, <1>5, <1>6, <1>7, <1>8, <1>9, KeptBy

\* While a world is loaded nothing is changed that is promised.
LEMMA NothingChanges ==
    ASSUME Types, Script, LoadsFirst, Work, screen = "game", ~Saving, saved[world] # {}
    PROVE  Head(todo).op \notin Changes
<1>1. First(todo, Named({"loaded"}), Named(Changes))
    BY DEF LoadsFirst
<1>2. todo # <<>> /\ todo \in Seq(GameOps)
    BY WorkDoes, HeadIs
<1>3. Head(todo) \notin Named(Changes)
    BY <1>1, <1>2, FirstTail
<1>. QED
    BY <1>3, WorkTodo

\* What is promised at the end of a save, a creation or a conversion is there.
LEMMA PromiseKept ==
    ASSUME Types, Script, Listing, PromisedWritten, SavingFits, Work,
           Head(todo).op \in Promises, NEW w \in Worlds, w = world
    PROVE  Kept(w)'
<1>. DEFINE h == Head(todo)
            t == Tail(todo)
            s(by) == Snapshot(mem, 5, by)
<1>1. /\ world \in Worlds /\ screen = "game" /\ todo # <<>> /\ todo \in Seq(GameOps)
      /\ h \in GameOps /\ t \in Seq(GameOps)
    BY WorkDoes, HeadIs DEF Promises
<1>2. /\ h \in Named(Promises) /\ Has(todo, Named(Promises))
      /\ ~Has(t, Named(OpNames \ {"leave"}))
    <2>1. h \in Named(Promises) /\ Has(todo, Named(Promises))
        BY WorkTodo
    <2>2. Never(todo, Named(Promises), Named(OpNames \ {"leave"}))
        BY DEF Script, InOrder
    <2>. QED
        BY <2>1, <2>2, <1>1, NeverTail
<1>3. \A N : N \subseteq OpNames \ {"leave"} /\ h.op \notin N => ~Has(todo, Named(N))
    <2>1. \A N \in SUBSET (OpNames \ {"leave"}) : ~Has(t, Named(N))
        BY <1>2, HasNo
    <2>. QED
        BY <2>1, WorkTodo
<1>4. /\ ~Has(todo, Named({"saveGame"})) /\ ~Has(todo, Named({"setVersion5"}))
      /\ ~Has(todo, Named({"list"}))
      /\ ~Has(todo, Named({"write", "fit", "delete"})) /\ ~Has(t, Named({"saved"}))
    <2>1. ~Has(t, Named({"saved"}))
        BY <1>2, HasNo DEF OpNames
    <2>. QED
        BY <2>1, <1>3 DEF Promises, OpNames
<1>5. worldVersion[world] = 5 /\ gameData.version[world] = 5
    <2>1. worldVersion[world] \in Nat
        BY <1>1 DEF Types, TypeOK
    <2>. QED
        BY <2>1, <1>1, <1>4 DEF Listing
<1>6. /\ world' = world /\ mem' = mem /\ disk' = disk /\ worldVersion' = worldVersion
      /\ gameData' = gameData
    BY WorkChanges DEF Promises, Reads
<1>7. \A f : ~Has(todo, On("write", f) \cup On("fit", f))
             /\ ~Has(todo, On("fit", f) \cup On("delete", f) \cup On("write", f))
    BY <1>4 DEF Has, Named, On
<1>8. \A f \in Listed : Matches(Entry(f), f)
    BY <1>2, <1>7 DEF PromisedWritten
<1>9. \E by \in {"creation", "save"} :
         /\ saved'[world] = {s(by)} /\ begun'[world] = 0
         /\ by = "save" => h.op = "saved"
    <2>1. /\ saved \in [Worlds -> SUBSET Snapshots] /\ begun \in [Worlds -> Nat]
        BY DEF Types
    <2>2. CASE h.op = "made"
        <3>1. Promise("creation")
            BY <2>2, WorkDoes
        <3>. QED
            BY <3>1, <2>1, <1>1 DEF Promise, currentVersion
    <2>3. CASE h.op = "saved"
        <3>1. Promise("save")
            BY <2>3, WorkDoes
        <3>. QED
            BY <3>1, <2>1, <2>3, <1>1 DEF Promise, currentVersion
    <2>. QED
        BY <2>2, <2>3 DEF Promises
<1>10. PICK by \in {"creation", "save"} :
         /\ saved'[world] = {s(by)} /\ begun'[world] = 0
         /\ by = "save" => h.op = "saved"
    BY <1>9
<1>11. s(by).version = 5 /\ s(by).parts = mem /\ s(by).by = by
    BY SnapshotIs DEF Types, TypeOK
<1>12. \A f \in Listed : Entry(f).cut \/ Holds(s(by), f, Entry(f))
    <2>1. \A f \in Listed : FormOf(5, f) = "new"
        <3>1. \A f \in Listed : f \in {WorldData, EntityData, <<"playerData", 0>>, <<"chestData", 0>>}
                                \/ f \in ChunkFiles
            BY FilesAre
        <3>. QED
            BY <3>1, FormsAre
    <2>. HIDE DEF s
    <2>. QED
        BY <2>1, <1>8, <1>11 DEF Matches, Holds
<1>. HIDE DEF s
<1>13. FilesOf(5) = Listed
    BY FilesOfIs
<1>14. VersionsAgree(w)'
    BY <1>5, <1>6, <1>10, <1>11 DEF VersionsAgree, SameForm
<1>15. FilesHeld(w)'
    <2>1. \A f \in Listed : disk'[world][f].cut \/ Holds(s(by), f, disk'[world][f])
        BY <1>12, <1>6 DEF Entry
    <2>. QED
        BY <2>1, <1>6, <1>10, <1>11, <1>13 DEF FilesHeld
<1>16. FewLost(w)'
    <2>1. ~Saving'
        BY <1>4, WorkTodo DEF Saving, Fronts
    <2>2. AtRisk(w)' = {}
        <3>1. \A f \in ChunkFiles : disk'[world][f].cut \/ Holds(s(by), f, disk'[world][f])
            BY <1>12, <1>6, FilesAre DEF Entry
        <3>2. saved'[world'] = {s(by)} /\ world' = world
            BY <1>6, <1>10
        <3>. QED
            BY <3>1, <3>2 DEF AtRisk, LostChunks
    <2>3. Cardinality({}) = 0
        BY FS_EmptySet
    <2>. QED
        BY <2>1, <2>2, <2>3, <1>6, <1>10 DEF FewLost
<1>17. WholeChunks(w)'
    <2>1. SUFFICES ASSUME by = "save"
                   PROVE  \A f \in ChunkFiles : ~disk'[world][f].cut
        BY <1>6, <1>10, <1>11 DEF WholeChunks
    <2>2. Saving
        BY <2>1, <1>10, WorkTodo DEF Saving
    <2>3. \A f \in ChunkFiles : CutRewritten(f)
        BY <2>2 DEF SavingFits
    <2>. QED
        BY <2>3, <1>6, <1>7 DEF CutRewritten, Entry
<1>. QED
    BY <1>14, <1>15, <1>16, <1>17, <1>6 DEF Kept

LEMMA SecondIs ==
    ASSUME NEW S, NEW s \in Seq(S), Len(s) >= 2
    PROVE  Tail(s) # <<>> /\ Head(Tail(s)) = s[2]
<1>1. s # <<>> /\ Len(s) \in Nat
    OBVIOUS
<1>2. Tail(s) \in Seq(S) /\ Len(Tail(s)) = Len(s) - 1 /\ \A i \in 1..(Len(s) - 1) : Tail(s)[i] = s[i + 1]
    BY <1>1, TailIs
<1>3. 1 \in 1..(Len(s) - 1)
    BY <1>1
<1>4. Tail(s) # <<>>
    <2>1. Len(<<>>) = 0 /\ Len(Tail(s)) # 0
        BY <1>1, <1>2
    <2>. QED
        BY <2>1
<1>5. Head(Tail(s)) = Tail(s)[1]
    BY <1>2, <1>4, TailIs
<1>. QED
    BY <1>2, <1>3, <1>4, <1>5

\* A file that is not a chunk is there.
LEMMA HeldIsThere ==
    ASSUME Types, NEW w \in Worlds, saved[w] # {}, VersionsAgree(w), FilesHeld(w),
           NEW f \in FilesOf(worldVersion[w]), f \notin ChunkFiles
    PROVE  disk[w][f].form # "missing"
<1>1. worldVersion[w] \in Nat /\ f \in Files
    BY FilesOfIs DEF Types, TypeOK
<1>2. disk[w][f].cut \/ \E s \in saved[w] : Holds(s, f, disk[w][f])
    BY HeldIs DEF LostChunks
<1>3. CASE disk[w][f].cut
    BY <1>1, <1>3 DEF Types, FilesSound
<1>4. CASE \E s \in saved[w] : Holds(s, f, disk[w][f])
    <2>1. PICK s \in saved[w] : Holds(s, f, disk[w][f])
        BY <1>4
    <2>2. FormOf(s.version, f) # "missing"
        BY DEF FormOf
    <2>. QED
        BY <2>1, <2>2 DEF Holds
<1>. QED
    BY <1>2, <1>3, <1>4

\* A write of the options, or of a save, to a file that is not a chunk.
LEMMA WriteKept ==
    ASSUME Types, Script, Work, Head(todo).op \in {"create", "write"},
           world \in Worlds, saved[world] # {}, VersionsAgree(world), FilesHeld(world),
           Head(todo).file \in FilesOf(worldVersion[world]), Head(todo).file \notin ChunkFiles,
           NEW s \in saved[world],
           LET f == Head(todo).file
           IN  /\ FormOf(s.version, f) = "new"
               /\ MainPart(s.parts, f) = MainPart(mem, f)
               /\ ExtraPart(s.parts, f) = ExtraPart(mem, f)
    PROVE  LET f == Head(todo).file
           IN  \/ disk'[world][f] = disk[world][f]
               \/ Holds(s, f, disk'[world][f])
<1>. DEFINE f == Head(todo).file
<1>1. Entry(f).form # "missing"
    BY HeldIsThere DEF Entry
<1>2. CASE Head(todo).op = "create"
    <2>1. disk' = disk
        BY <1>1, <1>2, WorkOnDisk
    <2>. QED
        BY <2>1
<1>3. CASE Head(todo).op = "write"
    <2>1. Written(disk'[world][f], Entry(f), f)
        BY <1>1, <1>3, WorkOnDisk
    <2>. QED
        BY <2>1 DEF Written, Holds
<1>. QED
    BY <1>2, <1>3

\* A save writes a chunk: the file is deleted, made and written.
LEMMA ChunkWritten ==
    ASSUME Types, Script, WritesFind, SavingFits, Work, Saving, world \in Worlds,
           Head(todo).op \in {"create", "write", "delete"}, Head(todo).file \in ChunkFiles
    PROVE  LET f == Head(todo).file
               d == disk'[world][f]
           IN  /\ ~d.cut \/ d = disk[world][f]
               /\ Head(todo).op = "write" => d.form = "new" /\ d.main = MainPart(mem, f)
                                             /\ d.extra = ExtraPart(mem, f) /\ ~d.cut
               /\ Head(todo).op # "write" => todo' # <<>> /\ Head(todo').file = f
<1>. DEFINE h == Head(todo)
            f == h.file
            d == disk'[world][f]
<1>1. /\ todo # <<>> /\ todo \in Seq(GameOps) /\ h \in GameOps /\ f \in Files /\ f \in Listed
    BY WorkDoes, HeadIs, FilesAre
<1>2. /\ 1 \in DOMAIN todo /\ todo[1] = h /\ Len(todo) \in Nat
    BY <1>1, TailIs
<1>3. ChunkOps(f)
    BY DEF SavingFits
<1>4. \A n, g : h \in On(n, g) <=> h.op = n /\ g = f
    BY WorkTodo
<1>5. /\ todo' = Front \o Tail(todo) /\ Front = <<>>
    BY <1>1, WorkChanges, FrontIs DEF Reads
<1>6. todo' = Tail(todo)
    <2>1. Tail(todo) \in Seq(GameOps)
        BY <1>1, TailIs
    <2>. QED
        BY <1>5, <2>1
<1>7. CASE h.op = "write"
    <2>1. todo[1] \in On("write", f)
        BY <1>2, <1>4, <1>7
    <2>2. Entry(f).form # "missing"
        <3>. HIDE DEF f, h
        <3>1. ~(1 > 1)
            OBVIOUS
        <3>2. \/ 1 > 1 /\ todo[1 - 1] \in On("create", f)
              \/ Entry(f).form # "missing"
            BY <2>1, <1>1, <1>2 DEF WritesFind
        <3>. QED
            BY <3>1, <3>2
    <2>3. Written(d, Entry(f), f)
        BY <2>2, <1>7, WorkOnDisk
    <2>4. Entry(f).room = Content(mem, f).room
        BY <2>1, <1>2, <1>3 DEF ChunkOps
    <2>5. Content(mem, f).room \in 1..2
        BY <1>1, ContentIs DEF Types, TypeOK
    <2>6. ~d.cut
        BY <2>3, <2>4, <2>5 DEF Written
    <2>. QED
        BY <2>3, <2>6, <1>7 DEF Written
<1>8. CASE h.op = "create"
    <2>1. todo[1] \in On("create", f)
        BY <1>2, <1>4, <1>8
    <2>2. 2 \in DOMAIN todo /\ todo[2] \in On("write", f)
        BY <2>1, <1>2, <1>3 DEF ChunkOps
    <2>3. todo' # <<>> /\ Head(todo') = todo[2]
        BY <2>2, <1>1, <1>2, <1>6, SecondIs
    <2>4. Fresh(d, Content(mem, f).room) \/ d = disk[world][f]
        BY <1>8, WorkOnDisk
    <2>. QED
        BY <2>2, <2>3, <2>4, <1>8 DEF On, Fresh
<1>9. CASE h.op = "delete"
    <2>1. todo[1] \in On("delete", f)
        BY <1>2, <1>4, <1>9
    <2>2. Len(todo) >= 3 /\ todo[2] \in On("create", f)
        BY <2>1, <1>2, <1>3 DEF ChunkOps
    <2>3. todo' # <<>> /\ Head(todo') = todo[2]
        BY <2>2, <1>1, <1>2, <1>6, SecondIs
    <2>4. d = Missing
        BY Zenon, <1>9, WorkOnDisk
    <2>. QED
        BY <2>2, <2>3, <2>4, <1>9, FileTypesAre DEF On
<1>. QED
    BY <1>7, <1>8, <1>9

LEMMA WorkKeptHere ==
    ASSUME Types, Script, Listing, Writing, Work, world \in Worlds, NEW w \in Worlds,
           w = world, Kept(w)
    PROVE  Kept(w)'
<1>. DEFINE h == Head(todo)
            t == Tail(todo)
            f == h.file
<1>1. /\ world' = world
      /\ h.op # "saveGame" => gameData' = gameData
      /\ h.op \notin {"list", "setVersion4", "setVersion5"} => worldVersion' = worldVersion
      /\ h.op \notin {"loaded", "made", "saved"} => saved' = saved
      /\ h.op \notin {"made", "saved"} => begun' = begun
      /\ h.op \notin {"create", "write", "delete"} => disk' = disk
    BY WorkChanges
<1>2. /\ todo # <<>> /\ h \in GameOps /\ h.op \in OpNames /\ f \in Files /\ f \in FilesFor(h.op)
      /\ h.op \notin {"create", "write", "saveGame", "load"} => screen = "game"
      /\ screen = "menu" => h \in MenuOps
      /\ screen = "edit" => h \in EditOps
    BY WorkDoes, HeadIs
<1>3. /\ saved \in [Worlds -> SUBSET Snapshots] /\ begun \in [Worlds -> Nat]
      /\ worldVersion \in [Worlds -> Nat] /\ screen \in {"menu", "edit", "game"}
      /\ mem \in Parts
    BY DEF Types, TypeOK
<1>4. CASE h.op \in Promises
    BY <1>4, PromiseKept DEF Writing
<1>5. CASE saved'[w] = {}
    BY <1>5 DEF Kept
<1>6. CASE h.op \notin Promises /\ saved'[w] # {}
    <2>1. saved'[world] = saved[world] /\ begun'[world] = begun[world]
        <3>1. CASE h.op = "loaded"
            <4>1. saved' = saved \/ saved' = [saved EXCEPT ![world] = {}]
                BY <3>1, WorkDoes DEF Loaded
            <4>. QED
                BY <4>1, <1>1, <1>3, <1>6, <3>1
        <3>2. CASE h.op # "loaded"
            BY <3>2, <1>1, <1>6 DEF Promises
        <3>. QED
            BY <3>1, <3>2
    <2>2. saved[world] # {} /\ VersionsAgree(world) /\ FilesHeld(world)
        BY <1>6, <2>1 DEF Kept
    <2>3. Saving' => Saving
        BY WorkTodo DEF Saving, Fronts
    <2>4. screen = "game" /\ ~Saving => h.op \notin Changes
        BY <2>2, NothingChanges DEF Writing
    <2>5. Saving => /\ h.op \notin Reads \cup Conversions \cup {"loaded"}
                    /\ worldVersion[world] = 5
                    /\ screen = "game"
        <3>1. SUFFICES ASSUME Saving
                       PROVE  screen = "game"
            BY <2>2, SavesDoNotConvert DEF Listing
        <3>2. PICK i \in DOMAIN todo : todo[i].op = "saved" /\ todo[i] \in Ops
            BY <3>1 DEF Saving, Has, Named
        <3>3. screen = "menu" => todo[i] \in MenuOps
            BY DEF Script
        <3>4. screen = "edit" => todo[i] \in EditOps
            BY DEF Script
        <3>. QED
            BY <3>2, <3>3, <3>4, <1>3 DEF MenuOps, EditOps
    <2>6. worldVersion'[world] = worldVersion[world]
        <3>1. CASE h.op \in {"setVersion4", "setVersion5"}
            BY <3>1, <1>2, <2>4, <2>5 DEF Changes, Conversions
        <3>2. CASE h.op = "list"
            <4>1. Saving
                BY <3>2, <1>2, <2>4 DEF Changes
            <4>2. worldVersion' = [worldVersion EXCEPT ![world] = 5]
                BY <3>2, WorkDoes DEF List, currentVersion
            <4>. QED
                BY <4>1, <4>2, <2>5, <1>3
        <3>. QED
            BY <3>1, <3>2, <1>1
    <2>7. gameData'.version[world] \in {worldVersion[world], gameData.version[world]}
        <3>1. CASE h.op = "saveGame"
            <4>1. gameData' = [exists |-> worldExists, version |-> worldVersion]
                BY <3>1, WorkDoes DEF SaveGame
            <4>. QED
                BY <4>1
        <3>. QED
            BY <3>1, <1>1
    <2>8. \A g \in Files : g # f => disk'[world][g] = disk[world][g]
        BY Zenon, WorkOnDisk
    <2>. DEFINE Files1 == \A g \in Files \ ChunkFiles :
                    \/ disk'[world][g] = disk[world][g] \/ disk'[world][g].cut
                    \/ \E s \in saved[world] : Holds(s, g, disk'[world][g])
                Files2 == \A g \in ChunkFiles : \/ disk'[world][g] = disk[world][g]
                                                \/ ~disk'[world][g].cut
                Fewer == AtRisk(w)' \subseteq AtRisk(w)
    <2>9. Files1 /\ Files2 /\ Fewer
        <3>1. AtRisk(w)' \subseteq LostChunks(w)' /\ AtRisk(w) \subseteq LostChunks(w)
            BY <1>1 DEF AtRisk, LostChunks
        <3>2. (\A g \in ChunkFiles : disk'[world][g] = disk[world][g])
              => LostChunks(w)' = LostChunks(w)
            BY <2>1, LostSame
        <3>3. ~Saving \/ f \notin ChunkFiles => AtRisk(w) = LostChunks(w)
            BY AtRiskIs
        <3>4. CASE h.op \notin {"create", "write", "delete", "fit"}
            <4>1. Files1 /\ Files2 /\ LostChunks(w)' = LostChunks(w)
                BY <3>2, <3>4, <1>1
            <4>2. ~Saving \/ f \notin ChunkFiles
                <5>1. Saving => f = WorldData
                    BY <2>5, <3>4, <1>2 DEF FilesFor, Reads
                <5>. QED
                    BY <5>1, FilesAre, KindsDiffer DEF ChunkFiles
            <4>. QED
                BY <4>1, <4>2, <3>1, <3>3
        <3>5. CASE h.op = "fit"
            <4>1. Files1 /\ Files2 /\ LostChunks(w)' = LostChunks(w)
                BY <3>2, <3>5, <1>1
            <4>2. Saving
                BY <3>5, <1>2, <2>4 DEF Changes, FileOps
            <4>3. todo' # <<>> /\ Head(todo').file = f
                <5>1. todo' = Front \o t /\ t \in Seq(GameOps) /\ Front \in Seq(GameOps)
                    BY <3>5, <1>2, WorkChanges, HeadIs, FrontIs
                <5>2. Front \in {<<Op("delete", f), Op("create", f), Op("write", f)>>,
                                 <<Op("write", f)>>}
                    BY <3>5, <1>2, FrontCases DEF Reads
                <5>3. Front # <<>> /\ Head(Front).file = f
                    BY <5>2 DEF Op
                <5>. HIDE DEF t, f
                <5>4. Front \o t # <<>> /\ Head(Front \o t) = Head(Front)
                    BY <5>1, <5>3
                <5>. QED
                    BY <5>1, <5>3, <5>4
            <4>4. Saving'
                <5>1. Has(todo, Named({"saved"})) /\ h.op # "saved"
                    BY <4>2, <3>5 DEF Saving
                <5>. QED
                    BY <5>1, WorkTodo DEF Saving, Fronts
            <4>5. \A g \in ChunkFiles : g \in AtRisk(w)' => g \in LostChunks(w)' /\ g # f
                BY <4>3, <4>4, <1>1 DEF AtRisk, LostChunks
            <4>6. \A g \in LostChunks(w) : g # f => g \in AtRisk(w)
                BY DEF AtRisk
            <4>7. AtRisk(w)' \subseteq ChunkFiles
                BY DEF AtRisk, LostChunks
            <4>. QED
                BY <4>1, <4>5, <4>6, <4>7
        <3>6. CASE h.op \in {"create", "write", "delete"}
            <4>1. CASE screen = "menu"
                <5>1. f = WorldData /\ h.op \in {"create", "write"} /\ f \notin ChunkFiles
                    BY <4>1, <1>2, <3>6, KindsDiffer DEF MenuOps, ChunkFiles
                <5>2. \A g \in ChunkFiles : disk'[world][g] = disk[world][g]
                    BY <5>1, <2>8, FilesAre
                <5>3. Fewer
                    BY <5>1, <5>2, <3>1, <3>2, <3>3
                <5>4. worldVersion[world] \in Nat /\ f \in FilesOf(worldVersion[world])
                    BY <5>1, <1>3, FilesOfIs
                <5>5. disk'[world][f] = disk[world][f] \/ \E s \in saved[world] : Holds(s, f, disk'[world][f])
                    <6>1. CASE h.op = "create"
                        <7>1. Entry(f).form # "missing"
                            BY <5>1, <5>4, <2>2, HeldIsThere DEF Entry
                        <7>2. disk' = disk
                            BY <6>1, <7>1, WorkOnDisk
                        <7>. QED
                            BY <7>2
                    <6>2. CASE h.op = "write"
                        <7>1. Has(todo, Named({"write"}))
                            BY <6>2, WorkTodo
                        <7>2. PICK s \in saved[world] : s.version <= 5 /\ s.parts.info = mem.info
                            BY <7>1, <4>1, <2>2 DEF Writing, OptionsKnown
                        <7>3. /\ FormOf(s.version, f) = "new"
                              /\ MainPart(s.parts, f) = MainPart(mem, f)
                              /\ ExtraPart(s.parts, f) = ExtraPart(mem, f)
                            <8>1. s.version \in 0..5
                                BY <1>3, <7>2 DEF Snapshots
                            <8>. QED
                                BY <8>1, <7>2, <5>1, FormsAre, MainPartIs, ExtraPartIs
                        <7>. QED
                            BY <7>3, <6>2, <2>2, <5>1, <5>4, WriteKept
                    <6>. QED
                        BY <6>1, <6>2, <5>1
                <5>6. Files1 /\ Files2
                    BY <5>2, <5>5, <2>8
                <5>. QED
                    BY <5>3, <5>6
            <4>2. CASE screen = "edit"
                BY <4>2, <3>6, <1>2 DEF EditOps
            <4>3. CASE screen = "game"
                <5>1. Saving
                    BY <4>3, <3>6, <2>4 DEF Changes, FileOps
                <5>2. SavingFits /\ WritesFind /\ worldVersion[world] = 5
                    BY <5>1, <2>5 DEF Writing
                <5>3. CASE f \notin ChunkFiles
                    <6>1. h.op # "delete"
                        <7>1. h.op = "delete" => Has(todo, On("delete", f))
                            BY WorkTodo
                        <7>. QED
                            BY <7>1, <5>1, <5>2, <5>3, <1>2 DEF SavingFits
                    <6>2. f \in Listed
                        BY <6>1, <3>6, <1>2 DEF FilesFor
                    <6>. DEFINE s == Snapshot(mem, 5, "save")
                    <6>3. s \in saved[world] /\ s.parts = mem /\ s.version = 5
                        BY <5>1, <5>2, <2>2, <1>3, SnapshotIs DEF SavingFits
                    <6>4. FormOf(5, f) = "new" /\ f \in FilesOf(worldVersion[world])
                        BY <6>2, <5>2, <5>3, FilesAre, FormsAre, FilesOfIs
                    <6>. HIDE DEF s
                    <6>5. disk'[world][f] = disk[world][f] \/ Holds(s, f, disk'[world][f])
                        BY <6>1, <6>3, <6>4, <5>3, <3>6, <2>2, WriteKept
                    <6>6. \A g \in ChunkFiles : disk'[world][g] = disk[world][g]
                        BY <5>3, <2>8, FilesAre
                    <6>7. Fewer
                        BY <5>3, <6>6, <3>1, <3>2, <3>3
                    <6>8. Files1 /\ Files2
                        BY <6>3, <6>5, <6>6, <2>8
                    <6>. QED
                        BY <6>7, <6>8
                <5>4. CASE f \in ChunkFiles
                    <6>. DEFINE d == disk'[world][f]
                    <6>1. /\ ~d.cut \/ d = disk[world][f]
                          /\ h.op = "write" => d.form = "new" /\ d.main = MainPart(mem, f)
                                               /\ d.extra = ExtraPart(mem, f) /\ ~d.cut
                          /\ h.op # "write" => todo' # <<>> /\ Head(todo').file = f
                        BY <5>1, <5>2, <5>4, <3>6, ChunkWritten
                    <6>2. Files1 /\ Files2
                        BY <6>1, <5>4, <2>8, FilesAre
                    <6>. DEFINE s == Snapshot(mem, 5, "save")
                    <6>3. s \in saved[world] /\ s.parts = mem /\ s.version = 5
                        BY <5>1, <5>2, <2>2, <1>3, SnapshotIs DEF SavingFits
                    <6>4. FormOf(5, f) = "new"
                        BY <5>4, FormsAre
                    <6>. HIDE DEF s
                    <6>5. h.op = "write" => Holds(s, f, d)
                        BY <6>1, <6>3, <6>4 DEF Holds
                    <6>6. Saving'
                        <7>1. Has(todo, Named({"saved"})) /\ h.op # "saved"
                            BY <5>1, <3>6 DEF Saving
                        <7>. QED
                            BY <7>1, WorkTodo DEF Saving, Fronts
                    <6>7. ASSUME NEW g \in AtRisk(w)'
                          PROVE  g # f
                        <7>1. CASE h.op = "write"
                            <8>1. g \in LostChunks(w)'
                                BY <1>1 DEF AtRisk, LostChunks
                            <8>. QED
                                BY <8>1, <7>1, <6>3, <6>5, <2>1 DEF LostChunks
                        <7>2. CASE h.op # "write"
                            BY <7>2, <6>1, <6>6, <1>1 DEF AtRisk, LostChunks
                        <7>. QED
                            BY <7>1, <7>2
                    <6>8. \A g \in LostChunks(w)' : g # f => g \in LostChunks(w)
                        BY <2>1, <2>8, FilesAre DEF LostChunks
                    <6>9. \A g \in LostChunks(w) : g # f => g \in AtRisk(w)
                        BY DEF AtRisk
                    <6>. QED
                        BY <6>2, <6>7, <6>8, <6>9, <3>1
                <5>. QED
                    BY <5>3, <5>4
            <4>. QED
                BY <4>1, <4>2, <4>3, <1>3
        <3>. QED
            BY <3>4, <3>5, <3>6
    <2>. HIDE DEF h, t, f
    <2>. QED
        BY <2>1, <2>3, <2>6, <2>7, <2>9, KeptBy
<1>. QED
    BY <1>4, <1>5, <1>6

\* Nothing of the world changes, and no save is running or begun.
LEMMA QuietKept ==
    ASSUME Types, NEW w \in Worlds, Kept(w), ~Saving \/ w # world, ~Saving' \/ w # world',
           disk' = disk, saved'[w] = saved[w], begun'[w] = begun[w],
           worldVersion'[w] \in {worldVersion[w], gameData.version[w]},
           gameData'.version[w] \in {worldVersion[w], gameData.version[w]}
    PROVE  Kept(w)'
<1>1. LostChunks(w)' = LostChunks(w)
    BY LostSame
<1>2. AtRisk(w)' \subseteq LostChunks(w)'
    BY DEF AtRisk, LostChunks
<1>3. AtRisk(w) = LostChunks(w)
    BY AtRiskIs
<1>. QED
    BY <1>1, <1>2, <1>3, KeptBy

\* A reset in the middle of a save costs the chunk it is busy with.
LEMMA CrashKept ==
    ASSUME Types, NEW w \in Worlds, Kept(w), Crash
    PROVE  Kept(w)'
<1>1. /\ disk' = disk /\ saved' = saved /\ begun' = begun /\ gameData' = gameData
      /\ worldVersion' = gameData.version /\ todo' = <<>>
    BY DEF Crash
<1>2. ~Saving'
    BY <1>1, NothingToDo DEF Saving
<1>3. CASE ~Saving \/ w # world
    BY <1>1, <1>2, <1>3, QuietKept
<1>4. CASE Saving /\ w = world
    <2>. SUFFICES ASSUME saved'[w] # {}
                  PROVE  (VersionsAgree(w) /\ FilesHeld(w) /\ FewLost(w) /\ WholeChunks(w))'
        BY DEF Kept
    <2>1. VersionsAgree(w) /\ FilesHeld(w) /\ FewLost(w) /\ WholeChunks(w)
        BY <1>1 DEF Kept
    <2>2. VersionsAgree(w)' /\ FilesHeld(w)' /\ WholeChunks(w)'
        BY <2>1, <1>1 DEF VersionsAgree, FilesHeld, WholeChunks
    <2>3. FewLost(w)'
        <3>. DEFINE h == Head(todo).file
                    A == AtRisk(w)
        <3>1. LostChunks(w)' = LostChunks(w)
            BY <1>1, LostSame
        <3>2. AtRisk(w)' \subseteq A \cup {h}
            <4>1. AtRisk(w)' \subseteq LostChunks(w)'
                BY DEF AtRisk, LostChunks
            <4>2. LostChunks(w) \subseteq A \cup {h}
                BY DEF AtRisk
            <4>. QED
                BY <4>1, <4>2, <3>1
        <3>3. IsFiniteSet(A)
            <4>1. A \subseteq ChunkFiles
                BY DEF AtRisk, LostChunks
            <4>. QED
                BY <4>1, ChunksAreFinite, FS_Subset
        <3>4. Cardinality(A) + 1 <= begun[w] /\ begun[w] \in Nat
            BY <2>1, <1>4 DEF FewLost, Types
        <3>. HIDE DEF A, h
        <3>5. /\ IsFiniteSet(A \cup {h}) /\ Cardinality(A) \in Nat
              /\ Cardinality(A \cup {h}) \in {Cardinality(A), Cardinality(A) + 1}
            BY <3>3, FS_AddElement, FS_CardinalityType
        <3>6. Cardinality(AtRisk(w)') <= Cardinality(A \cup {h}) /\ Cardinality(AtRisk(w)') \in Nat
            <4>1. IsFiniteSet(AtRisk(w)')
                BY <3>2, <3>5, FS_Subset
            <4>. QED
                BY <3>2, <3>5, <4>1, FS_Subset, FS_CardinalityType
        <3>7. Cardinality(AtRisk(w)') <= begun'[w]
            BY <3>4, <3>5, <3>6, <1>1
        <3>8. Cardinality(AtRisk(w)') + 0 <= begun'[w]
            BY <3>6, <3>7
        <3>. QED
            BY <3>8, <1>2 DEF FewLost
    <2>. QED
        BY <2>2, <2>3
<1>. QED
    BY <1>3, <1>4

\* A save has begun: it may lose one chunk more.
LEMMA SaveKept ==
    ASSUME Types, Listing, NEW w \in Worlds, Kept(w), NEW quit \in BOOLEAN, SaveWorld(quit),
           w = world
    PROVE  Kept(w)'
<1>. DEFINE s == Snapshot(mem, 5, "save")
<1>. SUFFICES ASSUME saved'[w] # {}
              PROVE  (VersionsAgree(w) /\ FilesHeld(w) /\ FewLost(w) /\ WholeChunks(w))'
    BY DEF Kept
<1>1. /\ saved \in [Worlds -> SUBSET Snapshots] /\ begun \in [Worlds -> Nat] /\ mem \in Parts
      /\ gameData \in [exists : [Worlds -> BOOLEAN], version : [Worlds -> Nat]]
      /\ worldExists \in [Worlds -> BOOLEAN] /\ worldVersion \in [Worlds -> Nat]
    BY DEF Types, TypeOK
<1>2. /\ todo = <<>> /\ screen = "game" /\ disk' = disk /\ worldVersion' = worldVersion
      /\ gameData' = gameData /\ world' = world /\ begun' = [begun EXCEPT ![world] = @ + 1]
      /\ saved' = [saved EXCEPT ![world] =
                        IF @ = {} \/ worldVersion[world] > currentVersion THEN {}
                        ELSE @ \cup {Snapshot(mem, currentVersion, "save")}]
    BY DEF SaveWorld, Idle
<1>3. /\ saved'[w] = saved[w] \cup {s} /\ saved[w] # {} /\ begun'[w] = begun[w] + 1
      /\ ~(worldVersion[w] > 5)
    BY <1>1, <1>2 DEF currentVersion
<1>4. VersionsAgree(w) /\ FilesHeld(w) /\ FewLost(w) /\ WholeChunks(w)
    BY <1>3 DEF Kept
<1>5. worldVersion[w] = 5 /\ gameData.version[w] = 5
    BY <1>1, <1>2, <1>3, NothingToDo DEF Listing
<1>6. s.version = 5 /\ s.parts = mem /\ s.by = "save"
    BY <1>1, SnapshotIs
<1>. HIDE DEF s
<1>7. VersionsAgree(w)'
    BY <1>2, <1>3, <1>4, <1>5, <1>6 DEF VersionsAgree, SameForm
<1>8. FilesHeld(w)'
    <2>1. ASSUME NEW t \in saved'[w], NEW f \in FilesOf(t.version) \ ChunkFiles
          PROVE  disk[w][f].cut \/ \E x \in saved[w] : Holds(x, f, disk[w][f])
        <3>1. PICK y \in saved[w] : TRUE
            BY <1>3
        <3>2. FilesOf(y.version) = FilesOf(5) /\ \A x \in saved[w] : FilesOf(x.version) = FilesOf(5)
            BY <1>1, <1>4, <1>5, SameFormIs DEF VersionsAgree, Snapshots
        <3>3. f \in FilesOf(y.version) \ ChunkFiles
            BY <3>2, <1>3, <1>6
        <3>. QED
            BY <3>1, <3>3, <1>4 DEF FilesHeld
    <2>. QED
        BY <2>1, <1>2, <1>3 DEF FilesHeld
<1>9. FewLost(w)'
    <2>1. AtRisk(w)' \subseteq LostChunks(w)
        BY <1>2, <1>3 DEF AtRisk, LostChunks
    <2>2. ~Saving
        BY <1>2, NothingToDo DEF Saving
    <2>3. AtRisk(w) = LostChunks(w) /\ AtRisk(w) \subseteq ChunkFiles
        BY <2>2, AtRiskIs DEF LostChunks
    <2>4. /\ Cardinality(AtRisk(w)') <= Cardinality(AtRisk(w))
          /\ Cardinality(AtRisk(w)') \in Nat /\ Cardinality(AtRisk(w)) \in Nat
        BY <2>1, <2>3, FewerLost
    <2>5. Cardinality(AtRisk(w)) + 0 <= begun[w] /\ begun[w] \in Nat
        BY <2>2, <1>1, <1>4 DEF FewLost
    <2>6. \A n \in {0, 1} : Cardinality(AtRisk(w)') + n <= begun'[w]
        BY <2>4, <2>5, <1>3
    <2>. QED
        BY <2>6 DEF FewLost
<1>10. WholeChunks(w)'
    <2>1. ASSUME NEW x \in saved'[w], saved'[w] = {x}, x.by = "save"
          PROVE  saved[w] = {x}
        BY <2>1, <1>3
    <2>. QED
        BY <2>1, <1>2, <1>3, <1>4 DEF WholeChunks
<1>. QED
    BY <1>7, <1>8, <1>9, <1>10

\* New options: the files hold what they held, if the version reads them.
LEMMA EditKept ==
    ASSUME Types, NEW w \in Worlds, Kept(w), ConfirmEdit, w = world
    PROVE  Kept(w)'
<1>. DEFINE info == Made(world, now + 1)
            version == IF useCurrentVersion THEN currentVersion ELSE 0
<1>. SUFFICES ASSUME saved'[w] # {}
              PROVE  (VersionsAgree(w) /\ FilesHeld(w) /\ FewLost(w) /\ WholeChunks(w))'
    BY DEF Kept
<1>1. /\ saved \in [Worlds -> SUBSET Snapshots] /\ begun \in [Worlds -> Nat]
      /\ gameData \in [exists : [Worlds -> BOOLEAN], version : [Worlds -> Nat]]
      /\ worldVersion \in [Worlds -> Nat]
    BY DEF Types, TypeOK
<1>2. /\ todo = <<>> /\ now < MaxStamp /\ disk' = disk /\ gameData' = gameData
      /\ begun' = begun /\ todo' = saveWorldData \o <<Do("saveGame")>>
      /\ worldVersion' = [worldVersion EXCEPT ![world] = version]
    BY DEF ConfirmEdit, Idle
<1>3. saved' = [saved EXCEPT ![world] = EditedSnapshots(version, info)]
    BY Zenon DEF ConfirmEdit, EditedSnapshots, Edited
<1>4. version \in Nat /\ info \in Stamps
    BY <1>2, MadeIs DEF currentVersion
<1>. HIDE DEF version, info
<1>5. /\ saved'[w] = EditedSnapshots(version, info) /\ worldVersion'[w] = version
    BY <1>1, <1>2, <1>3
<1>6. PICK t \in saved[w] : SameForm(t.version, version)
    BY <1>5 DEF EditedSnapshots
<1>7. VersionsAgree(w) /\ FilesHeld(w) /\ FewLost(w) /\ WholeChunks(w)
    BY <1>6 DEF Kept
<1>8. \A s \in saved[w] : s \in Snapshots /\ s.version \in Nat
    BY <1>1 DEF Snapshots
<1>9. \A s \in saved[w] : SameForm(s.version, version)
    <2>1. SUFFICES ASSUME NEW s \in saved[w]
                   PROVE  SameForm(s.version, version)
        OBVIOUS
    <2>2. SameForm(s.version, t.version)
        BY <1>1, <1>7, <1>8, SameFormTwice DEF VersionsAgree
    <2>3. SameForm(version, t.version)
        BY <1>6 DEF SameForm
    <2>. QED
        BY <2>2, <2>3, <1>4, <1>8, SameFormTwice
<1>10. /\ saved[w] \subseteq saved'[w]
       /\ \A x \in saved'[w] : \E s \in saved[w] : x.version = s.version
    <2>1. \A s \in saved[w] : s \in EditedSnapshots(version, info)
        BY <1>9 DEF EditedSnapshots
    <2>2. ASSUME NEW x \in EditedSnapshots(version, info)
          PROVE  \E s \in saved[w] : x.version = s.version
        <3>1. PICK s \in saved[w] : x = s \/ x = Edited(s, info)
            BY DEF EditedSnapshots
        <3>. QED
            BY <3>1, <1>4, <1>8, EditedIs
    <2>. QED
        BY <2>1, <2>2, <1>5
<1>11. VersionsAgree(w)'
    BY <1>2, <1>5, <1>7, <1>9, <1>10 DEF VersionsAgree
<1>12. FilesHeld(w)'
    <2>1. ASSUME NEW x \in saved'[w], NEW f \in FilesOf(x.version) \ ChunkFiles
          PROVE  disk[w][f].cut \/ \E s \in saved[w] : Holds(s, f, disk[w][f])
        <3>1. PICK s \in saved[w] : x.version = s.version
            BY <1>10
        <3>. QED
            BY <3>1, <1>7 DEF FilesHeld
    <2>. QED
        BY <2>1, <1>2, <1>10 DEF FilesHeld
<1>13. FewLost(w)'
    <2>1. AtRisk(w)' \subseteq LostChunks(w)
        BY <1>2, <1>10 DEF AtRisk, LostChunks
    <2>2. AtRisk(w) = LostChunks(w)
        <3>1. ~Saving
            BY <1>2, NothingToDo DEF Saving
        <3>. QED
            BY <3>1, AtRiskIs
    <2>3. ~Saving'
        BY <1>2, MenuScriptsAre DEF Saving
    <2>. QED
        BY <2>1, <2>2, <2>3, <1>1, <1>2, <1>7, FewLostKept
<1>14. WholeChunks(w)'
    <2>1. ASSUME NEW x \in saved'[w], saved'[w] = {x}, x.by = "save"
          PROVE  saved[w] = {x}
        BY <2>1, <1>6, <1>10
    <2>. QED
        BY <2>1, <1>2, <1>7 DEF WholeChunks
<1>. QED
    BY <1>11, <1>12, <1>13, <1>14

LEMMA ScreenKept ==
    ASSUME Types, Listing, Screens, NEW w \in Worlds, Kept(w)
    PROVE  Kept(w)'
<1>1. /\ saved \in [Worlds -> SUBSET Snapshots] /\ begun \in [Worlds -> Nat]
      /\ worldVersion \in [Worlds -> Nat]
    BY DEF Types, TypeOK
<1>2. \A A : ~Has(<<>>, A)
    BY NothingToDo
<1>3. todo = <<>> => ~Saving
    BY <1>2 DEF Saving
<1>4. ASSUME NEW x \in Worlds, CreateWorld(x)
      PROVE  Kept(w)'
    <2>1. /\ todo = <<>> /\ todo' = CreateScript /\ disk' = disk /\ gameData' = gameData
          /\ begun' = begun /\ saved' = [saved EXCEPT ![x] = {}] /\ world' = x
          /\ worldVersion' = [worldVersion EXCEPT ![x] = currentVersion]
        BY <1>4 DEF CreateWorld, CreateScript, Idle
    <2>2. CASE w = x
        BY <2>1, <2>2, <1>1 DEF Kept
    <2>3. CASE w # x
        <3>1. saved'[w] = saved[w] /\ worldVersion'[w] = worldVersion[w]
            BY <2>1, <2>3, <1>1
        <3>. QED
            BY <2>1, <2>3, <3>1, <1>3, QuietKept
    <2>. QED
        BY <2>2, <2>3
<1>5. ASSUME NEW x \in Worlds, OpenWorld(x) \/ DeleteWorld(x) \/ RecoverWorld(x) \/ EditWorld(x)
      PROVE  Kept(w)'
    <2>1. /\ todo = <<>> /\ disk' = disk /\ gameData' = gameData /\ saved' = saved
          /\ begun' = begun /\ worldVersion' = worldVersion
          /\ todo' \in {loadAllChunk(worldVersion[x]), <<Do("saveGame")>>, <<>>, loadWorldData}
        BY <1>5 DEF OpenWorld, DeleteWorld, RecoverWorld, EditWorld, Idle
    <2>2. ~Saving'
        <3>1. ~Has(loadAllChunk(worldVersion[x]), Named({"saved"}))
            BY <1>1, OpenScriptIs
        <3>. QED
            BY <2>1, <3>1, <1>2, MenuScriptsAre DEF Saving
    <2>. QED
        BY <2>1, <2>2, <1>3, QuietKept
<1>6. CASE ConfirmEdit
    <2>1. CASE w = world
        BY <2>1, <1>6, EditKept
    <2>2. CASE w # world
        <3>1. /\ disk' = disk /\ gameData' = gameData /\ begun' = begun /\ world' = world
              /\ todo = <<>>
              /\ (\E x : saved' = [saved EXCEPT ![world] = x])
              /\ (\E v : worldVersion' = [worldVersion EXCEPT ![world] = v])
            BY <1>6 DEF ConfirmEdit, Idle
        <3>2. saved'[w] = saved[w] /\ worldVersion'[w] = worldVersion[w]
            BY <3>1, <2>2, <1>1
        <3>. QED
            BY <3>1, <3>2, <2>2, QuietKept
    <2>. QED
        BY <2>1, <2>2
<1>7. CASE CancelEdit \/ Play \/ QuitWorld
    <2>1. /\ todo = <<>> /\ todo' = <<>> /\ disk' = disk /\ gameData' = gameData
          /\ saved' = saved /\ begun' = begun /\ worldVersion' = worldVersion
        BY <1>7 DEF CancelEdit, Play, QuitWorld, Leave, Idle
    <2>2. ~Saving'
        BY <2>1, <1>2 DEF Saving
    <2>. QED
        BY <2>1, <2>2, <1>3, QuietKept
<1>8. ASSUME NEW quit \in BOOLEAN, SaveWorld(quit)
      PROVE  Kept(w)'
    <2>1. CASE w = world
        BY <2>1, <1>8, SaveKept
    <2>2. CASE w # world
        <3>1. /\ disk' = disk /\ gameData' = gameData /\ worldVersion' = worldVersion
              /\ world' = world /\ todo = <<>>
              /\ (\E x : saved' = [saved EXCEPT ![world] = x])
              /\ begun' = [begun EXCEPT ![world] = @ + 1]
            BY <1>8 DEF SaveWorld, Idle
        <3>2. saved'[w] = saved[w] /\ begun'[w] = begun[w]
            BY <3>1, <2>2, <1>1
        <3>. QED
            BY <3>1, <3>2, <2>2, QuietKept
    <2>. QED
        BY <2>1, <2>2
<1>9. CASE Crash
    BY <1>9, CrashKept
<1>. QED
    BY <1>4, <1>5, <1>6, <1>7, <1>8, <1>9 DEF Screens

----------------------------------------------------------------------------
(* What is written: files that are there, and what is promised.            *)

\* Where an operation that is left stands after a step.
LEMMA Shifted ==
    ASSUME Types, Script, Work, Head(todo).op # "leave"
    PROVE  LET n == Len(Front)
           IN  /\ n \in Nat /\ Front \in Seq(Ops) /\ DOMAIN Front = 1..n
               /\ DOMAIN todo = 1..Len(todo) /\ Len(todo) \in Nat \ {0} /\ todo[1] = Head(todo)
               /\ \A i \in DOMAIN todo : todo[i] \in Ops
               /\ DOMAIN todo' = 1..(n + Len(todo) - 1)
               /\ \A i \in 1..n : todo'[i] = Front[i]
               /\ \A i \in DOMAIN todo' :
                     i > n => i - n + 1 \in DOMAIN todo /\ todo'[i] = todo[i - n + 1]
<1>. DEFINE n == Len(Front)
            t == Tail(todo)
<1>1. /\ todo # <<>> /\ todo \in Seq(Ops) /\ t \in Seq(Ops) /\ Front \in Seq(Ops)
      /\ todo' = Front \o t
    <2>1. todo # <<>> /\ todo' = Front \o t
        BY WorkChanges
    <2>2. todo \in Seq(GameOps) /\ t \in Seq(GameOps) /\ Front \in Seq(GameOps)
        BY <2>1, HeadIs, FrontIs
    <2>3. \A s \in Seq(GameOps) : s \in Seq(Ops)
        BY DEF GameOps
    <2>. QED
        BY <2>1, <2>2, <2>3
<1>2. /\ DOMAIN todo = 1..Len(todo) /\ Len(todo) \in Nat \ {0} /\ todo[1] = Head(todo)
      /\ Len(t) = Len(todo) - 1
      /\ \A i \in 1..(Len(todo) - 1) : t[i] = todo[i + 1]
    BY <1>1, TailIs
<1>3. \A i \in DOMAIN todo : todo[i] \in Ops
    BY <1>1, <1>2
<1>. HIDE DEF t
<1>4. /\ n \in Nat /\ DOMAIN Front = 1..n
      /\ DOMAIN todo' = 1..(n + (Len(todo) - 1))
      /\ \A i \in 1..n : todo'[i] = Front[i]
      /\ \A i \in 1..(Len(todo) - 1) : todo'[n + i] = t[i]
    BY <1>1, <1>2, ConcatIs
<1>. HIDE DEF n
<1>5. ASSUME NEW i \in DOMAIN todo', i > n
      PROVE  i - n + 1 \in DOMAIN todo /\ todo'[i] = todo[i - n + 1]
    <2>1. i - n \in 1..(Len(todo) - 1) /\ n + (i - n) = i
        BY <1>2, <1>4, <1>5
    <2>2. todo'[n + (i - n)] = t[i - n] /\ t[i - n] = todo[i - n + 1]
        BY <1>2, <1>4, <2>1
    <2>. QED
        BY <1>2, <2>1, <2>2
<1>6. DOMAIN todo' = 1..(n + Len(todo) - 1)
    BY <1>2, <1>4
<1>. QED
    BY <1>1, <1>2, <1>3, <1>4, <1>5, <1>6 DEF n

\* No file but a deleted one goes.
LEMMA StaysThere ==
    ASSUME Types, Script, Work, NEW f \in Files, Entry(f).form # "missing",
           Head(todo).op # "delete" \/ Head(todo).file # f
    PROVE  Entry(f)'.form # "missing"
<1>. DEFINE h == Head(todo)
<1>1. /\ world' = world
      /\ h.op \notin {"create", "write", "delete"} => disk' = disk
    BY WorkChanges
<1>2. CASE h.op \notin {"create", "write", "delete"}
    BY <1>1, <1>2 DEF Entry
<1>3. CASE h.op \in {"create", "write", "delete"}
    <2>1. world \in Worlds
        BY Zenon, <1>3, WorkOnDisk
    <2>2. CASE h.file # f
        <3>1. disk'[world][f] = disk[world][f]
            BY Zenon, <2>1, <2>2, WorkOnDisk
        <3>. QED
            BY <1>1, <3>1 DEF Entry
    <2>3. CASE h.file = f /\ h.op = "create"
        <3>1. disk' = disk
            BY <2>3, WorkOnDisk
        <3>. QED
            BY <1>1, <3>1 DEF Entry
    <2>4. CASE h.file = f /\ h.op = "write"
        <3>1. Written(disk'[world][f], Entry(f), f)
            BY <2>4, WorkOnDisk
        <3>. QED
            BY <1>1, <3>1 DEF Entry, Written
    <2>. QED
        BY <1>3, <2>2, <2>3, <2>4
<1>. QED
    BY <1>2, <1>3

\* What has been created is there.
LEMMA CreatedIsThere ==
    ASSUME Types, Script, Work, Head(todo).op = "create", NEW f, f = Head(todo).file
    PROVE  Entry(f)'.form # "missing"
<1>1. world' = world
    BY WorkChanges
<1>2. Fresh(disk'[world][f], Content(mem, f).room) \/ (Entry(f).form # "missing" /\ disk' = disk)
    BY WorkOnDisk
<1>. QED
    BY <1>1, <1>2 DEF Entry, Fresh

\* Without the file of entities, loading it creates one.
LEMMA LoadsCreate ==
    ASSUME Types, Script, Work, Head(todo).op = "load", Head(todo).file = EntityData,
           Entry(EntityData).form = "missing"
    PROVE  Front = saveEntityData(FALSE)
<1>. DEFINE C == CASE EntityData[1] = "worldData" -> <<Do("saveGame")>>
                   [] EntityData[1] = "chestData" -> saveChestData
                   [] EntityData[1] = "entityData" -> saveEntityData(FALSE)
                   [] OTHER -> <<>>
<1>1. EntityData[1] = "entityData"
    BY DEF EntityData
<1>2. C = saveEntityData(FALSE)
    BY <1>1
<1>. HIDE DEF C
<1>3. Front = C
    BY DEF Front, C
<1>. QED
    BY <1>2, <1>3

LEMMA WorkFinds ==
    ASSUME Types, Script, WritesFind, Work
    PROVE  WritesFind'
<1>. DEFINE h == Head(todo)
            n == Len(Front)
<1>1. /\ world' = world
      /\ h.op = "leave" => todo' = <<>> /\ screen' = "menu"
      /\ h.op # "leave" => screen' = screen
    BY WorkChanges, WorkDoes DEF Leave
<1>2. /\ todo # <<>> /\ h \in GameOps /\ h.file \in Files /\ h.file \in FilesFor(h.op)
    BY WorkDoes, HeadIs
<1>3. /\ \A m, f : h \in On(m, f) <=> h.op = m /\ h.file = f
    BY WorkTodo
<1>4. h.op = "delete" => h.file # EntityData
    BY <1>2 DEF FilesFor
<1>5. ASSUME h.op # "leave", NEW i \in DOMAIN todo', NEW f \in Listed, todo'[i] \in On("write", f)
      PROVE  \/ i > 1 /\ todo'[i - 1] \in On("create", f)
             \/ /\ Entry(f)'.form # "missing"
                /\ i = 1 \/ f = EntityData
    <2>1. /\ n \in Nat /\ DOMAIN Front = 1..n
          /\ DOMAIN todo = 1..Len(todo) /\ Len(todo) \in Nat \ {0} /\ todo[1] = h
          /\ DOMAIN todo' = 1..(n + Len(todo) - 1)
          /\ \A k \in 1..n : todo'[k] = Front[k]
          /\ \A k \in DOMAIN todo' :
                k > n => k - n + 1 \in DOMAIN todo /\ todo'[k] = todo[k - n + 1]
        BY <1>5, Shifted
    <2>2. f \in Files
        BY FilesAre
    <2>. HIDE DEF n, h
    <2>3. CASE i <= n
        <3>1. i \in 1..n /\ Front[i] \in On("write", f)
            BY <2>1, <2>3, <1>5
        <3>2. CASE h.op # "fit"
            <4>1. Paired(Front, {})
                BY <3>2, <1>2, FrontIs DEF h
            <4>2. i > 1 /\ i - 1 \in DOMAIN Front /\ Front[i - 1] \in On("create", f)
                BY <4>1, <3>1, <2>1 DEF Paired
            <4>. QED
                BY <4>2, <2>1
        <3>3. CASE h.op = "fit"
            <4>. DEFINE g == h.file
            <4>1. \/ Front = <<Op("delete", g), Op("create", g), Op("write", g)>>
                  \/ Front = <<Op("write", g)>> /\ Entry(g).room = Content(mem, g).room
                BY <3>3, <1>2, FrontCases DEF h, Reads
            <4>2. CASE Front = <<Op("delete", g), Op("create", g), Op("write", g)>>
                <5>1. n = 3
                    BY <4>2 DEF n
                <5>2. /\ Front[1] = Op("delete", g) /\ Front[2] = Op("create", g)
                      /\ Front[3] = Op("write", g)
                    BY <4>2
                <5>3. i = 3 /\ f = g
                    BY <5>1, <5>2, <3>1, <2>2, OpIs DEF Op, On
                <5>4. todo'[2] = Op("create", g)
                    BY <5>1, <5>2, <2>1
                <5>5. Op("create", g) \in On("create", g)
                    BY <1>2, OpIs DEF OpNames, h
                <5>. QED
                    BY <5>3, <5>4, <5>5
            <4>3. CASE Front = <<Op("write", g)>> /\ Entry(g).room = Content(mem, g).room
                <5>1. n = 1 /\ Front[1] = Op("write", g)
                    BY <4>3 DEF n
                <5>2. i = 1 /\ f = g
                    BY <5>1, <3>1 DEF On, Op
                <5>3. Content(mem, g).room \in 1..2
                    BY <1>2, ContentIs DEF Types, TypeOK, h
                <5>4. Entry(g).form # "missing"
                    <6>1. world \in Worlds
                        BY <3>3, <1>2, HeadIs DEF h, FileOps
                    <6>2. Entry(g).form = "missing" => Entry(g).room = 0
                        BY <6>1, <1>2 DEF Types, FilesSound, Entry, Missing, h
                    <6>. QED
                        BY <6>2, <5>3, <4>3
                <5>5. Entry(f)'.form # "missing"
                    <6>1. h.op # "delete"
                        BY <3>3
                    <6>. QED
                        BY <5>2, <5>4, <6>1, <2>2, StaysThere DEF h
                <5>. QED
                    BY <5>2, <5>5
            <4>. QED
                BY <4>1, <4>2, <4>3
        <3>. QED
            BY <3>2, <3>3
    <2>4. CASE i > n
        <3>. DEFINE j == i - n + 1
        <3>1. j \in DOMAIN todo /\ todo[j] \in On("write", f) /\ j >= 2 /\ j \in Nat
            BY <2>1, <2>4, <1>5
        <3>. HIDE DEF j
        <3>2. \/ todo[j - 1] \in On("create", f)
              \/ f = EntityData /\ Entry(f).form # "missing"
            BY <3>1 DEF WritesFind
        <3>3. CASE f = EntityData /\ Entry(f).form # "missing"
            BY <3>3, <1>4, <2>2, StaysThere DEF h
        <3>4. CASE todo[j - 1] \in On("create", f) /\ j = 2
            <4>1. h.op = "create" /\ h.file = f
                BY <3>4, <2>1, <1>3
            <4>2. Entry(f)'.form # "missing"
                BY <4>1, CreatedIsThere DEF h
            <4>3. n = 0
                <5>1. Front = <<>>
                    BY <4>1, <1>2, FrontIs DEF h, Reads
                <5>. QED
                    BY <5>1 DEF n
            <4>4. i = 1
                BY <3>4, <4>3, <2>1, <1>5 DEF j
            <4>. QED
                BY <4>2, <4>4
        <3>5. CASE todo[j - 1] \in On("create", f) /\ j # 2
            <4>1. j - 1 = (i - 1) - n + 1 /\ i - 1 > n /\ i - 1 \in DOMAIN todo' /\ i > 1
                BY <3>1, <3>5, <2>1, <2>4, <1>5 DEF j
            <4>2. todo'[i - 1] = todo[(i - 1) - n + 1]
                BY <4>1, <2>1
            <4>. QED
                BY <3>5, <4>1, <4>2
        <3>. QED
            BY <3>2, <3>3, <3>4, <3>5
    <2>. QED
        BY <2>1, <2>3, <2>4, <1>5
<1>6. ASSUME screen' = "game"
      PROVE  \/ Entry(EntityData)'.form # "missing"
             \/ Has(todo', On("create", EntityData) \cup On("load", EntityData))
    <2>1. h.op # "leave" /\ screen = "game"
        BY <1>1, <1>6
    <2>2. EntityData \in Files
        BY FilesAre
    <2>. DEFINE A == On("create", EntityData) \cup On("load", EntityData)
    <2>3. CASE Entry(EntityData).form # "missing"
        BY <2>2, <2>3, <1>4, StaysThere
    <2>4. CASE Entry(EntityData).form = "missing" /\ h \in A
        <3>1. CASE h.op = "create" /\ h.file = EntityData
            BY <3>1, CreatedIsThere
        <3>2. CASE h.op = "load" /\ h.file = EntityData
            <4>. DEFINE o == Op("create", EntityData)
            <4>1. /\ Front = saveEntityData(FALSE)
                BY <3>2, <2>4, LoadsCreate
            <4>2. o \in A /\ \A B : Has(saveEntityData(FALSE), B) <=> o \in B \/ Op("write", EntityData) \in B
                <5>1. o \in A
                    BY <2>2, OpIs DEF OpNames
                <5>. QED
                    BY <5>1, SaveIs DEF saveEntityData, EntityData
            <4>3. Has(Front, A)
                BY <4>1, <4>2
            <4>. QED
                BY <4>3, <2>1, WorkTodo
        <3>. QED
            BY <2>4, <3>1, <3>2, <1>3
    <2>5. CASE Entry(EntityData).form = "missing" /\ h \notin A
        <3>1. Has(todo, A)
            BY <2>1, <2>5 DEF WritesFind
        <3>. QED
            BY <3>1, <2>1, <2>5, WorkTodo
    <2>. QED
        BY <2>3, <2>4, <2>5
<1>7. \A i \in DOMAIN todo' : h.op # "leave"
    <2>1. h.op = "leave" => DOMAIN todo' = {}
        BY <1>1
    <2>. QED
        BY <2>1
<1>. QED
    BY <1>5, <1>6, <1>7 DEF WritesFind

\* A file and what it holds are untouched.
LEMMA MatchesStill ==
    ASSUME NEW f \in Files, world' = world, disk'[world][f] = disk[world][f],
           MainPart(mem, f)' = MainPart(mem, f), ExtraPart(mem, f)' = ExtraPart(mem, f),
           Matches(Entry(f), f)
    PROVE  Matches(Entry(f), f)'
    BY DEF Matches, Entry

\* A script that promises something is one of the game, and reads nothing
\* that it does not write after.
LEMMA WorkPromises ==
    ASSUME Types, Script, WritesFind, PromisedWritten, Work
    PROVE  PromisedWritten'
<1>. SUFFICES ASSUME Has(todo', Named(Promises)), NEW f \in Listed,
                     ~Has(todo', On("write", f) \cup On("fit", f))
              PROVE  Matches(Entry(f), f)'
    BY DEF PromisedWritten
<1>. DEFINE h == Head(todo)
            t == Tail(todo)
            A == On("write", f) \cup On("fit", f)
<1>1. /\ todo # <<>> /\ todo \in Seq(GameOps) /\ t \in Seq(GameOps) /\ InOrder(t) /\ InOrder(todo)
      /\ h \in GameOps /\ h.file \in Files /\ f \in Files /\ h.op \in OpNames
    BY WorkDoes, HeadIs, FilesAre DEF Script
<1>2. /\ \A B : Has(todo, B) <=> h \in B \/ Has(t, B)
      /\ \A B : Has(todo', B) <=> Has(Front, B) \/ Has(t, B)
      /\ \A N : h \in Named(N) <=> h.op \in N
      /\ \A n, g : h \in On(n, g) <=> h.op = n /\ h.file = g
      /\ h.op # "leave"
    BY WorkTodo
<1>3. Has(t, Named(Promises)) /\ Has(todo, Named(Promises))
    <2>1. Promises \cap Fronts = {}
        BY DEF Promises, Fronts
    <2>. QED
        BY <2>1, <1>2, WorkTodo
<1>4. ~Has(t, A) /\ ~Has(t, On("write", f)) /\ ~Has(Front, A)
    <2>1. ~Has(t, A) /\ ~Has(Front, A)
        BY <1>2
    <2>. QED
        BY <2>1, HasMore
<1>5. screen = "game"
    <2>1. CASE screen = "menu"
        BY <2>1, <1>3 DEF Script, Has, MenuOps, Named, Promises
    <2>2. CASE screen = "edit"
        BY <2>2, <1>3 DEF Script, Has, EditOps, Named, Promises
    <2>. QED
        BY <2>1, <2>2 DEF Types, TypeOK
<1>6. world' = world /\ world \in Worlds
    BY <1>5, WorkChanges DEF Types, TypeOK
<1>7. h.op \notin Promises
    <2>1. Never(todo, Named(Promises), Named(OpNames \ {"leave"}))
        BY <1>1 DEF InOrder
    <2>2. h.op \in Promises => ~Has(t, Named(OpNames \ {"leave"}))
        BY <2>1, <1>1, <1>2, NeverTail
    <2>3. Promises \subseteq OpNames \ {"leave"}
        BY DEF Promises, OpNames
    <2>. QED
        BY <2>2, <2>3, <1>3, HasNo
<1>8. h.op # "loaded"
    <2>1. h.op = "loaded" => Has(t, On("write", f))
        BY <1>1, <1>2, <1>3, ThenTail DEF InOrder
    <2>. QED
        BY <2>1, <1>4
<1>9. h.op \notin Reads
    <2>1. h.op \in Reads => Has(t, Named({"loaded"}))
        BY <1>1, <1>5, HeadIs
    <2>2. Then(t, Named({"loaded"}), On("write", f))
        BY <1>1, <1>3 DEF InOrder
    <2>3. Has(t, Named({"loaded"})) => Has(t, On("write", f))
        BY <2>2 DEF Then, Has
    <2>. QED
        BY <2>1, <2>3, <1>4
<1>10. ~(h.op = "delete" /\ h.file = f)
    <2>1. Then(todo, On("delete", f), On("write", f))
        BY <1>1 DEF InOrder
    <2>. QED
        BY <2>1, <1>1, <1>2, <1>4, ThenTail
<1>11. h.op = "replaceOldWater" => f \notin ChunkFiles
    <2>1. SUFFICES ASSUME h.op = "replaceOldWater", f \in ChunkFiles
                   PROVE  FALSE
        OBVIOUS
    <2>2. Then(todo, Named({"replaceOldWater"}), On("write", f))
        BY <1>1, <2>1 DEF InOrder
    <2>. QED
        BY <2>1, <2>2, <1>1, <1>2, <1>4, ThenTail
<1>12. h.op = "fit" => h.file # f
    <2>1. SUFFICES ASSUME h.op = "fit", h.file = f
                   PROVE  FALSE
        OBVIOUS
    <2>2. \/ Front = <<Op("delete", f), Op("create", f), Op("write", f)>>
          \/ Front = <<Op("write", f)>>
        BY <2>1, <1>1, FrontCases DEF Reads
    <2>3. /\ Op("delete", f) \in Ops /\ Op("create", f) \in Ops /\ Op("write", f) \in Ops
          /\ Op("write", f) \in A
        BY <1>1, OpIs DEF OpNames
    <2>. HIDE DEF A
    <2>4. Has(Front, A)
        BY <2>2, <2>3, OneOp, ThreeOps
    <2>. QED
        BY <2>4, <1>4 DEF A
<1>13. CASE h.op = "write" /\ h.file = f
    <2>1. /\ 1 \in DOMAIN todo /\ todo[1] = h
        BY <1>1, TailIs
    <2>2. Entry(f).form # "missing"
        <3>1. todo[1] \in On("write", f)
            BY <2>1, <1>2, <1>13
        <3>2. ~(1 > 1)
            OBVIOUS
        <3>3. \/ 1 > 1 /\ todo[1 - 1] \in On("create", f)
              \/ Entry(f).form # "missing"
            BY <3>1, <2>1 DEF WritesFind
        <3>. QED
            BY <3>2, <3>3
    <2>3. Written(disk'[world][f], Entry(f), f)
        BY <2>2, <1>13, WorkOnDisk
    <2>4. mem' = mem
        BY <1>13, WorkChanges DEF Reads
    <2>. QED
        BY <2>3, <2>4, <1>6 DEF Written, Matches, Entry
<1>14. CASE ~(h.op = "write" /\ h.file = f)
    <2>1. h \notin A
        BY <1>14, <1>12, <1>2
    <2>2. ~Has(todo, A)
        BY <2>1, <1>2, <1>4
    <2>3. Matches(Entry(f), f)
        BY <2>2, <1>3 DEF PromisedWritten
    <2>4. disk'[world][f] = disk[world][f]
        <3>1. CASE h.op = "create" /\ h.file = f
            <4>1. Entry(f).form # "missing"
                <5>1. Entry(f).form = "missing" => Entry(f) = Missing
                    BY <1>1, <1>6 DEF Types, FilesSound, Entry
                <5>. QED
                    BY <5>1, <2>3, FileTypesAre DEF Matches
            <4>. QED
                BY <4>1, <3>1, WorkOnDisk
        <3>2. CASE ~(h.op \in {"create", "write", "delete"} /\ h.file = f)
            BY Zenon, <3>2, <1>1, <1>6, WorkOnDisk
        <3>. QED
            BY <3>1, <3>2, <1>10, <1>14
    <2>5. MainPart(mem, f)' = MainPart(mem, f) /\ ExtraPart(mem, f)' = ExtraPart(mem, f)
        <3>1. CASE h.op = "replaceOldWater"
            <4>1. mem' = Dry(mem)
                BY Zenon, <3>1, WorkDoes DEF replaceOldWater, Dry
            <4>2. mem \in Parts
                BY DEF Types, TypeOK
            <4>. QED
                BY <4>1, <4>2, <3>1, <1>11, WetIs
        <3>2. CASE h.op # "replaceOldWater"
            <4>1. mem' = mem
                BY <3>2, <1>2, <1>9, WorkChanges
            <4>. QED
                BY <4>1
        <3>. QED
            BY <3>1, <3>2
    <2>. QED
        BY <2>3, <2>4, <2>5, <1>1, <1>6, MatchesStill
<1>. QED
    BY <1>13, <1>14

\* The operations on one chunk while the game is saved.
LEMMA WorkChunkOps ==
    ASSUME Types, Script, Work, world \in Worlds, NEW f \in ChunkFiles, ChunkOps(f), mem' = mem,
           Head(todo).op \notin Reads \cup {"leave"}
    PROVE  ChunkOps(f)'
<1>. DEFINE h == Head(todo)
            n == Len(Front)
            g == h.file
<1>1. /\ n \in Nat /\ DOMAIN Front = 1..n
      /\ DOMAIN todo = 1..Len(todo) /\ Len(todo) \in Nat \ {0} /\ todo[1] = h
      /\ DOMAIN todo' = 1..(n + Len(todo) - 1)
      /\ \A k \in 1..n : todo'[k] = Front[k]
      /\ \A k \in DOMAIN todo' :
            k > n => k - n + 1 \in DOMAIN todo /\ todo'[k] = todo[k - n + 1]
    BY Shifted
<1>2. /\ todo # <<>> /\ h \in GameOps /\ g \in Files /\ f \in Files /\ world' = world
    BY WorkDoes, HeadIs, WorkChanges, FilesAre
<1>3. \A m, x : h \in On(m, x) <=> h.op = m /\ h.file = x
    BY WorkTodo
<1>4. /\ \/ Front = <<>>
         \/ Front = <<Op("delete", g), Op("create", g), Op("write", g)>>
         \/ Front = <<Op("write", g)>> /\ Entry(g).room = Content(mem, g).room
      /\ Front = <<>> <=> h.op # "fit"
    <2>1. \/ Front = <<>> /\ h.op # "fit"
          \/ h.op = "fit" /\ Front = <<Op("delete", g), Op("create", g), Op("write", g)>>
          \/ h.op = "fit" /\ Front = <<Op("write", g)>> /\ Entry(g).room = Content(mem, g).room
          \/ h.op \in Reads
          \/ h.op = "load"
        BY <1>2, FrontCases
    <2>2. "load" \in Reads /\ h.op \notin Reads
        BY DEF Reads
    <2>3. <<Op("delete", g), Op("create", g), Op("write", g)>> # <<>> /\ <<Op("write", g)>> # <<>>
        OBVIOUS
    <2>. QED
        BY <2>1, <2>2, <2>3
<1>5. \A m \in {"delete", "create", "write"} :
         /\ Op(m, g) \in On(m, g)
         /\ \A p, x : Op(m, g) \in On(p, x) => p = m /\ x = g
    BY <1>2, OpIs DEF OpNames
<1>6. Len(todo') = n + Len(todo) - 1
    <2>1. todo' = Front \o Tail(todo) /\ Tail(todo) \in Seq(GameOps) /\ Front \in Seq(GameOps)
        BY <1>2, WorkChanges, HeadIs, FrontIs
    <2>2. Len(Tail(todo)) = Len(todo) - 1
        BY <1>2, HeadIs, TailIs
    <2>3. Len(todo') = n + Len(Tail(todo))
        BY <2>1, ConcatIs
    <2>. QED
        BY <2>2, <2>3, <1>1
<1>. HIDE DEF h, n
<1>7. /\ 1 \in DOMAIN todo
      /\ \A i \in DOMAIN todo : i \in Nat
      /\ \A i \in DOMAIN todo' : i \in Nat /\ i >= 1
    BY <1>1
\* What the head of the script was.
<1>8. /\ h \in On("create", f) => /\ Entry(f).form = "missing"
                                  /\ 2 \in DOMAIN todo /\ todo[2] \in On("write", f)
      /\ h \in On("delete", f) => /\ Len(todo) >= 3 /\ todo[2] \in On("create", f)
                                  /\ todo[3] \in On("write", f)
      /\ h \in On("write", f) => Entry(f).room = Content(mem, f).room
    BY <1>1, <1>7 DEF ChunkOps
<1>9. ASSUME NEW j \in DOMAIN todo, j >= 2
      PROVE  /\ todo[j] \notin On("delete", f)
             /\ todo[j] \in On("create", f) =>
                   /\ j = 2 /\ h \in On("delete", f) /\ j + 1 \in DOMAIN todo
                   /\ todo[j + 1] \in On("write", f)
             /\ todo[j] \in On("write", f) => todo[j - 1] \in On("create", f)
    BY <1>1, <1>7, <1>9 DEF ChunkOps
\* What stands behind the new operations.
<1>10. ASSUME NEW i \in DOMAIN todo', i > n
       PROVE  /\ i - n + 1 \in DOMAIN todo /\ i - n + 1 >= 2
              /\ todo'[i] = todo[i - n + 1]
              /\ i - n + 2 \in DOMAIN todo => i + 1 \in DOMAIN todo' /\ todo'[i + 1] = todo[i - n + 2]
              /\ i - 1 > n => todo'[i - 1] = todo[i - n]
    <2>1. i - n + 1 \in DOMAIN todo /\ i - n + 1 >= 2 /\ todo'[i] = todo[i - n + 1]
        BY <1>1, <1>10
    <2>2. i - n + 2 \in DOMAIN todo => i + 1 \in DOMAIN todo' /\ i + 1 > n /\ (i + 1) - n + 1 = i - n + 2
        BY <1>1, <1>10
    <2>3. i - 1 > n => i - 1 \in DOMAIN todo' /\ (i - 1) - n + 1 = i - n
        BY <1>1, <1>10
    <2>. QED
        BY <1>1, <2>1, <2>2, <2>3
<1>. DEFINE R1(i) == todo'[i] \in On("delete", f) =>
                        i = 1 /\ Len(todo') >= 3 /\ todo'[2] \in On("create", f)
                              /\ todo'[3] \in On("write", f)
            R2(i) == todo'[i] \in On("create", f) =>
                        /\ i + 1 \in DOMAIN todo' /\ todo'[i + 1] \in On("write", f)
                        /\ \/ i = 1 /\ Entry(f)'.form = "missing"
                           \/ i = 2 /\ todo'[1] \in On("delete", f)
            R3(i) == todo'[i] \in On("write", f) =>
                        \/ i = 1 /\ Entry(f)'.room = Content(mem, f).room
                        \/ i > 1 /\ todo'[i - 1] \in On("create", f)
<1>11. CASE Front = <<>>
    <2>1. n = 0 /\ h.op # "fit"
        BY <1>4, <1>11 DEF n
    <2>2. SUFFICES ASSUME NEW i \in DOMAIN todo'
                   PROVE  R1(i) /\ R2(i) /\ R3(i)
        BY Zenon, <2>2 DEF ChunkOps
    <2>3. R1(i)
        BY <2>1, <1>1, <1>7, <1>9, <1>10
    <2>4. R2(i)
        <3>1. SUFFICES ASSUME todo'[i] \in On("create", f)
                       PROVE  /\ i + 1 \in DOMAIN todo' /\ todo'[i + 1] \in On("write", f)
                              /\ i = 1 /\ Entry(f)'.form = "missing"
            OBVIOUS
        <3>2. i \in Nat /\ i >= 1 /\ i > n /\ i - n + 1 = i + 1 /\ i - n + 2 = i + 2
            BY <2>1, <1>7
        <3>3. todo[i + 1] \in On("create", f) /\ i + 1 \in DOMAIN todo /\ i + 1 >= 2
            BY <3>1, <3>2, <1>10
        <3>4. i + 1 = 2 /\ h \in On("delete", f) /\ (i + 1) + 1 \in DOMAIN todo /\ todo[(i + 1) + 1] \in On("write", f)
            BY <3>3, <1>9
        <3>5. (i + 1) + 1 = i + 2 /\ i = 1
            BY <3>2, <3>4
        <3>6. i + 1 \in DOMAIN todo' /\ todo'[i + 1] \in On("write", f)
            BY <3>2, <3>4, <3>5, <1>10
        <3>7. Entry(f)'.form = "missing"
            <4>1. disk'[world][h.file] = Missing /\ h.file = f
                BY Zenon, <3>4, <1>3, WorkOnDisk DEF h
            <4>. QED
                BY <4>1, <1>2, FileTypesAre DEF Entry
        <3>. QED
            BY <3>5, <3>6, <3>7
    <2>5. R3(i)
        <3>1. SUFFICES ASSUME todo'[i] \in On("write", f)
                       PROVE  \/ i = 1 /\ Entry(f)'.room = Content(mem, f).room
                              \/ i > 1 /\ todo'[i - 1] \in On("create", f)
            OBVIOUS
        <3>2. i \in Nat /\ i >= 1 /\ i > n /\ i - n + 1 = i + 1 /\ i - n = i
            BY <2>1, <1>7
        <3>3. todo[i + 1] \in On("write", f) /\ i + 1 \in DOMAIN todo /\ i + 1 >= 2 /\ (i + 1) - 1 = i
            BY <3>1, <3>2, <1>10
        <3>4. todo[i] \in On("create", f)
            BY <3>3, <1>9
        <3>5. CASE i = 1
            <4>1. h.op = "create" /\ h.file = f /\ Entry(f).form = "missing"
                BY <3>4, <3>5, <1>1, <1>3, <1>8
            <4>2. Fresh(disk'[world][f], Content(mem, f).room)
                BY <4>1, WorkOnDisk DEF h
            <4>. QED
                BY <4>2, <3>5, <1>2 DEF Fresh, Entry
        <3>6. CASE i # 1
            <4>1. i - 1 > n /\ i > 1
                BY <3>2, <3>6, <2>1
            <4>. QED
                BY <4>1, <3>2, <3>4, <1>10
        <3>. QED
            BY <3>5, <3>6
    <2>. QED
        BY <2>3, <2>4, <2>5
<1>12. CASE Front # <<>>
    <2>1. h.op = "fit" /\ h \notin On("delete", f) /\ h \notin On("create", f) /\ h \notin On("write", f)
          /\ disk' = disk
        <3>1. h.op = "fit"
            BY <1>4, <1>12
        <3>. QED
            BY <3>1, <1>3, WorkChanges DEF h
    <2>2. ASSUME NEW i \in DOMAIN todo', i > n
          PROVE  /\ todo'[i] \notin On("delete", f) /\ todo'[i] \notin On("create", f)
                 /\ todo'[i] \notin On("write", f) \/ (i > 1 /\ todo'[i - 1] \in On("create", f))
        <3>. DEFINE j == i - n + 1
        <3>1. j \in DOMAIN todo /\ j >= 2 /\ todo'[i] = todo[j]
            BY <2>2, <1>10
        <3>2. todo[j] \notin On("delete", f) /\ todo[j] \notin On("create", f)
            BY <3>1, <2>1, <1>9
        <3>3. todo[j] \notin On("write", f)
            <4>1. SUFFICES ASSUME todo[j] \in On("write", f)
                           PROVE  FALSE
                OBVIOUS
            <4>2. todo[j - 1] \in On("create", f)
                BY <4>1, <3>1, <1>9
            <4>3. j - 1 \in DOMAIN todo /\ (j - 1 = 1 \/ j - 1 >= 2)
                <5>. HIDE DEF j
                <5>. QED
                    BY <3>1, <1>1
            <4>. QED
                BY <4>2, <4>3, <1>1, <1>9, <2>1
        <3>. QED
            BY <3>1, <3>2, <3>3
    <2>3. CASE Front = <<Op("write", g)>>
        <3>1. n = 1 /\ Front[1] = Op("write", g)
            BY <2>3 DEF n
        <3>2. todo'[1] = Op("write", g)
            BY <3>1, <1>1
        <3>3. /\ todo'[1] \notin On("delete", f) /\ todo'[1] \notin On("create", f)
              /\ todo'[1] \in On("write", f) => Entry(f)'.room = Content(mem, f).room
            <4>1. Entry(g).room = Content(mem, g).room
                <5>1. Front[1] # Op("delete", g)
                    BY <3>1 DEF Op
                <5>. QED
                    BY <5>1, <1>4, <2>3
            <4>2. \A x : Entry(x)' = Entry(x)
                BY <2>1, <1>2 DEF Entry
            <4>. QED
                BY <4>1, <4>2, <3>2, <1>5
        <3>4. \A i \in DOMAIN todo' : i = 1 \/ i > n
            BY <3>1, <1>7
        <3>5. SUFFICES ASSUME NEW i \in DOMAIN todo'
                       PROVE  R1(i) /\ R2(i) /\ R3(i)
            BY Zenon, <3>5 DEF ChunkOps
        <3>. QED
            BY <3>3, <3>4, <2>2
    <2>4. CASE Front = <<Op("delete", g), Op("create", g), Op("write", g)>>
        <3>1. /\ n = 3 /\ Front[1] = Op("delete", g) /\ Front[2] = Op("create", g)
              /\ Front[3] = Op("write", g)
            BY <2>4 DEF n
        <3>2. /\ todo'[1] = Op("delete", g) /\ todo'[2] = Op("create", g) /\ todo'[3] = Op("write", g)
              /\ Len(todo') >= 3 /\ {1, 2, 3} \subseteq DOMAIN todo'
            BY <3>1, <1>1, <1>6
        <3>3. \A i \in DOMAIN todo' : i = 1 \/ i = 2 \/ i = 3 \/ i > n
            BY <3>1, <1>7
        <3>4. SUFFICES ASSUME NEW i \in DOMAIN todo'
                       PROVE  R1(i) /\ R2(i) /\ R3(i)
            BY Zenon, <3>4 DEF ChunkOps
        <3>5. CASE i = 1
            BY <3>2, <3>5, <1>5
        <3>6. CASE i = 2
            BY <3>2, <3>6, <1>5
        <3>7. CASE i = 3
            BY <3>2, <3>7, <1>5
        <3>. QED
            BY <3>3, <3>5, <3>6, <3>7, <2>2
    <2>. QED
        BY <2>3, <2>4, <1>4, <1>12
<1>. QED
    BY <1>11, <1>12

\* A save goes on.
LEMMA WorkSaves ==
    ASSUME Types, Script, WritesFind, SavingFits, Work
    PROVE  SavingFits'
<1>. SUFFICES ASSUME Saving'
              PROVE  SavingFits'
    BY DEF SavingFits
<1>. DEFINE h == Head(todo)
            t == Tail(todo)
<1>1. /\ \A B : Has(todo, B) <=> h \in B \/ Has(t, B)
      /\ \A B : Has(todo', B) <=> Has(Front, B) \/ Has(t, B)
      /\ \A n, g : h \in On(n, g) <=> h.op = n /\ h.file = g
      /\ h.op # "leave"
    BY WorkTodo DEF Saving
<1>2. Saving /\ h.op # "saved"
    <2>1. Has(t, Named({"saved"}))
        BY WorkTodo DEF Saving, Fronts
    <2>2. h.op = "saved" => ~Has(t, Named(OpNames \ {"leave"}))
        <3>1. Never(todo, Named(Promises), Named(OpNames \ {"leave"}))
            BY DEF Script, InOrder
        <3>2. todo # <<>> /\ todo \in Seq(GameOps)
            BY WorkDoes, HeadIs
        <3>3. h.op = "saved" => h \in Named(Promises)
            BY WorkTodo DEF Promises
        <3>. QED
            BY <3>1, <3>2, <3>3, NeverTail
    <2>3. {"saved"} \subseteq OpNames \ {"leave"}
        BY DEF OpNames
    <2>. QED
        BY <2>1, <2>2, <2>3, <1>1, HasNo DEF Saving
<1>3. h.op \notin Reads \cup Conversions \cup {"loaded"}
    BY <1>2, SavesDoNotConvert
<1>4. mem' = mem /\ saved' = saved /\ world' = world
    BY <1>1, <1>2, <1>3, WorkChanges DEF Conversions
<1>5. /\ todo # <<>> /\ h \in GameOps /\ h.file \in Files /\ h.file \in FilesFor(h.op)
      /\ world \in Worlds
    <2>1. todo # <<>> /\ h \in GameOps /\ h.file \in Files /\ h.file \in FilesFor(h.op)
        BY WorkDoes, HeadIs
    <2>2. screen = "game"
        <3>1. PICK i \in DOMAIN todo : todo[i].op = "saved" /\ todo[i] \in Ops
            BY <1>2 DEF Saving, Has, Named
        <3>2. screen = "menu" => todo[i] \in MenuOps
            BY DEF Script
        <3>3. screen = "edit" => todo[i] \in EditOps
            BY DEF Script
        <3>. QED
            BY <3>1, <3>2, <3>3 DEF Types, TypeOK, MenuOps, EditOps
    <2>. QED
        BY <2>1, <2>2 DEF Types, TypeOK
<1>6. /\ \A f \in Files \ ChunkFiles : ~Has(todo, On("delete", f))
      /\ saved[world] # {} => Snapshot(mem, 5, "save") \in saved[world]
      /\ \A f \in ChunkFiles : CutRewritten(f) /\ ChunkOps(f)
    BY <1>2 DEF SavingFits
<1>7. /\ \/ Front = <<>>
         \/ Front = <<Op("delete", h.file), Op("create", h.file), Op("write", h.file)>>
         \/ Front = <<Op("write", h.file)>>
      /\ Front = <<>> <=> h.op # "fit"
    <2>1. \/ Front = <<>> /\ h.op # "fit"
          \/ h.op = "fit" /\ Front = <<Op("delete", h.file), Op("create", h.file), Op("write", h.file)>>
          \/ h.op = "fit" /\ Front = <<Op("write", h.file)>>
          \/ h.op \in Reads
          \/ h.op = "load"
        BY <1>5, FrontCases
    <2>2. "load" \in Reads /\ h.op \notin Reads
        BY <1>3 DEF Reads
    <2>3. /\ <<Op("delete", h.file), Op("create", h.file), Op("write", h.file)>> # <<>>
          /\ <<Op("write", h.file)>> # <<>>
        OBVIOUS
    <2>. QED
        BY <2>1, <2>2, <2>3
<1>8. \A m \in {"delete", "create", "write"} :
         /\ Op(m, h.file) \in Ops
         /\ Op(m, h.file) \in On(m, h.file)
         /\ \A p, x : Op(m, h.file) \in On(p, x) => p = m /\ x = h.file
    BY <1>5, OpIs DEF OpNames
<1>9. h.op = "fit" => h.file \in ChunkFiles
    BY <1>5 DEF FilesFor
<1>. HIDE DEF h, t
<1>10. ASSUME NEW f \in Files \ ChunkFiles
       PROVE  ~Has(todo', On("delete", f))
    <2>1. ~Has(t, On("delete", f))
        BY <1>1, <1>6
    <2>2. ~Has(Front, On("delete", f))
        <3>1. CASE Front = <<>>
            BY <3>1, HasNothing
        <3>2. CASE Front # <<>>
            <4>1. f # h.file
                BY <3>2, <1>7, <1>9
            <4>. QED
                BY <3>2, <4>1, <1>7, <1>8, OneOp, ThreeOps
        <3>. QED
            BY <3>1, <3>2
    <2>. QED
        BY <2>1, <2>2, <1>1
<1>11. saved'[world'] # {} => Snapshot(mem', 5, "save") \in saved'[world']
    BY <1>4, <1>6
<1>12. ASSUME NEW f \in ChunkFiles
       PROVE  CutRewritten(f)'
    <2>. DEFINE A == On("fit", f) \cup On("delete", f) \cup On("write", f)
    <2>1. SUFFICES ASSUME Entry(f)'.cut
                   PROVE  Has(todo', A)
        BY DEF CutRewritten
    <2>2. Entry(f)' = disk'[world][f] /\ f \in Files
        BY <1>4, FilesAre DEF Entry
    <2>3. CASE h.file = f /\ h.op = "fit"
        <3>1. Op("write", f) \in A /\ Op("write", f) \in Ops
            BY <2>3, <1>8
        <3>. HIDE DEF A
        <3>2. Has(Front, A)
            BY <3>1, <2>3, <1>7, <1>8, OneOp, ThreeOps
        <3>. QED
            BY <3>2, <1>1
    <2>4. CASE h.file = f /\ h.op \in {"create", "write", "delete"}
        <3>1. /\ ~disk'[world][f].cut \/ disk'[world][f] = disk[world][f]
              /\ h.op = "write" => ~disk'[world][f].cut
            BY <2>4, <1>2, <1>5, ChunkWritten DEF h
        <3>2. Entry(f).cut /\ h.op # "write"
            BY <3>1, <2>1, <2>2, <2>4 DEF Entry
        <3>3. h.op # "delete"
            <4>1. h.op = "delete" => disk'[world][f] = Missing
                BY Zenon, <2>4, WorkOnDisk DEF h
            <4>. QED
                BY <4>1, <2>1, <2>2, FileTypesAre
        <3>4. Has(todo, A) /\ h \notin A
            BY <3>2, <3>3, <2>4, <1>1, <1>6 DEF CutRewritten
        <3>. QED
            BY <3>4, <1>1
    <2>5. CASE ~(h.file = f /\ h.op \in {"create", "write", "delete", "fit"})
        <3>1. disk'[world][f] = disk[world][f]
            BY Zenon, <2>2, <2>5, <1>5, WorkOnDisk DEF h
        <3>2. Has(todo, A) /\ h \notin A
            BY <3>1, <2>1, <2>2, <2>5, <1>1, <1>6 DEF CutRewritten, Entry
        <3>. QED
            BY <3>2, <1>1
    <2>. QED
        BY <2>3, <2>4, <2>5
<1>13. ASSUME NEW f \in ChunkFiles
       PROVE  ChunkOps(f)'
    <2>1. h.op \notin Reads \cup {"leave"} /\ ChunkOps(f) /\ mem' = mem
        BY <1>1, <1>3, <1>4, <1>6
    <2>. QED
        BY <2>1, <1>5, WorkChunkOps DEF h
<1>. QED
    BY <1>10, <1>11, <1>12, <1>13 DEF SavingFits

\* What a world that is promised something is loaded from is there.
LEMMA ReadsFindFiles ==
    ASSUME Types, Script, Reading, Work, Head(todo).op \in Reads, screen = "game",
           saved[world] # {}, \A w \in Worlds : Kept(w)
    PROVE  Front = <<>>
<1>. DEFINE h == Head(todo)
            f == h.file
            v == worldVersion[world]
<1>1. /\ todo # <<>> /\ todo \in Seq(GameOps) /\ h \in GameOps /\ f \in FilesFor(h.op)
      /\ f \in Files /\ Has(Tail(todo), Named({"loaded"}))
    BY WorkDoes, HeadIs
<1>2. world \in Worlds /\ v \in Nat
    BY DEF Types, TypeOK
<1>3. ReadsFit
    <2>1. Loading
        BY <1>1, WorkTodo DEF Loading
    <2>. QED
        BY <2>1 DEF Reading
<1>4. h.op = "load" /\ f = EntityData => v >= 4
    <2>1. 1 \in DOMAIN todo /\ todo[1] = h
        BY <1>1, TailIs
    <2>. QED
        BY <2>1, <1>3 DEF ReadsFit
<1>5. VersionsAgree(world) /\ FilesHeld(world)
    BY <1>2 DEF Kept
<1>6. f \in {WorldData, <<"chestData", 0>>} \/ (f = EntityData /\ v >= 4) => f \in FilesOf(v)
    BY <1>2, FilesOfIs
<1>7. f \in {WorldData, <<"chestData", 0>>, EntityData} => f \notin ChunkFiles
    BY KindsDiffer DEF ChunkFiles, WorldData, EntityData
<1>8. f \in {WorldData, <<"chestData", 0>>} \/ (f = EntityData /\ v >= 4) => Entry(f).form # "missing"
    BY <1>2, <1>5, <1>6, <1>7, HeldIsThere DEF Entry
<1>9. h.op # "load" => f # EntityData
    BY <1>1 DEF Reads, FilesFor, EntityData
<1>. QED
    BY <1>1, <1>4, <1>8, <1>9, FrontCases DEF Reads

LEMMA WorkLoadsFirst ==
    ASSUME Types, Script, Listing, Writing, Reading, Work, \A w \in Worlds : Kept(w)
    PROVE  LoadsFirst'
<1>. SUFFICES ASSUME screen' = "game", ~Saving', saved'[world'] # {}
              PROVE  /\ First(todo', Named({"loaded"}), Named(Changes))
                     /\ worldVersion'[world'] = 5 => ~Has(todo', Named(Changes))
    BY DEF LoadsFirst
<1>. DEFINE h == Head(todo)
            t == Tail(todo)
<1>1. /\ todo # <<>> /\ todo \in Seq(GameOps) /\ t \in Seq(GameOps) /\ h.op \in OpNames
    BY WorkDoes, HeadIs
<1>2. h.op # "leave"
    BY WorkDoes DEF Leave
<1>3. /\ screen = "game" /\ world' = world /\ todo' = Front \o t
      /\ h.op \notin {"loaded", "made", "saved"} => saved' = saved
      /\ h.op \notin {"list", "setVersion4", "setVersion5"} => worldVersion' = worldVersion
    BY <1>2, WorkChanges
<1>4. world \in Worlds /\ worldVersion \in [Worlds -> Nat] /\ saved \in [Worlds -> SUBSET Snapshots]
    BY <1>3 DEF Types, TypeOK
<1>5. h.op \notin Reads \cup {"fit"} => Front = <<>> /\ todo' = t
    <2>1. h.op \notin Reads \cup {"fit"} => Front = <<>>
        BY <1>1, FrontIs
    <2>2. <<>> \o t = t
        BY <1>1
    <2>. QED
        BY <2>1, <2>2, <1>3
<1>6. CASE h.op \in Promises
    <2>1. ~Has(t, Named(OpNames \ {"leave"}))
        <3>1. Never(todo, Named(Promises), Named(OpNames \ {"leave"}))
            BY DEF Script, InOrder
        <3>2. h \in Named(Promises)
            BY <1>6, WorkTodo
        <3>. QED
            BY <3>1, <3>2, <1>1, NeverTail
    <2>2. Changes \in SUBSET (OpNames \ {"leave"})
        BY DEF Changes, FileOps, Conversions, OpNames
    <2>3. ~Has(t, Named(Changes))
        BY <2>1, <2>2, HasNo
    <2>4. todo' = t
        BY <1>5, <1>6 DEF Promises, Reads
    <2>. QED
        BY <2>3, <2>4, HasNone
<1>7. CASE h.op \notin Promises
    <2>1. ~Saving
        <3>1. Saving => Has(t, Named({"saved"}))
            BY <1>7, WorkTodo DEF Saving, Promises
        <3>. QED
            BY <3>1, WorkTodo DEF Saving, Fronts
    <2>2. saved[world] # {}
        <3>1. CASE h.op = "loaded"
            <4>1. saved' = saved \/ saved' = [saved EXCEPT ![world] = {}]
                BY <3>1, WorkDoes DEF Loaded
            <4>. QED
                BY <4>1, <1>3, <1>4
        <3>2. CASE h.op # "loaded"
            BY <3>2, <1>3, <1>7 DEF Promises
        <3>. QED
            BY <3>1, <3>2
    <2>3. /\ First(todo, Named({"loaded"}), Named(Changes))
          /\ worldVersion[world] = 5 => ~Has(todo, Named(Changes))
        BY <2>1, <2>2, <1>3 DEF Writing, LoadsFirst
    <2>4. h.op \notin Changes
        BY <2>1, <2>2, <1>3, NothingChanges DEF Writing
    <2>5. worldVersion' = worldVersion
        BY <2>4, <1>3 DEF Changes, Conversions
    <2>6. Front = <<>> /\ todo' = t
        <3>1. CASE h.op \in Reads
            <4>1. Front = <<>>
                BY <3>1, <2>2, <1>3, ReadsFindFiles
            <4>2. <<>> \o t = t
                BY <1>1
            <4>. QED
                BY <4>1, <4>2, <1>3
        <3>2. CASE h.op \notin Reads
            BY <3>2, <2>4, <1>5 DEF Changes, FileOps
        <3>. QED
            BY <3>1, <3>2
    <2>7. worldVersion[world] = 5 => ~Has(t, Named(Changes))
        BY <2>3, WorkTodo
    <2>8. CASE h.op = "loaded"
        <3>1. worldVersion[world] = 5
            <4>1. saved' = IF worldVersion[world] < currentVersion
                           THEN [saved EXCEPT ![world] = {}] ELSE saved
                BY <2>8, WorkDoes DEF Loaded
            <4>2. ~(worldVersion[world] < 5)
                BY <4>1, <1>3, <1>4 DEF currentVersion
            <4>3. ~Has(todo, Named({"list"}))
                <5>1. Then(todo, Named({"fit", "list"}), Named({"saved"}))
                    BY DEF Script, InOrder
                <5>. QED
                    BY <5>1, <2>1 DEF Saving, Then, Has, Named
            <4>. QED
                BY <4>2, <4>3, <1>1, <1>3, <1>4 DEF Listing
        <3>. QED
            BY <3>1, <2>5, <2>6, <2>7, HasNone
    <2>9. CASE h.op # "loaded"
        <3>1. h \notin Named({"loaded"})
            BY <2>9, WorkTodo
        <3>2. First(t, Named({"loaded"}), Named(Changes))
            BY <3>1, <2>3, <1>1, FirstTail
        <3>. QED
            BY <3>2, <2>5, <2>6, <2>7, <1>3
    <2>. QED
        BY <2>8, <2>9
<1>. QED
    BY <1>6, <1>7

LEMMA WorkOptions ==
    ASSUME Types, Script, OptionsKnown, Work
    PROVE  OptionsKnown'
<1>. SUFFICES ASSUME screen' = "menu", Has(todo', Named({"write"})), saved'[world'] # {}
              PROVE  \E s \in saved'[world'] : s.version <= 5 /\ s.parts.info = mem'.info
    BY DEF OptionsKnown
<1>. DEFINE h == Head(todo)
<1>1. h.op # "leave"
    BY WorkTodo
<1>2. screen = "menu" /\ todo # <<>> /\ world' = world
    BY <1>1, WorkChanges
<1>3. h.op \in {"create", "write", "saveGame"} /\ Front = <<>>
    BY <1>2, HeadIs, FrontIs DEF MenuOps
<1>4. mem' = mem /\ saved' = saved
    BY <1>3, WorkChanges DEF Reads
<1>5. Has(todo, Named({"write"}))
    BY <1>1, <1>3, HasNothing, WorkTodo
<1>. QED
    BY <1>2, <1>4, <1>5 DEF OptionsKnown

LEMMA WorkWriting ==
    ASSUME Types, Script, Listing, Writing, Reading, Work, \A w \in Worlds : Kept(w)
    PROVE  Writing'
<1>1. WritesFind' /\ PromisedWritten' /\ SavingFits' /\ OptionsKnown'
    BY WorkFinds, WorkPromises, WorkSaves, WorkOptions DEF Writing
<1>. QED
    BY <1>1, WorkLoadsFirst DEF Writing

\* The screens that are no game write nothing that is promised.
LEMMA NothingWritten ==
    ASSUME Types, Script, todo' \in {<<>>, <<Do("saveGame")>>, loadWorldData},
           screen' \in {"menu", "edit"}
    PROVE  Writing'
<1>1. /\ ~Has(todo', Named({"write"})) /\ ~Has(todo', Named(Promises)) /\ ~Has(todo', Named({"saved"}))
    <2>1. "write" # "load" /\ "saveGame" \notin Promises /\ "load" \notin Promises
        BY DEF Promises
    <2>. QED
        BY <2>1, NothingToDo, MenuScriptsAre
<1>2. \A i \in DOMAIN todo', f \in Listed : todo'[i] \notin On("write", f)
    BY <1>1 DEF Has, Named, On
<1>3. WritesFind'
    BY <1>2 DEF WritesFind
<1>4. PromisedWritten' /\ SavingFits'
    BY <1>1 DEF PromisedWritten, SavingFits, Saving
<1>5. LoadsFirst' /\ OptionsKnown'
    BY <1>1 DEF LoadsFirst, OptionsKnown
<1>. QED
    BY <1>3, <1>4, <1>5 DEF Writing

\* A script that creates what it writes.
LEMMA CreatesFirst ==
    ASSUME Paired(todo', {}),
           screen' = "game" => Has(todo', On("create", EntityData) \cup On("load", EntityData))
    PROVE  WritesFind'
<1>1. \A i \in DOMAIN todo', f \in Listed : todo'[i] \in On("write", f) =>
         i > 1 /\ todo'[i - 1] \in On("create", f)
    BY DEF Paired
<1>. QED
    BY <1>1 DEF WritesFind

LEMMA SaveWriting ==
    ASSUME Types, Script, Listing, Writing, NEW quit \in BOOLEAN, SaveWorld(quit)
    PROVE  Writing'
<1>. DEFINE s == SaveScript(quit)
<1>1. /\ todo = <<>> /\ screen = "game" /\ screen' = "game" /\ world' = world /\ mem' = mem
      /\ disk' = disk /\ worldVersion' = worldVersion
      /\ todo' = saveAllChunk(worldExists[world]) \o <<Do("list"), Do("saveGame"), Do("saved")>>
                 \o (IF quit THEN <<Do("leave")>> ELSE <<>>)
      /\ saved' = [saved EXCEPT ![world] =
                        IF @ = {} \/ worldVersion[world] > currentVersion THEN {}
                        ELSE @ \cup {Snapshot(mem, currentVersion, "save")}]
    BY DEF SaveWorld, Idle
<1>2. /\ world \in Worlds /\ saved \in [Worlds -> SUBSET Snapshots]
      /\ worldExists \in [Worlds -> BOOLEAN]
    BY <1>1 DEF Types, TypeOK
<1>3. todo' = s
    <2>1. worldExists[world] = TRUE
        BY <1>1, <1>2 DEF Listing
    <2>. QED
        BY <1>1, <2>1 DEF SaveScript
<1>4. /\ Paired(s, {EntityData}) /\ Has(s, Named({"saved"}))
      /\ \A f \in Listed : Has(s, On("write", f) \cup On("fit", f))
      /\ \A f \in ChunkFiles : /\ Has(s, On("fit", f)) /\ ~Has(s, On("create", f))
                               /\ ~Has(s, On("write", f))
      /\ \A f : ~Has(s, On("delete", f))
    BY SaveScriptIs
<1>. HIDE DEF s
<1>5. WritesFind'
    <2>1. Entry(EntityData).form # "missing"
        BY <1>1, NothingToDo DEF Writing, WritesFind
    <2>2. Entry(EntityData)'.form # "missing"
        BY <2>1, <1>1 DEF Entry
    <2>3. \A i \in DOMAIN todo', f \in Listed : todo'[i] \in On("write", f) =>
             \/ f = EntityData
             \/ i > 1 /\ todo'[i - 1] \in On("create", f)
        BY <1>3, <1>4 DEF Paired
    <2>. QED
        BY <2>2, <2>3 DEF WritesFind
<1>6. PromisedWritten'
    BY <1>3, <1>4 DEF PromisedWritten
<1>7. SavingFits'
    <2>1. saved'[world'] # {} => Snapshot(mem', 5, "save") \in saved'[world']
        BY <1>1, <1>2 DEF currentVersion
    <2>2. ASSUME NEW f \in ChunkFiles
          PROVE  CutRewritten(f)' /\ ChunkOps(f)'
        <3>1. Has(todo', On("fit", f) \cup On("delete", f) \cup On("write", f))
            BY <1>3, <1>4 DEF Has
        <3>2. \A i \in DOMAIN todo' : /\ todo'[i] \notin On("delete", f)
                                      /\ todo'[i] \notin On("create", f)
                                      /\ todo'[i] \notin On("write", f)
            BY <1>3, <1>4 DEF Has
        <3>. QED
            BY <3>1, <3>2 DEF CutRewritten, ChunkOps
    <2>. QED
        BY <2>1, <2>2, <1>3, <1>4 DEF SavingFits
<1>8. LoadsFirst' /\ OptionsKnown'
    BY <1>1, <1>3, <1>4 DEF LoadsFirst, OptionsKnown, Saving
<1>. QED
    BY <1>5, <1>6, <1>7, <1>8 DEF Writing

LEMMA OpenWriting ==
    ASSUME Types, NewerThere, NEW w \in Worlds, OpenWorld(w)
    PROVE  Writing'
<1>. DEFINE v == worldVersion[w]
            s == loadAllChunk(v)
<1>1. /\ todo' = s /\ screen' = "game" /\ world' = w /\ worldVersion' = worldVersion
      /\ disk' = disk
    BY DEF OpenWorld
<1>2. v \in Nat
    BY DEF Types, TypeOK
<1>0. SUFFICES ASSUME v \in 0..5
               PROVE  Writing'
    <2>1. SUFFICES ASSUME v > 5
                   PROVE  Writing'
        BY <1>2
    <2>2. s = <<>>
        BY <2>1, <1>2, OpenScriptIs
    <2>. HIDE DEF s
    <2>3. todo' = <<>> /\ \A A : ~Has(todo', A)
        BY <1>1, <2>2, NothingToDo
    <2>4. Entry(EntityData)'.form # "missing"
        BY <1>1, <2>1 DEF NewerThere, Entry
    <2>5. WritesFind'
        BY <2>3, <2>4 DEF WritesFind
    <2>6. PromisedWritten' /\ SavingFits' /\ LoadsFirst' /\ OptionsKnown'
        BY <1>1, <2>3, HasNone DEF PromisedWritten, SavingFits, LoadsFirst, OptionsKnown, Saving
    <2>. QED
        BY <2>5, <2>6 DEF Writing
<1>3. /\ s \in Seq(GameOps) /\ Paired(s, {}) /\ ~Has(s, Named({"saved"}))
      /\ First(s, Named({"loaded"}), Named(Changes))
      /\ v = 5 => ~Has(s, Named(Changes)) /\ ~Has(s, Named(Promises))
      /\ v < 4 => Has(s, On("create", EntityData))
      /\ \A f \in Listed : v < 5 => Has(s, On("write", f))
      /\ \A f \in FilesOf(v) : Has(s, ReadOf(f))
    BY <1>2, <1>0, LoadScriptIs
<1>4. v >= 4 => Has(s, On("load", EntityData))
    <2>1. SUFFICES ASSUME v >= 4
                   PROVE  Has(s, On("load", EntityData))
        OBVIOUS
    <2>2. EntityData \in FilesOf(v)
        BY <1>2, <2>1, FilesOfIs
    <2>. HIDE DEF s, v
    <2>3. PICK i \in DOMAIN s : s[i] \in ReadOf(EntityData)
        BY <2>2, <1>3 DEF Has
    <2>4. s[i] \in GameOps
        BY <1>3
    <2>5. s[i] \in On("load", EntityData)
        BY <2>3, <2>4 DEF ReadOf, On, GameOps, FilesFor, EntityData
    <2>. QED
        BY <2>5 DEF Has
<1>. HIDE DEF s, v
<1>5. WritesFind'
    <2>1. Has(s, On("create", EntityData) \cup On("load", EntityData))
        <3>1. v >= 4 \/ v < 4
            BY <1>2
        <3>. QED
            BY <3>1, <1>3, <1>4, HasMore
    <2>. QED
        BY <2>1, <1>1, <1>3, CreatesFirst
<1>6. PromisedWritten'
    <2>1. SUFFICES ASSUME Has(s, Named(Promises)), NEW f \in Listed
                   PROVE  Has(s, On("write", f) \cup On("fit", f))
        BY <1>1 DEF PromisedWritten
    <2>2. v < 5
        BY <2>1, <1>0, <1>3
    <2>. QED
        BY <2>2, <1>3, HasMore
<1>7. SavingFits' /\ OptionsKnown'
    BY <1>1, <1>3 DEF SavingFits, OptionsKnown, Saving
<1>8. LoadsFirst'
    BY <1>1, <1>3 DEF LoadsFirst, v
<1>. QED
    BY <1>5, <1>6, <1>7, <1>8 DEF Writing

LEMMA CreateWriting ==
    ASSUME Types, NEW w \in Worlds, CreateWorld(w)
    PROVE  Writing'
<1>1. /\ todo' = CreateScript /\ screen' = "game" /\ world' = w
      /\ saved' = [saved EXCEPT ![w] = {}]
    BY DEF CreateWorld, CreateScript
<1>2. saved'[world'] = {}
    BY <1>1 DEF Types
<1>3. LET s == CreateScript
      IN  /\ Paired(s, {}) /\ ~Has(s, Named({"saved"}))
          /\ Has(s, On("create", EntityData)) /\ \A f \in Listed : Has(s, On("write", f))
    BY CreateScriptIs, HasNo
<1>4. WritesFind'
    BY <1>1, <1>3, CreatesFirst, HasMore
<1>5. PromisedWritten'
    BY <1>1, <1>3, HasMore DEF PromisedWritten
<1>6. SavingFits' /\ LoadsFirst' /\ OptionsKnown'
    BY <1>1, <1>2, <1>3 DEF SavingFits, LoadsFirst, OptionsKnown, Saving
<1>. QED
    BY <1>4, <1>5, <1>6 DEF Writing

LEMMA EditWriting ==
    ASSUME Types, ConfirmEdit
    PROVE  Writing'
<1>. DEFINE info == Made(world, now + 1)
            version == IF useCurrentVersion THEN currentVersion ELSE 0
            s == saveWorldData \o <<Do("saveGame")>>
<1>1. /\ now < MaxStamp /\ screen = "edit" /\ mem' = SetMain(mem, WorldData, info)
      /\ todo' = s /\ world' = world /\ screen' = "menu"
    BY DEF ConfirmEdit, SetMain, WorldData, Idle
<1>2. saved' = [saved EXCEPT ![world] = EditedSnapshots(version, info)]
    BY Zenon DEF ConfirmEdit, EditedSnapshots, Edited
<1>3. world \in Worlds /\ saved \in [Worlds -> SUBSET Snapshots] /\ mem \in Parts
    BY <1>1 DEF Types, TypeOK
<1>4. info \in Stamps
    BY <1>1, <1>3, MadeIs
<1>. HIDE DEF info, version, s
<1>5. mem'.info = info
    <2>1. Changed(MainPart(mem', WorldData), MainPart(mem, WorldData), info, TRUE)
        <3>1. WorldData \in Files
            BY FilesAre
        <3>2. Changed(MainPart(mem', WorldData), MainPart(mem, WorldData), info, WorldData = WorldData)
            BY <1>1, <1>3, <1>4, <3>1, StoredMain
        <3>. QED
            BY <3>2
    <2>. QED
        BY <2>1, MainPartIs DEF Changed
<1>6. /\ Paired(s, {}) /\ ~Has(s, Named(Promises)) /\ ~Has(s, Named({"saved"}))
    <2>1. \A n \in Promises : n \notin {"create", "write", "saveGame"}
        BY DEF Promises
    <2>. QED
        BY <2>1, MenuScriptsAre DEF s
<1>7. WritesFind' /\ PromisedWritten' /\ SavingFits' /\ LoadsFirst'
    <2>1. WritesFind'
        BY <1>1, <1>6, CreatesFirst
    <2>. QED
        BY <2>1, <1>1, <1>6 DEF PromisedWritten, SavingFits, LoadsFirst, Saving
<1>8. OptionsKnown'
    <2>1. SUFFICES ASSUME saved'[world] # {}
                   PROVE  \E x \in saved'[world] : x.version <= 5 /\ x.parts.info = info
        BY <1>1, <1>5 DEF OptionsKnown
    <2>2. saved'[world] = EditedSnapshots(version, info)
        BY <1>2, <1>3
    <2>3. PICK t \in saved[world] : SameForm(t.version, version)
        BY <2>1, <2>2 DEF EditedSnapshots
    <2>4. Edited(t, info) \in EditedSnapshots(version, info)
        BY <2>3 DEF EditedSnapshots
    <2>5. Edited(t, info).parts.info = info /\ Edited(t, info).version = t.version
        BY <1>3, <1>4, EditedIs
    <2>6. t.version <= 5
        <3>1. t.version \in Nat /\ version \in {0, 5}
            BY <1>3 DEF Snapshots, version, currentVersion
        <3>. QED
            BY <3>1, <2>3, SameFormIs
    <2>. QED
        BY <2>2, <2>4, <2>5, <2>6
<1>. QED
    BY <1>7, <1>8 DEF Writing

LEMMA ScreenWriting ==
    ASSUME Types, Script, Listing, NewerThere, Writing, Screens
    PROVE  Writing'
<1>1. ASSUME NEW w \in Worlds, CreateWorld(w)
      PROVE  Writing'
    BY <1>1, CreateWriting
<1>2. ASSUME NEW w \in Worlds, OpenWorld(w)
      PROVE  Writing'
    BY <1>2, OpenWriting
<1>3. ASSUME NEW w \in Worlds, DeleteWorld(w) \/ RecoverWorld(w) \/ EditWorld(w)
      PROVE  Writing'
    <2>1. todo' \in {<<>>, <<Do("saveGame")>>, loadWorldData} /\ screen' \in {"menu", "edit"}
        BY <1>3 DEF DeleteWorld, RecoverWorld, EditWorld, Idle
    <2>. QED
        BY <2>1, NothingWritten
<1>4. CASE ConfirmEdit
    BY <1>4, EditWriting
<1>5. CASE CancelEdit \/ QuitWorld \/ Crash
    <2>1. todo' = <<>> /\ screen' = "menu"
        BY <1>5 DEF CancelEdit, QuitWorld, Leave, Crash, Idle
    <2>. QED
        BY <2>1, NothingWritten
<1>6. CASE Play
    <2>1. /\ todo = <<>> /\ todo' = <<>> /\ screen = "game" /\ screen' = "game" /\ disk' = disk
          /\ world' = world
        BY <1>6 DEF Play, Idle
    <2>2. /\ \A A : ~Has(<<>>, A)
          /\ \A A, B : First(<<>>, A, B)
        BY NothingToDo, HasNone
    <2>3. Entry(EntityData).form # "missing"
        BY <2>1, <2>2 DEF Writing, WritesFind
    <2>4. WritesFind'
        BY <2>1, <2>2, <2>3 DEF WritesFind, Entry
    <2>5. PromisedWritten' /\ SavingFits' /\ LoadsFirst' /\ OptionsKnown'
        BY <2>1, <2>2 DEF PromisedWritten, SavingFits, LoadsFirst, OptionsKnown, Saving
    <2>. QED
        BY <2>4, <2>5 DEF Writing
<1>7. ASSUME NEW quit \in BOOLEAN, SaveWorld(quit)
      PROVE  Writing'
    BY <1>7, SaveWriting
<1>. QED
    BY <1>1, <1>2, <1>3, <1>4, <1>5, <1>6, <1>7 DEF Screens

----------------------------------------------------------------------------
(* What is read.                                                           *)

\* One file after another is read, and nothing else done, until the world
\* is loaded.
LEMMA WorkLoading ==
    ASSUME Types, Script, Work, Loading'
    PROVE  /\ Loading /\ ~Saving /\ screen = "game" /\ world \in Worlds
           /\ Head(todo).op \in {"create", "write", "delete", "saveGame"} \cup Reads
           /\ world' = world /\ worldVersion' = worldVersion /\ saved' = saved
           /\ Head(todo).op \notin Reads => mem' = mem
<1>. DEFINE h == Head(todo)
            t == Tail(todo)
<1>1. /\ todo # <<>> /\ todo \in Seq(GameOps) /\ t \in Seq(GameOps) /\ InOrder(todo)
      /\ h.op \in OpNames
    BY WorkDoes, HeadIs DEF Script
<1>2. Has(t, Named({"loaded"})) /\ Has(todo, Named({"loaded"}))
    BY WorkTodo DEF Loading, Fronts
<1>3. \A N : h \in Named(N) <=> h.op \in N
    BY WorkTodo
<1>4. screen = "game"
    <2>1. CASE screen = "menu"
        BY <2>1, <1>2 DEF Script, Has, MenuOps, Named
    <2>2. CASE screen = "edit"
        BY <2>2, <1>2 DEF Script, Has, EditOps, Named
    <2>. QED
        BY <2>1, <2>2 DEF Types, TypeOK
<1>5. ~Saving
    <2>1. Has(todo, Named({"saved"})) => ~Has(todo, Named(Reads \cup Conversions \cup {"loaded"}))
        BY <1>1 DEF InOrder
    <2>2. {"loaded"} \subseteq Reads \cup Conversions \cup {"loaded"}
        OBVIOUS
    <2>. QED
        BY <2>1, <2>2, <1>2, HasNo DEF Saving
<1>6. h.op \notin Promises
    <2>1. Never(todo, Named(Promises), Named(OpNames \ {"leave"}))
        BY <1>1 DEF InOrder
    <2>2. h.op \in Promises => ~Has(t, Named(OpNames \ {"leave"}))
        BY <2>1, <1>1, <1>3, NeverTail
    <2>3. {"loaded"} \subseteq OpNames \ {"leave"}
        BY DEF OpNames
    <2>. QED
        BY <2>2, <2>3, <1>2, HasNo
<1>7. h.op \notin Conversions \cup {"loaded"}
    <2>1. Never(todo, Named(Conversions \cup {"loaded"}), Named(Reads \cup {"loaded"}))
        BY <1>1 DEF InOrder
    <2>2. h.op \in Conversions \cup {"loaded"} => ~Has(t, Named(Reads \cup {"loaded"}))
        BY <2>1, <1>1, <1>3, NeverTail
    <2>. QED
        BY <2>2, <1>2, HasNo
<1>8. h.op \notin {"fit", "list"}
    <2>1. Then(todo, Named({"fit", "list"}), Named({"saved"}))
        BY <1>1 DEF InOrder
    <2>2. h.op \in {"fit", "list"} => Has(t, Named({"saved"}))
        BY <2>1, <1>1, <1>3, ThenTail
    <2>. QED
        BY <2>2, <1>5, WorkTodo DEF Saving
<1>9. h.op # "leave"
    BY <1>2, WorkTodo
<1>10. h.op \in {"create", "write", "delete", "saveGame"} \cup Reads
    BY <1>1, <1>6, <1>7, <1>8, <1>9 DEF OpNames, Promises, Conversions, Reads
<1>11. /\ world' = world /\ worldVersion' = worldVersion /\ saved' = saved
       /\ h.op \notin Reads => mem' = mem
    BY <1>10, WorkChanges DEF Reads
<1>. QED
    BY <1>2, <1>4, <1>5, <1>10, <1>11 DEF Loading, Types, TypeOK

LEMMA WorkReadsFit ==
    ASSUME Types, Script, Reading, Work, Loading'
    PROVE  ReadsFit'
<1>. DEFINE n == Len(Front)
<1>1. /\ Loading /\ world' = world /\ worldVersion' = worldVersion
      /\ Head(todo).op # "leave"
    <2>1. "leave" \notin {"create", "write", "delete", "saveGame"} \cup Reads
        BY DEF Reads
    <2>. QED
        BY <2>1, WorkLoading
<1>2. ReadsFit
    BY <1>1 DEF Reading
<1>3. /\ n \in Nat /\ DOMAIN Front = 1..n /\ DOMAIN todo' = 1..(n + Len(todo) - 1)
      /\ Len(todo) \in Nat
      /\ \A i \in 1..n : todo'[i] = Front[i]
      /\ \A i \in DOMAIN todo' :
            i > n => i - n + 1 \in DOMAIN todo /\ todo'[i] = todo[i - n + 1]
    BY <1>1, Shifted
<1>4. \A i \in 1..n : Front[i].op \notin {"load", "loadV4", "loadRaw"}
    <2>1. Front \in Using({"create", "write", "delete", "saveGame"})
        BY WorkDoes, FrontIs
    <2>2. \A i \in DOMAIN Front : Front[i] \in Named({"create", "write", "delete", "saveGame"})
        BY <2>1 DEF Using
    <2>. QED
        BY <2>2, <1>3 DEF Named
<1>. HIDE DEF n
<1>5. ASSUME NEW i \in DOMAIN todo', todo'[i].op \in {"load", "loadV4", "loadRaw"}
      PROVE  \E j \in DOMAIN todo : todo'[i] = todo[j]
    <2>1. CASE i <= n
        <3>1. i \in 1..n
            BY <2>1, <1>3
        <3>. QED
            BY <3>1, <1>3, <1>4, <1>5
    <2>2. CASE i > n
        BY <2>2, <1>3
    <2>. QED
        BY <2>1, <2>2, <1>3
<1>6. ASSUME NEW i \in DOMAIN todo'
      PROVE  /\ todo'[i].op = "load" => FormOf(worldVersion[world], todo'[i].file) = "new"
             /\ todo'[i].op \in {"loadV4", "loadRaw"} =>
                   FormOf(worldVersion[world], todo'[i].file) = "old"
             /\ todo'[i].op = "loadRaw" => worldVersion[world] < 4
             /\ todo'[i].op = "load" /\ todo'[i].file = EntityData => worldVersion[world] >= 4
    <2>1. CASE todo'[i].op \in {"load", "loadV4", "loadRaw"}
        <3>1. PICK j \in DOMAIN todo : todo'[i] = todo[j]
            BY <2>1, <1>5
        <3>. QED
            BY <3>1, <1>2 DEF ReadsFit
    <2>2. CASE todo'[i].op \notin {"load", "loadV4", "loadRaw"}
        BY <2>2
    <2>. QED
        BY <2>1, <2>2
<1>. QED
    BY <1>1, <1>6 DEF ReadsFit

\* A part that is there, and one that is read.
There(m, f, file, v) ==
    /\ MainPart(m, f) = file.main
    /\ FormOf(v, f) = "new" => ExtraPart(m, f) = file.extra

LEMMA ReadsOther ==
    ASSUME Types, Script, Reading, Work, Loading', saved[world] # {},
           Head(todo).op \in Reads, NEW f \in FilesOf(worldVersion[world]), f # Head(todo).file,
           There(mem, f, Entry(f), worldVersion[world])
    PROVE  There(mem', f, Entry(f), worldVersion[world])
<1>. DEFINE h == Head(todo)
            g == h.file
            v == worldVersion[world]
<1>1. /\ todo # <<>> /\ h \in GameOps /\ g \in FilesFor(h.op) /\ g \in Files
      /\ 1 \in DOMAIN todo /\ todo[1] = h
    BY WorkDoes, HeadIs, TailIs
<1>2. v \in Nat /\ f \in Files /\ (v >= 4 => f \in Listed)
    BY WorkLoading, FilesOfIs DEF Types, TypeOK
<1>3. ReadsFit
    BY WorkLoading DEF Reading
<1>4. /\ h.op = "load" => FormOf(v, g) = "new"
      /\ h.op = "loadRaw" => v < 4
    BY <1>1, <1>3 DEF ReadsFit
<1>5. CASE h.op = "load"
    <2>1. mem' = mem \/ \E a, b : Read(mem', g, a, b)
        BY <1>5, WorkInMemory
    <2>2. ~ \E c \in Chunks : g = <<"chunk", c>> /\ f = <<"chunkED", c>>
        <3>1. SUFFICES ASSUME NEW c \in Chunks, g = <<"chunk", c>>, f = <<"chunkED", c>>
                       PROVE  FALSE
            OBVIOUS
        <3>2. FormOf(v, g) = IF v < 4 THEN "old" ELSE "new"
            BY <3>1, <1>2, FormsAre, FilesAre
        <3>3. v >= 4
            BY <3>2, <1>2, <1>4, <1>5
        <3>4. f \notin Listed
            BY <3>1 DEF Listed
        <3>. QED
            BY <3>3, <3>4, <1>2
    <2>3. mem' = mem \/ (MainPart(mem', f) = MainPart(mem, f) /\ ExtraPart(mem', f) = ExtraPart(mem, f))
        BY <2>1, <2>2, <1>2 DEF Read, Changed
    <2>. QED
        BY <2>3 DEF There
<1>6. CASE h.op \in {"loadV4", "loadRaw"}
    <2>1. mem' = mem \/ \E a : ReadMain(mem', g, a)
        BY <1>6, WorkInMemory
    <2>2. \/ mem' = mem
          \/ /\ MainPart(mem', f) = MainPart(mem, f)
             /\ \/ ExtraPart(mem', f) = ExtraPart(mem, f)
                \/ \E c \in Chunks : g = <<"chunkED", c>> /\ f = <<"chunk", c>>
        BY <2>1, <1>2 DEF ReadMain, Changed
    <2>3. (\E c \in Chunks : g = <<"chunkED", c>> /\ f = <<"chunk", c>>) => FormOf(v, f) = "old"
        <3>1. SUFFICES ASSUME NEW c \in Chunks, g = <<"chunkED", c>>, f = <<"chunk", c>>
                       PROVE  FormOf(v, f) = "old"
            OBVIOUS
        <3>2. h.op # "loadV4"
            <4>1. g \notin {<<"playerData", 0>>, <<"chestData", 0>>}
                BY <3>1
            <4>. QED
                BY <4>1, <1>1 DEF FilesFor
        <3>3. v < 4
            BY <3>2, <1>4, <1>6
        <3>. QED
            BY <3>1, <3>3, <1>2, FormsAre, FilesAre
    <2>. QED
        BY <2>2, <2>3 DEF There
<1>. QED
    BY <1>5, <1>6 DEF Reads

\* What has no extra part never has one.
LEMMA NoExtra ==
    ASSUME NEW m, NEW f \in Files, f \notin WithExtra
    PROVE  ExtraPart(m, f) = Blank
<1>1. \/ f \in {WorldData, EntityData, <<"playerData", 0>>, <<"chestData", 0>>}
      \/ \E c \in Chunks : f = <<"chunk", c>> \/ f = <<"chunkED", c>>
    BY FilesAre
<1>. QED
    BY <1>1, ExtraPartIs, FilesAre DEF WithExtra

LEMMA ReadsThis ==
    ASSUME Types, Script, Reading, Work, Loading', saved[world] # {}, \A w \in Worlds : Kept(w),
           Head(todo).op \in Reads, NEW f \in FilesOf(worldVersion[world]), f = Head(todo).file
    PROVE  \/ Entry(f).cut
           \/ f \in LostChunks(world)
           \/ There(mem', f, Entry(f), worldVersion[world])
<1>. DEFINE h == Head(todo)
            v == worldVersion[world]
            file == Entry(f)
<1>1. /\ todo # <<>> /\ h \in GameOps /\ f \in FilesFor(h.op) /\ f \in Files
      /\ 1 \in DOMAIN todo /\ todo[1] = h
    BY WorkDoes, HeadIs, TailIs
<1>2. v \in Nat /\ world \in Worlds
    BY WorkLoading DEF Types, TypeOK
<1>3. ReadsFit
    BY WorkLoading DEF Reading
<1>4. /\ h.op = "load" => FormOf(v, f) = "new"
      /\ h.op \in {"loadV4", "loadRaw"} => FormOf(v, f) = "old"
    BY <1>1, <1>3 DEF ReadsFit
<1>5. SUFFICES ASSUME ~file.cut, f \notin LostChunks(world)
               PROVE  There(mem', f, file, v)
    OBVIOUS
<1>6. VersionsAgree(world) /\ FilesHeld(world)
    BY <1>2 DEF Kept
<1>7. PICK s \in saved[world] : Holds(s, f, file) /\ FormOf(s.version, f) = FormOf(v, f)
    BY <1>1, <1>2, <1>5, <1>6, HeldIs DEF Entry
<1>8. /\ file.form = FormOf(v, f)
      /\ FormOf(v, f) = "new" => file.extra = ExtraPart(s.parts, f)
    BY <1>7 DEF Holds
<1>. HIDE DEF file, v
<1>9. CASE h.op = "load"
    <2>1. PICK a, b : a = file.main /\ b = file.extra /\ Read(mem', f, a, b)
        <3>1. file.form = "new" /\ file.form # "missing"
            BY <1>4, <1>8, <1>9
        <3>. QED
            BY <3>1, <1>5, <1>9, WorkInMemory DEF file
    <2>2. ~ \E c \in Chunks : f = <<"chunk", c>> /\ f = <<"chunkED", c>>
        OBVIOUS
    <2>3. MainPart(mem', f) = file.main
        BY <2>1, <2>2, <1>1 DEF Read, Changed
    <2>4. ExtraPart(mem', f) = file.extra
        <3>1. CASE f \in WithExtra
            BY <3>1, <2>1, <1>1 DEF Read, Changed
        <3>2. CASE f \notin WithExtra
            BY <3>2, <1>1, <1>4, <1>8, <1>9, NoExtra
        <3>. QED
            BY <3>1, <3>2
    <2>. QED
        BY <2>3, <2>4 DEF There
<1>10. CASE h.op \in {"loadV4", "loadRaw"}
    <2>1. file.form = "old" /\ FormOf(v, f) = "old"
        BY <1>4, <1>8, <1>10
    <2>2. PICK a : a = file.main /\ ReadMain(mem', f, a)
        <3>1. file.form # "missing"
            BY <2>1
        <3>. QED
            BY <2>1, <3>1, <1>10, WorkInMemory DEF file
    <2>3. MainPart(mem', f) = file.main
        BY <2>2, <1>1 DEF ReadMain, Changed
    <2>. QED
        BY <2>1, <2>3 DEF There
<1>. QED
    BY <1>9, <1>10 DEF Reads

LEMMA WorkReading ==
    ASSUME Types, Script, Writing, Reading, Work, \A w \in Worlds : Kept(w)
    PROVE  Reading'
<1>. SUFFICES ASSUME Loading'
              PROVE  ReadBack'
    BY WorkReadsFit DEF Reading
<1>. DEFINE h == Head(todo)
            v == worldVersion[world]
<1>1. /\ Loading /\ ~Saving /\ screen = "game" /\ world \in Worlds
      /\ h.op \in {"create", "write", "delete", "saveGame"} \cup Reads
      /\ world' = world /\ worldVersion' = worldVersion /\ saved' = saved
      /\ h.op \notin Reads => mem' = mem
    BY WorkLoading
<1>2. SUFFICES ASSUME saved[world] # {}, NEW f \in FilesOf(v)
               PROVE  \/ Has(todo', ReadOf(f))
                      \/ Entry(f)'.cut
                      \/ f \in LostChunks(world)'
                      \/ There(mem', f, Entry(f)', v)
    BY <1>1 DEF ReadBack, ReadOf, There
<1>3. disk' = disk
    <2>1. h.op \notin Changes
        BY <1>1, <1>2, NothingChanges DEF Writing
    <2>. QED
        BY <2>1, WorkChanges DEF Changes, FileOps
<1>4. Entry(f)' = Entry(f) /\ LostChunks(world)' = LostChunks(world)
    BY <1>1, <1>3 DEF Entry, LostChunks
<1>5. \/ Has(todo, ReadOf(f))
      \/ Entry(f).cut
      \/ f \in LostChunks(world)
      \/ There(mem, f, Entry(f), v)
    BY <1>1, <1>2 DEF Reading, ReadBack, ReadOf, There
<1>6. CASE h.op \in Reads /\ h.file = f
    BY <1>2, <1>4, <1>6, ReadsThis
<1>7. CASE ~(h.op \in Reads /\ h.file = f)
    <2>1. h \notin ReadOf(f)
        BY <1>7, WorkTodo DEF ReadOf, Reads
    <2>2. Has(todo, ReadOf(f)) => Has(todo', ReadOf(f))
        <3>1. h.op # "leave"
            BY <1>1 DEF Reads
        <3>. QED
            BY <2>1, <3>1, WorkTodo
    <2>3. There(mem, f, Entry(f), v) => There(mem', f, Entry(f), v)
        <3>1. CASE h.op \in Reads
            BY <3>1, <1>2, <1>7, ReadsOther
        <3>2. CASE h.op \notin Reads
            BY <3>2, <1>1 DEF There
        <3>. QED
            BY <3>1, <3>2
    <2>. HIDE DEF v
    <2>. QED
        BY <1>4, <1>5, <2>2, <2>3
<1>. QED
    BY <1>6, <1>7

LEMMA ScreenReading ==
    ASSUME Types, Listing, Screens
    PROVE  Reading'
<1>1. ASSUME NEW w \in Worlds, OpenWorld(w)
      PROVE  Reading'
    <2>. DEFINE v == worldVersion[w]
                s == loadAllChunk(v)
    <2>1. todo' = s /\ world' = w /\ worldVersion' = worldVersion
        BY <1>1 DEF OpenWorld
    <2>2. SUFFICES ASSUME v \in 0..5
                   PROVE  Reading'
        <3>1. v \in Nat
            BY DEF Types, TypeOK
        <3>2. SUFFICES ASSUME v > 5
                       PROVE  Reading'
            BY <3>1
        <3>3. s = <<>>
            BY <3>1, <3>2, OpenScriptIs
        <3>. HIDE DEF s
        <3>. QED
            BY <2>1, <3>3, NothingToDo DEF Reading, Loading
    <2>3. /\ s \in Seq(GameOps) /\ ~Has(s, Named(Reads) \ ReadOps(v))
          /\ \A f \in FilesOf(v) : Has(s, ReadOf(f))
        BY <2>2, LoadScriptIs
    <2>. HIDE DEF s
    <2>4. ASSUME NEW i \in DOMAIN s
          PROVE  /\ s[i].op = "load" => FormOf(v, s[i].file) = "new"
                 /\ s[i].op \in {"loadV4", "loadRaw"} => FormOf(v, s[i].file) = "old"
                 /\ s[i].op = "loadRaw" => v < 4
                 /\ s[i].op = "load" /\ s[i].file = EntityData => v >= 4
        <3>1. CASE s[i].op \in Reads
            <4>1. s[i] \in Named(Reads)
                BY <3>1, <2>3 DEF Named, GameOps
            <4>2. s[i] \in ReadOps(v)
                BY <4>1, <2>3 DEF Has
            <4>. QED
                BY <4>2 DEF ReadOps
        <3>2. CASE s[i].op \notin Reads
            BY <3>2 DEF Reads
        <3>. QED
            BY <3>1, <3>2
    <2>5. ReadsFit'
        BY <2>1, <2>4 DEF ReadsFit
    <2>6. ReadBack'
        BY <2>1, <2>3 DEF ReadBack, ReadOf
    <2>. QED
        BY <2>5, <2>6 DEF Reading
<1>2. ASSUME ~Has(todo', Named({"loaded"}))
      PROVE  Reading'
    BY <1>2 DEF Reading, Loading
<1>3. ASSUME NEW w \in Worlds, CreateWorld(w)
      PROVE  Reading'
    <2>1. todo' = CreateScript
        BY <1>3 DEF CreateWorld, CreateScript
    <2>. QED
        BY <2>1, <1>2, CreateScriptIs, HasNo
<1>4. ASSUME NEW quit \in BOOLEAN, SaveWorld(quit)
      PROVE  Reading'
    <2>1. /\ screen = "game"
          /\ todo' = saveAllChunk(worldExists[world])
               \o <<Do("list"), Do("saveGame"), Do("saved")>>
               \o (IF quit THEN <<Do("leave")>> ELSE <<>>)
        BY <1>4 DEF SaveWorld, Idle
    <2>2. worldExists[world] = TRUE
        BY <2>1 DEF Listing, Types, TypeOK
    <2>3. todo' = SaveScript(quit)
        BY <2>1, <2>2 DEF SaveScript
    <2>4. ~Has(SaveScript(quit), Named(Reads \cup {"loaded"}))
        BY Zenon, SaveScriptIs
    <2>. QED
        BY <2>3, <2>4, <1>2, HasNo
<1>5. ASSUME todo' \in {<<>>, <<Do("saveGame")>>, loadWorldData, saveWorldData \o <<Do("saveGame")>>}
      PROVE  Reading'
    <2>. DEFINE N == {"loaded"}
    <2>1. "load" \notin N /\ "saveGame" \notin N /\ "create" \notin N /\ "write" \notin N
        OBVIOUS
    <2>. HIDE DEF N
    <2>2. /\ ~Has(<<>>, Named(N)) /\ ~Has(<<Do("saveGame")>>, Named(N))
          /\ ~Has(loadWorldData, Named(N))
          /\ ~Has(saveWorldData \o <<Do("saveGame")>>, Named(N))
        BY <2>1, NothingToDo, MenuScriptsAre
    <2>3. ~Has(todo', Named(N))
        BY <1>5, <2>2
    <2>. QED
        BY <2>3, <1>2 DEF N
<1>6. ASSUME NEW w \in Worlds, DeleteWorld(w) \/ RecoverWorld(w) \/ EditWorld(w)
      PROVE  Reading'
    BY <1>5, <1>6 DEF DeleteWorld, RecoverWorld, EditWorld, Idle
<1>7. CASE ConfirmEdit \/ CancelEdit \/ Play \/ QuitWorld \/ Crash
    BY <1>5, <1>7 DEF ConfirmEdit, CancelEdit, Play, QuitWorld, Leave, Crash, Idle
<1>. QED
    BY <1>1, <1>3, <1>4, <1>6, <1>7 DEF Screens

----------------------------------------------------------------------------
(* The first boot.                                                         *)

\* A world as an earlier version of the program left it.
LEMMA OldPartsAre ==
    ASSUME NEW w \in Worlds, NEW v
    PROVE  LET p == OldParts(w, v)
           IN  /\ p \in Parts /\ p.player.of = w /\ p.entities.of = w
               /\ \A c \in Chunks : p.blocks[c].of = w
<1>. DEFINE s == Made(w, 1)
            x == [s EXCEPT !.wet = v < 5]
            B == [c \in Chunks |-> s]
            D == [c \in Chunks |-> x]
            p == OldParts(w, v)
<1>1. s \in Stamps /\ s.of = w
    BY StampsAre, WorldFilesAssumption
<1>2. x \in Stamps
    <2>1. (v < 5) \in BOOLEAN
        OBVIOUS
    <2>2. s = [of |-> w, at |-> 1, wet |-> FALSE]
        BY DEF Made
    <2>3. x = [of |-> w, at |-> 1, wet |-> v < 5]
        BY <2>2
    <2>4. w \in Worlds \cup {0} /\ 1 \in 0..MaxStamp
        BY WorldFilesAssumption
    <2>. QED
        BY <2>1, <2>3, <2>4 DEF Stamps
<1>3. p = [info |-> s, player |-> s, playerHp |-> s, chest |-> s, chestHp |-> s,
           entities |-> s, blocks |-> B, blockData |-> D]
    BY Zenon DEF OldParts
<1>. HIDE DEF s, x, p
<1>4. B \in [Chunks -> Stamps] /\ D \in [Chunks -> Stamps] /\ \A c \in Chunks : B[c] = s
    BY <1>1, <1>2
<1>. HIDE DEF B, D
<1>5. /\ p.info = s /\ p.player = s /\ p.playerHp = s /\ p.chest = s /\ p.chestHp = s
      /\ p.entities = s /\ p.blocks = B /\ p.blockData = D
    BY <1>3
<1>6. p \in Parts
    BY <1>1, <1>3, <1>4, <1>5, PartsIs
<1>. QED
    BY <1>1, <1>4, <1>5, <1>6 DEF p

LEMMA OldFileIs ==
    ASSUME NEW w \in Worlds, NEW v \in Nat, NEW f \in FilesOf(v), NEW by
    PROVE  LET d == OldFile(w, v, f)
               p == OldParts(w, v)
           IN  /\ d \in FileTypes /\ d.form # "missing" /\ ~d.cut
               /\ f \in {WorldData, EntityData} => d.room >= 1
               /\ d.main = MainPart(p, f)
               /\ \A s \in Snapshots : s.version = v /\ s.parts = p => Holds(s, f, d)
<1>. DEFINE p == OldParts(w, v)
            form == FormOf(v, f)
            main == MainPart(p, f)
            extra == IF form = "new" THEN ExtraPart(p, f) ELSE Blank
            room == Size(f, form, main, extra)
            d == OldFile(w, v, f)
<1>1. f \in Files /\ p \in Parts
    BY FilesOfIs, OldPartsAre
<1>2. form \in {"old", "new", "newer"} /\ main \in Stamps /\ extra \in Stamps
    <2>1. form \in {"old", "new", "newer"}
        BY DEF FormOf
    <2>. QED
        BY <2>1, <1>1, PartIn, StampsAre
<1>3. d = [form |-> form, main |-> main, extra |-> extra, room |-> room, cut |-> FALSE]
    BY DEF OldFile, File
<1>. HIDE DEF p, form, main, extra
<1>4. room \in 0..Raw /\ (f \in {WorldData, EntityData} => room = 1)
    <2>1. CASE form = "new"
        <3>1. room \in 1..2 /\ (f \in {WorldData, EntityData} => room = 1)
            BY <1>1, <1>2, <2>1, SizeIs
        <3>. QED
            BY <3>1 DEF Raw
    <2>2. CASE form = "old"
        BY <1>1, <1>2, <2>2, SizeIs
    <2>3. CASE form = "newer"
        BY <2>3 DEF room, Size, Raw
    <2>. QED
        BY <1>2, <2>1, <2>2, <2>3
<1>. HIDE DEF room, d
<1>5. d \in FileTypes
    BY <1>2, <1>3, <1>4 DEF FileTypes
<1>6. d.form = form /\ d.main = main /\ d.extra = extra /\ d.room = room /\ ~d.cut
    BY <1>3
<1>7. ASSUME NEW s \in Snapshots, s.version = v, s.parts = p
      PROVE  Holds(s, f, d)
    BY <1>6, <1>7 DEF Holds, form, main, extra
<1>. QED
    BY <1>2, <1>4, <1>5, <1>6, <1>7 DEF d, p, main

LEMMA OldDiskIs ==
    ASSUME NEW w \in Worlds, NEW v \in Nat,
           disk = [x \in Worlds |-> [f \in Files |-> IF x = w THEN OldFile(w, v, f) ELSE Missing]]
    PROVE  /\ disk \in [Worlds -> [Files -> FileTypes]]
           /\ \A x \in Worlds, f \in Files : x # w => disk[x][f] = Missing
           /\ \A f \in FilesOf(v) : disk[w][f] = OldFile(w, v, f)
           /\ \A f \in Files \ FilesOf(v) : disk[w][f] = Missing
<1>1. \A f \in Files \ FilesOf(v) : OldFile(w, v, f) = Missing
    BY DEF OldFile
<1>2. \A f \in Files : OldFile(w, v, f) \in FileTypes
    BY <1>1, OldFileIs, FileTypesAre
<1>3. \A x \in Worlds, f \in Files : disk[x][f] = IF x = w THEN OldFile(w, v, f) ELSE Missing
    BY Zenon
<1>4. disk \in [Worlds -> [Files -> FileTypes]]
    <2>1. ASSUME NEW x \in Worlds
          PROVE  [f \in Files |-> IF x = w THEN OldFile(w, v, f) ELSE Missing] \in [Files -> FileTypes]
        BY <1>2, FileTypesAre
    <2>. QED
        BY <2>1
<1>5. FilesOf(v) \subseteq Files
    BY FilesOfIs
<1>. QED
    BY <1>1, <1>3, <1>4, <1>5

LEMMA InitIInv == Init => IInv
<1>. SUFFICES ASSUME Init
              PROVE  IInv
    OBVIOUS
<1>1. PICK w \in Worlds, v \in StartVersions, listed \in BOOLEAN :
         /\ disk = [x \in Worlds |-> [f \in Files |->
                      IF x = w THEN OldFile(w, v, f) ELSE Missing]]
         /\ worldExists = [x \in Worlds |-> x = w /\ listed]
         /\ worldVersion = [x \in Worlds |-> IF x = w THEN v ELSE 0]
         /\ gameData = [exists |-> worldExists, version |-> worldVersion]
         /\ saved = [x \in Worlds |->
                      IF x = w THEN {Snapshot(OldParts(w, v), v, "creation")} ELSE {}]
         /\ mem = BootMemory /\ todo = <<>> /\ screen = "menu" /\ world = 0
         /\ useCurrentVersion = FALSE /\ now = 1 /\ crashes = 0
         /\ begun = [x \in Worlds |-> 0]
         /\ grows \in BOOLEAN
    BY Zenon DEF Init
<1>. DEFINE p == OldParts(w, v)
            s == Snapshot(p, v, "creation")
<1>2. v \in Nat /\ MaxStamp \in Nat \ {0}
    BY WorldFilesAssumption
<1>3. /\ p \in Parts /\ p.player.of = w /\ p.entities.of = w
      /\ \A c \in Chunks : p.blocks[c].of = w
    BY OldPartsAre
<1>4. s \in Snapshots /\ s.parts = p /\ s.version = v /\ s.by = "creation"
    BY <1>2, <1>3, SnapshotIs
<1>. HIDE DEF s
<1>5. saved \in [Worlds -> SUBSET Snapshots] /\ saved[w] = {s}
      /\ \A x \in Worlds : x # w => saved[x] = {}
    BY <1>1, <1>4 DEF s
<1>6. /\ disk \in [Worlds -> [Files -> FileTypes]]
      /\ \A x \in Worlds, f \in Files : x # w => disk[x][f] = Missing
      /\ \A f \in FilesOf(v) : disk[w][f] = OldFile(w, v, f)
      /\ \A f \in Files \ FilesOf(v) : disk[w][f] = Missing
    BY <1>1, <1>2, OldDiskIs
<1>. HIDE DEF p
<1>7. \A f \in FilesOf(v) :
         /\ disk[w][f].form # "missing" /\ ~disk[w][f].cut
         /\ f \in {WorldData, EntityData} => disk[w][f].room >= 1
         /\ disk[w][f].main = MainPart(p, f)
         /\ Holds(s, f, disk[w][f])
    BY <1>2, <1>4, <1>6, OldFileIs DEF p
<1>8. /\ FilesOf(v) \subseteq Files /\ ChunkFiles \subseteq FilesOf(v)
    BY <1>2, FilesOfIs
<1>9. \A x \in Worlds, f \in Files :
         \/ disk[x][f] = Missing
         \/ x = w /\ f \in FilesOf(v)
    BY <1>6
<1>10. Types
    <2>1. FilesSound
        <3>1. \A f \in Files : f[1] \in {"worldData", "entityData"} => f \in {WorldData, EntityData}
            <4>1. \A c \in Chunks : <<"chunk", c>>[1] = "chunk" /\ <<"chunkED", c>>[1] = "chunkED"
                OBVIOUS
            <4>2. <<"playerData", 0>>[1] = "playerData" /\ <<"chestData", 0>>[1] = "chestData"
                OBVIOUS
            <4>. QED
                BY <4>1, <4>2, FilesAre
        <3>. QED
            BY <3>1, <1>7, <1>9, FileTypesAre DEF FilesSound
    <2>2. worldExists \in [Worlds -> BOOLEAN] /\ worldVersion \in [Worlds -> Nat]
        BY <1>1, <1>2
    <2>3. gameData \in [exists : [Worlds -> BOOLEAN], version : [Worlds -> Nat]]
        BY <1>1, <2>2
    <2>4. begun \in [Worlds -> Nat]
        BY <1>1
    <2>5. mem \in Parts /\ now \in 1..MaxStamp
        BY <1>1, <1>2, BootIs
    <2>. QED
        BY <1>1, <1>5, <1>6, <2>1, <2>2, <2>3, <2>4, <2>5 DEF Types, TypeOK
<1>11. Script
    BY <1>1, NothingToDo DEF Script
<1>12. ~Saving /\ ~Loading /\ ~Has(todo, Named({"create", "write"}))
       /\ ~Has(todo, Named({"write"})) /\ ~Has(todo, Named(Promises))
    BY <1>1, NothingToDo DEF Saving, Loading
<1>13. Listing
    BY <1>1, <1>12 DEF Listing
<1>14. Apart
    <2>1. NothingFromAnotherWorld
        <3>1. SUFFICES ASSUME NEW x \in Worlds, NEW f \in Files,
                              f[1] \in {"playerData", "entityData", "chunk"}
                       PROVE  disk[x][f].main.of \in {0, x}
            BY DEF NothingFromAnotherWorld
        <3>2. CASE disk[x][f] = Missing
            BY <3>2, FileTypesAre, StampsAre
        <3>3. CASE x = w /\ f \in FilesOf(v)
            <4>1. f \in {<<"playerData", 0>>, EntityData} \/ f \in ChunkFiles
                <5>1. \A c \in Chunks : <<"chunkED", c>>[1] = "chunkED"
                    OBVIOUS
                <5>2. WorldData[1] = "worldData" /\ <<"chestData", 0>>[1] = "chestData"
                    BY DEF WorldData
                <5>. QED
                    BY <5>1, <5>2, <3>1, FilesAre
            <4>2. MainPart(p, f).of = w
                <5>1. CASE f \in ChunkFiles
                    <6>1. PICK c \in Chunks : f = <<"chunk", c>>
                        BY <5>1 DEF ChunkFiles
                    <6>. QED
                        BY <6>1, <1>3, MainPartIs DEF p
                <5>2. CASE f \in {<<"playerData", 0>>, EntityData}
                    BY <5>2, <1>3, MainPartIs DEF p
                <5>. QED
                    BY <4>1, <5>1, <5>2
            <4>. QED
                BY <4>2, <3>3, <1>7
        <3>. QED
            BY <3>2, <3>3, <1>9
    <2>2. mem = BootMemory /\ 0 \in Own
        BY <1>1 DEF Own
    <2>. QED
        BY <2>1, <2>2, BootIs, StampsAre DEF Apart
<1>15. ASSUME NEW x \in Worlds
       PROVE  Kept(x)
    <2>1. SUFFICES ASSUME x = w
                   PROVE  VersionsAgree(w) /\ FilesHeld(w) /\ FewLost(w) /\ WholeChunks(w)
        BY <1>5 DEF Kept
    <2>2. VersionsAgree(w)
        BY <1>1, <1>4, <1>5 DEF VersionsAgree, SameForm
    <2>3. FilesHeld(w)
        BY <1>4, <1>5, <1>7 DEF FilesHeld
    <2>4. FewLost(w)
        <3>1. AtRisk(w) = {}
            BY <1>5, <1>7, <1>8 DEF AtRisk, LostChunks
        <3>2. Cardinality({}) = 0 /\ begun[w] = 0
            BY <1>1, FS_EmptySet
        <3>. QED
            BY <3>1, <3>2, <1>12 DEF FewLost
    <2>5. WholeChunks(w)
        BY <1>7, <1>8 DEF WholeChunks
    <2>. QED
        BY <2>2, <2>3, <2>4, <2>5
<1>16. Writing
    <2>1. DOMAIN todo = {} /\ screen # "game"
        BY <1>1
    <2>. QED
        BY <2>1, <1>12 DEF Writing, WritesFind, PromisedWritten, SavingFits, LoadsFirst, OptionsKnown
<1>17. Reading
    BY <1>12 DEF Reading
<1>18. NewerThere
    <2>1. SUFFICES ASSUME NEW x \in Worlds, worldVersion[x] > 5
                   PROVE  disk[x][EntityData].form # "missing"
        BY <1>1 DEF NewerThere
    <2>2. x = w /\ v > 5
        BY <1>1, <2>1
    <2>. QED
        BY <2>2, <1>2, <1>7, FilesOfIs
<1>. QED
    BY <1>10, <1>11, <1>13, <1>14, <1>15, <1>16, <1>17, <1>18 DEF IInv

----------------------------------------------------------------------------
(* The invariant is inductive.                                             *)

LEMMA WorkNewer ==
    ASSUME Types, Script, NewerThere, Work
    PROVE  NewerThere'
<1>. DEFINE h == Head(todo)
<1>1. SUFFICES ASSUME NEW w \in Worlds, worldVersion'[w] > 5 \/ gameData'.version[w] > 5
               PROVE  disk'[w][EntityData].form # "missing"
    BY DEF NewerThere
<1>2. worldVersion[w] > 5 \/ gameData.version[w] > 5
    <2>1. worldVersion'[w] > 5 => worldVersion[w] > 5
        <3>1. worldVersion \in [Worlds -> Nat]
            BY DEF Types, TypeOK
        <3>2. \/ worldVersion' = worldVersion
              \/ \E v \in 0..5 : worldVersion' = [worldVersion EXCEPT ![world] = v]
            BY WorkDoes, WorkChanges DEF List, SetVersion, currentVersion
        <3>. QED
            BY <3>1, <3>2
    <2>2. gameData' = gameData \/ gameData'.version = worldVersion
        <3>1. h.op = "saveGame" => gameData'.version = worldVersion
            BY WorkDoes DEF SaveGame
        <3>. QED
            BY <3>1, WorkChanges
    <2>. QED
        BY <1>1, <2>1, <2>2
<1>3. disk[w][EntityData].form # "missing" /\ EntityData \in Files
    BY <1>2, FilesAre DEF NewerThere
<1>4. h.op = "delete" => h.file # EntityData
    BY HeadIs, WorkDoes DEF FilesFor
<1>5. CASE w # world \/ EntityData # h.file \/ h.op \notin {"create", "write"}
    <2>1. disk'[w][EntityData] = disk[w][EntityData]
        BY <1>3, <1>4, <1>5, WorkOnDisk
    <2>. QED
        BY <2>1, <1>3
<1>6. CASE w = world /\ h.file = EntityData /\ h.op \in {"create", "write"}
    <2>1. Entry(h.file).form # "missing"
        BY <1>3, <1>6 DEF Entry
    <2>2. disk' = disk \/ disk'[w][EntityData].form = "new"
        BY <1>6, <2>1, WorkOnDisk DEF Written
    <2>. QED
        BY <2>2, <1>3
<1>. QED
    BY <1>5, <1>6

LEMMA ScreenNewer ==
    ASSUME Types, NewerThere, Screens
    PROVE  NewerThere'
<1>1. SUFFICES ASSUME NEW w \in Worlds, worldVersion'[w] > 5 \/ gameData'.version[w] > 5
               PROVE  disk'[w][EntityData].form # "missing"
    BY DEF NewerThere
<1>2. disk' = disk /\ gameData' = gameData
    BY DEF Screens, CreateWorld, OpenWorld, DeleteWorld, RecoverWorld, EditWorld,
           ConfirmEdit, CancelEdit, Play, SaveWorld, QuitWorld, Leave, Crash
<1>3. worldVersion \in [Worlds -> Nat]
    BY DEF Types, TypeOK
<1>4. worldVersion'[w] > 5 => worldVersion[w] > 5 \/ gameData.version[w] > 5
    <2>1. ASSUME NEW x \in Worlds, CreateWorld(x)
          PROVE  worldVersion'[w] > 5 => worldVersion[w] > 5
        <3>1. worldVersion' = [worldVersion EXCEPT ![x] = 5]
            BY <2>1 DEF CreateWorld, currentVersion
        <3>. QED
            BY <3>1, <1>3
    <2>2. CASE ConfirmEdit
        <3>1. \E v \in {0, 5} : worldVersion' = [worldVersion EXCEPT ![world] = v]
            BY <2>2 DEF ConfirmEdit, currentVersion
        <3>. QED
            BY <3>1, <1>3
    <2>3. CASE Crash
        BY <2>3 DEF Crash
    <2>4. ASSUME NEW x \in Worlds,
                 OpenWorld(x) \/ DeleteWorld(x) \/ RecoverWorld(x) \/ EditWorld(x)
          PROVE  worldVersion' = worldVersion
        BY <2>4 DEF OpenWorld, DeleteWorld, RecoverWorld, EditWorld
    <2>5. ASSUME NEW quit \in BOOLEAN, SaveWorld(quit)
          PROVE  worldVersion' = worldVersion
        BY <2>5 DEF SaveWorld
    <2>6. CASE CancelEdit \/ Play \/ QuitWorld
        <3>1. worldVersion' = worldVersion
            BY <2>6 DEF CancelEdit, Play, QuitWorld, Leave
        <3>. QED
            BY <3>1
    <2>. QED
        BY <2>1, <2>2, <2>3, <2>4, <2>5, <2>6 DEF Screens
<1>. QED
    BY <1>1, <1>2, <1>4 DEF NewerThere

LEMMA WorkIInv ==
    ASSUME IInv, Work
    PROVE  IInv'
<1>1. /\ Types /\ Script /\ Listing /\ NewerThere /\ Apart /\ Writing /\ Reading
      /\ \A w \in Worlds : Kept(w)
    BY DEF IInv
<1>2. Types' /\ Script' /\ Listing' /\ NewerThere'
    BY <1>1, WorkTypes, WorkScript, WorkListing, WorkNewer
<1>3. Apart'
    BY <1>1, WorkApart
<1>4. ASSUME NEW w \in Worlds
      PROVE  Kept(w)'
    <2>1. Kept(w)
        BY <1>1
    <2>2. CASE w # world
        BY <1>1, <2>1, <2>2, WorkKeptElsewhere
    <2>3. CASE w = world
        <3>1. world \in Worlds
            BY <2>3
        <3>. QED
            BY <1>1, <2>1, <2>3, <3>1, WorkKeptHere
    <2>. QED
        BY <2>2, <2>3
<1>5. Writing' /\ Reading'
    BY <1>1, WorkWriting, WorkReading
<1>. QED
    BY <1>2, <1>3, <1>4, <1>5 DEF IInv

LEMMA ScreensIInv ==
    ASSUME IInv, Screens
    PROVE  IInv'
<1>1. /\ Types /\ Script /\ Listing /\ NewerThere /\ Apart /\ Writing /\ Reading
      /\ \A w \in Worlds : Kept(w)
    BY DEF IInv
<1>2. Types' /\ Script' /\ Listing' /\ NewerThere' /\ Apart'
    BY <1>1, ScreenTypes, ScreenScript, ScreenListing, ScreenNewer, ScreenApart
<1>3. \A w \in Worlds : Kept(w)'
    BY <1>1, ScreenKept
<1>4. Writing' /\ Reading'
    BY <1>1, ScreenWriting, ScreenReading
<1>. QED
    BY <1>2, <1>3, <1>4 DEF IInv

LEMMA StutterIInv ==
    ASSUME IInv, UNCHANGED vars
    PROVE  IInv'
<1>1. /\ Types /\ Script /\ Listing /\ NewerThere /\ Apart /\ Writing /\ Reading
      /\ \A w \in Worlds : Kept(w)
    BY DEF IInv
<1>2. /\ disk' = disk /\ gameData' = gameData /\ worldExists' = worldExists
      /\ worldVersion' = worldVersion /\ mem' = mem /\ todo' = todo
      /\ screen' = screen /\ world' = world
      /\ useCurrentVersion' = useCurrentVersion /\ now' = now
      /\ crashes' = crashes /\ grows' = grows /\ saved' = saved /\ begun' = begun
    BY DEF vars
<1>3. Types'
    BY <1>1, <1>2 DEF Types, TypeOK, FilesSound
<1>4. Script'
    BY <1>1, <1>2 DEF Script
<1>5. Saving' = Saving /\ Loading' = Loading
    BY <1>2 DEF Saving, Loading
<1>6. Listing' /\ NewerThere'
    BY <1>1, <1>2, <1>5 DEF Listing, NewerThere
<1>7. Apart'
    BY <1>1, <1>2 DEF Apart, NothingFromAnotherWorld, Own
<1>8. ASSUME NEW w \in Worlds
      PROVE  Kept(w)'
    <2>1. Kept(w)
        BY <1>1
    <2>2. LostChunks(w)' = LostChunks(w)
        BY <1>2 DEF LostChunks
    <2>3. AtRisk(w)' = AtRisk(w)
        BY <1>2, <1>5, <2>2 DEF AtRisk
    <2>4. /\ VersionsAgree(w)' = VersionsAgree(w) /\ FilesHeld(w)' = FilesHeld(w)
          /\ FewLost(w)' = FewLost(w) /\ WholeChunks(w)' = WholeChunks(w)
        BY <1>2, <1>5, <2>3 DEF VersionsAgree, FilesHeld, FewLost, WholeChunks
    <2>. QED
        BY <1>2, <2>1, <2>4 DEF Kept
<1>9. Writing'
    <2>1. \A f : Entry(f)' = Entry(f)
        BY <1>2 DEF Entry
    <2>2. WritesFind' /\ OptionsKnown' /\ LoadsFirst'
        BY <1>1, <1>2, <1>5, <2>1 DEF Writing, WritesFind, OptionsKnown, LoadsFirst
    <2>3. PromisedWritten'
        <3>1. \A f : Matches(Entry(f), f)' <=> Matches(Entry(f), f)
            BY <1>2, <2>1 DEF Matches
        <3>. QED
            BY <1>1, <1>2, <3>1 DEF Writing, PromisedWritten
    <2>4. SavingFits'
        BY <1>1, <1>2, <1>5, <2>1 DEF Writing, SavingFits, CutRewritten, ChunkOps
    <2>. QED
        BY <2>2, <2>3, <2>4 DEF Writing
<1>10. Reading'
    BY <1>1, <1>2, <1>5 DEF Reading, ReadsFit, ReadBack, LostChunks, Entry
<1>. QED
    BY <1>3, <1>4, <1>6, <1>7, <1>8, <1>9, <1>10 DEF IInv

\* At every moment the scripts, the list, the files and the memory of every
\* behaviour of the program are as IInv describes them.
THEOREM InvariantHolds == Spec => []IInv
<1>1. Init => IInv
    BY InitIInv
<1>2. IInv /\ [Next]_vars => IInv'
    BY NextIs, WorkIInv, ScreensIInv, StutterIInv
<1>. QED
    BY <1>1, <1>2, PTL DEF Spec

----------------------------------------------------------------------------
(* What the invariant says of the properties.                              *)

\* Of the chunks of a world no more are lost than saves of it were begun.
LEMMA FewAreLost ==
    ASSUME Types, NEW w \in Worlds, Kept(w), saved[w] # {}, NEW A \in SUBSET LostChunks(w)
    PROVE  Cardinality(A) <= begun[w]
<1>. DEFINE h == Head(todo).file
            B == AtRisk(w)
<1>1. /\ begun[w] \in Nat /\ FewLost(w)
      /\ LostChunks(w) \subseteq ChunkFiles
    BY DEF Types, Kept, LostChunks
<1>2. B \subseteq LostChunks(w) /\ A \subseteq LostChunks(w)
    BY DEF AtRisk
<1>3. /\ IsFiniteSet(LostChunks(w)) /\ IsFiniteSet(A) /\ IsFiniteSet(B)
      /\ Cardinality(A) \in Nat /\ Cardinality(B) \in Nat
      /\ Cardinality(A) <= Cardinality(LostChunks(w))
    BY <1>1, <1>2, ChunksAreFinite, FS_Subset, FS_CardinalityType
<1>4. CASE ~(Saving /\ w = world)
    <2>1. B = LostChunks(w)
        BY <1>4, AtRiskIs
    <2>2. Cardinality(B) + 0 <= begun[w]
        BY <1>1, <1>4 DEF FewLost
    <2>. QED
        BY <1>1, <1>3, <2>1, <2>2
<1>5. CASE Saving /\ w = world
    <2>1. LostChunks(w) \subseteq B \cup {h}
        BY DEF AtRisk
    <2>2. Cardinality(B) + 1 <= begun[w]
        BY <1>1, <1>5 DEF FewLost
    <2>. HIDE DEF B, h
    <2>3. /\ IsFiniteSet(B \cup {h})
          /\ Cardinality(B \cup {h}) \in {Cardinality(B), Cardinality(B) + 1}
        BY <1>3, FS_AddElement
    <2>4. Cardinality(A) <= Cardinality(B \cup {h})
        <3>1. A \subseteq B \cup {h}
            BY <1>2, <2>1
        <3>. QED
            BY <3>1, <2>3, FS_Subset
    <2>. QED
        BY <1>1, <1>3, <2>2, <2>3, <2>4
<1>. QED
    BY <1>4, <1>5

LEMMA OneFileAtRisk == IInv => SavingRisksOneFile
<1>. SUFFICES ASSUME IInv, NEW w \in Worlds, gameData.exists[w], saved[w] # {}
              PROVE  LET v == gameData.version[w]
                     IN  Cardinality({f \in FilesOf(v) :
                             /\ ~disk[w][f].cut
                             /\ \A s \in saved[w] :
                                   \/ disk[w][f].form # FormOf(v, f)
                                   \/ disk[w][f].main # MainPart(s.parts, f)
                                   \/ /\ FormOf(v, f) = "new"
                                      /\ disk[w][f].extra # ExtraPart(s.parts, f)})
                         <= begun[w]
    BY DEF SavingRisksOneFile
<1>. DEFINE v == gameData.version[w]
            Bad(f) == /\ ~disk[w][f].cut
                      /\ \A s \in saved[w] :
                            \/ disk[w][f].form # FormOf(v, f)
                            \/ disk[w][f].main # MainPart(s.parts, f)
                            \/ /\ FormOf(v, f) = "new"
                               /\ disk[w][f].extra # ExtraPart(s.parts, f)
<1>1. Types /\ Kept(w) /\ VersionsAgree(w) /\ FilesHeld(w)
    BY DEF IInv, Kept
<1>2. ASSUME NEW f \in FilesOf(v), Bad(f)
      PROVE  f \in LostChunks(w)
    <2>1. v \in {worldVersion[w], gameData.version[w]} /\ f \in Files
        BY <1>1, FilesOfIs DEF Types, TypeOK
    <2>2. /\ \A s \in saved[w] : FormOf(s.version, f) = FormOf(v, f)
          /\ \/ disk[w][f].cut
             \/ f \in LostChunks(w)
             \/ \E s \in saved[w] : Holds(s, f, disk[w][f])
        BY <1>1, <2>1, HeldIs
    <2>. HIDE DEF v
    <2>3. ~\E s \in saved[w] : Holds(s, f, disk[w][f])
        BY <1>2, <2>2 DEF Holds
    <2>. QED
        BY <1>2, <2>2, <2>3
<1>3. {f \in FilesOf(v) : Bad(f)} \in SUBSET LostChunks(w)
    BY <1>2
<1>. QED
    BY <1>1, <1>3, FewAreLost

LEMMA ChunksMended == IInv => SaveMendsChunks
<1>. SUFFICES ASSUME IInv, NEW w \in Worlds, NEW f \in Files, disk[w][f].cut
              PROVE  /\ ~grows
                     /\ f[1] \in {"playerData", "chestData", "chunk"}
                     /\ ~(f[1] = "chunk" /\ \E s \in saved[w] : saved[w] = {s} /\ s.by = "save")
    BY DEF SaveMendsChunks
<1>1. Types /\ Kept(w)
    BY DEF IInv
<1>2. ~grows /\ f[1] \in {"playerData", "chestData", "chunk"}
    BY <1>1 DEF Types, FilesSound
<1>3. ASSUME f[1] = "chunk", \E s \in saved[w] : saved[w] = {s} /\ s.by = "save"
      PROVE  FALSE
    <2>1. f \in ChunkFiles
        BY <1>3, FilesAre
    <2>2. WholeChunks(w)
        BY <1>1, <1>3 DEF Kept
    <2>. QED
        BY <1>3, <2>1, <2>2 DEF WholeChunks
<1>. QED
    BY <1>2, <1>3

LEMMA FormIsCurrent == IInv => SavesInCurrentForm
<1>. DEFINE h == Head(todo)
<1>. SUFFICES ASSUME IInv, todo # <<>>, h.op \in {"create", "write", "fit"}, h.file[1] = "chunk"
              PROVE  worldVersion[world] >= 4
    BY DEF SavesInCurrentForm
<1>1. Types /\ Script /\ Listing
    BY DEF IInv
<1>2. /\ todo \in Seq(Ops) /\ h \in Ops
      /\ screen = "menu" => h \in MenuOps
      /\ screen = "edit" => h \in EditOps
    BY <1>1, HeadIs
<1>3. h \in ChunkSaves
    BY <1>2 DEF ChunkSaves
<1>4. h.file # WorldData
    BY DEF WorldData
<1>5. screen = "game"
    BY <1>1, <1>2, <1>4 DEF MenuOps, EditOps, Types, TypeOK
<1>6. ~First(todo, Named({"setVersion4", "setVersion5"}), ChunkSaves)
    BY <1>2, <1>3, FirstTail
<1>. QED
    BY <1>1, <1>5, <1>6 DEF Listing

LEMMA WhatIsRead == IInv => LoadsWhatWasSaved
<1>. DEFINE v == worldVersion[world]
            Bad(f) == ~Entry(f).cut /\ \A s \in saved[world] : ~Agree(mem, s, f, v)
<1>. SUFFICES ASSUME IInv, todo # <<>>, Head(todo).op = "loaded", saved[world] # {}
              PROVE  Cardinality({f \in FilesOf(v) : Bad(f)}) <= begun[world]
    BY DEF LoadsWhatWasSaved
<1>1. Types /\ Script /\ Reading
    BY DEF IInv
<1>2. /\ todo \in Seq(GameOps) /\ todo \in Seq(Ops) /\ Head(todo) \in Ops
      /\ world \in Worlds /\ screen = "game"
    BY <1>1, HeadIs
<1>3. Kept(world) /\ VersionsAgree(world) /\ FilesHeld(world)
    BY <1>2 DEF IInv, Kept
<1>4. Loading
    BY <1>2, HasTail DEF Loading, Named
<1>5. ~Has(todo, Named(Reads))
    <2>. DEFINE A == Named(Conversions \cup {"loaded"})
                B == Named(Reads \cup {"loaded"})
    <2>1. Never(todo, A, B) /\ Head(todo) \in A
        BY <1>1, <1>2 DEF Script, InOrder, Named
    <2>2. ~Has(Tail(todo), B) /\ Head(todo) \notin Named(Reads)
        <3>1. ~Has(Tail(todo), B)
            BY <2>1, <1>2, NeverTail
        <3>. QED
            BY <3>1 DEF Named, Reads
    <2>3. ~Has(Tail(todo), Named(Reads))
        <3>1. Named(Reads) \subseteq B
            BY DEF Named
        <3>. HIDE DEF B
        <3>. QED
            BY <2>2, <3>1 DEF Has
    <2>. QED
        BY <1>2, <2>2, <2>3, HasTail
<1>6. ASSUME NEW f \in FilesOf(v), Bad(f)
      PROVE  f \in LostChunks(world)
    <2>1. v \in {worldVersion[world], gameData.version[world]} /\ f \in Files
        BY <1>1, <1>2, FilesOfIs DEF Types, TypeOK
    <2>2. ~Has(todo, ReadOf(f))
        <3>1. ReadOf(f) \subseteq Named(Reads)
            BY DEF ReadOf, On, Named, Reads
        <3>. QED
            BY <3>1, <1>5 DEF Has
    <2>3. f \in LostChunks(world) \/ There(mem, f, Entry(f), v)
        BY <1>1, <1>4, <1>6, <2>2 DEF Reading, ReadBack, ReadOf, There
    <2>4. /\ \A s \in saved[world] : FormOf(s.version, f) = FormOf(v, f)
          /\ \/ Entry(f).cut
             \/ f \in LostChunks(world)
             \/ \E s \in saved[world] : Holds(s, f, Entry(f))
        BY <1>1, <1>2, <1>3, <2>1, HeldIs DEF Entry
    <2>. HIDE DEF v
    <2>5. ASSUME There(mem, f, Entry(f), v), NEW s \in saved[world], Holds(s, f, Entry(f))
          PROVE  Agree(mem, s, f, v)
        BY <2>4, <2>5 DEF There, Holds, Agree
    <2>. QED
        BY <1>6, <2>3, <2>4, <2>5
<1>7. {f \in FilesOf(v) : Bad(f)} \in SUBSET LostChunks(world)
    BY <1>6
<1>. QED
    BY <1>1, <1>2, <1>3, <1>7, FewAreLost

----------------------------------------------------------------------------
(* The theorems.                                                           *)

\* The files, the list of worlds, the memory and the screen have the shapes
\* the code gives them, at every moment (17136-18412).
THEOREM TypesHold == Spec => []TypeOK
<1>1. IInv => TypeOK
    BY DEF IInv, Types
<1>. QED
    BY <1>1, InvariantHolds, PTL

\* No file of a world ever holds what the player carries, the mobs or the
\* blocks of another world (24176-24268).
THEOREM WorldsStayApart == Spec => []NothingFromAnotherWorld
<1>1. IInv => NothingFromAnotherWorld
    BY DEF IInv, Apart
<1>. QED
    BY <1>1, InvariantHolds, PTL

\* Whenever the calculator is reset, every save that did not end has cost at
\* most one file; a save mends what a creation or a conversion cut short;
\* and no chunk is written before its world has the compressed format
\* (17719-17768, 18268-18313, 18365).
THEOREM FilesStaySound == Spec => []DiskSound
<1>1. IInv => DiskSound
    <2>1. IInv => TypeOK
        BY DEF IInv, Types
    <2>. QED
        BY <2>1, OneFileAtRisk, ChunksMended, FormIsCurrent DEF DiskSound
<1>. QED
    BY <1>1, InvariantHolds, PTL

\* Opening a world reads what the last save, creation or conversion that
\* ended put there, of whatever version, but for one file for every save
\* that was cut off since (18314-18358).
THEOREM OpensWhatWasSaved == Spec => []LoadsWhatWasSaved
<1>. QED
    BY WhatIsRead, InvariantHolds, PTL

=============================================================================
