----------------------------- MODULE WorldFiles -----------------------------
(***************************************************************************)
(* The files of the worlds (src/src/eninge.c 17136-18412) and the screens  *)
(* that create, open, delete, recover, edit and save a world.              *)
(*                                                                         *)
(* The program reads and writes file by file, and the calculator can be    *)
(* reset between any two operations.  A handler therefore puts the file    *)
(* operations it will do in todo, in the order of the code; Work does the  *)
(* first of them; Crash forgets todo and everything in memory.             *)
(*                                                                         *)
(* The content of a part of the game (its blocks, what the player carries) *)
(* is a stamp: the world it belongs to, the moment it was made, and        *)
(* whether its old water has been replaced (17110).  One file holds a main *)
(* part and, in the newer formats, an extra one: the hp beside the items,  *)
(* the block data beside the blocks.                                       *)
(***************************************************************************)
EXTENDS Integers, Sequences, FiniteSets

CONSTANTS Worlds,        \* slots of the world list (code: 5)
          WorldChunks,   \* chunks of a world (code: 64)
          StartVersions, \* versions of the world found on the first boot;
                         \* above 5 it comes from a newer program
          MaxStamp,      \* bound: contents made in a behaviour
          MaxCrash       \* bound: resets in a behaviour

ASSUME WorldFilesAssumption ==
    /\ Worlds # {} /\ 0 \notin Worlds
    /\ WorldChunks \in Nat
    /\ StartVersions \subseteq Nat
    /\ MaxStamp \in Nat \ {0} /\ MaxCrash \in Nat

currentVersion == 5
Chunks == 1..WorldChunks

VARIABLES
    disk,         \* disk[w][f]: file f of world w
    gameData,     \* the file gameData: [exists, version] of every slot
    worldExists, worldVersion,         \* its copy in memory
    mem,          \* the parts of the game in memory
    todo,         \* file operations still to be done by the running handler
    screen,       \* "menu", "edit" (UIState 15) or "game"
    world,        \* currentSelectedWorld
    useCurrentVersion,
    now,          \* number of contents made so far
    crashes,      \* number of resets so far
    grows,        \* does a write past the end of a file make it longer?
    saved,        \* ghost: the contents the files of w may hold, {} if any
    begun         \* ghost: saves of w begun since the last that ended
vars == <<disk, gameData, worldExists, worldVersion, mem, todo, screen,
          world, useCurrentVersion, now, crashes, grows, saved, begun>>

-----------------------------------------------------------------------------
\* Contents
Stamps == [of : Worlds \cup {0}, at : 0..MaxStamp, wet : BOOLEAN]
Blank == [of |-> 0, at |-> 0, wet |-> FALSE]
Garbled == [of |-> 0, at |-> 1, wet |-> FALSE]  \* bytes read in a wrong form
Made(w, n) == [of |-> w, at |-> n, wet |-> FALSE]

\* What the game keeps in memory.  hotbarBlockHp and inventoryBlockHp are
\* playerHp, chestBlockHp is chestHp.
Parts == [info : Stamps, player : Stamps, playerHp : Stamps,
          chest : Stamps, chestHp : Stamps, entities : Stamps,
          blocks : [Chunks -> Stamps], blockData : [Chunks -> Stamps]]
BootMemory == [info |-> Blank, player |-> Blank, playerHp |-> Blank,
               chest |-> Blank, chestHp |-> Blank, entities |-> Blank,
               blocks |-> [c \in Chunks |-> Blank],
               blockData |-> [c \in Chunks |-> Blank]]

\* The files of one world.
Files == {<<"worldData", 0>>, <<"playerData", 0>>, <<"chestData", 0>>,
          <<"entityData", 0>>}
         \cup ({"chunk", "chunkED"} \X Chunks)
Listed == {f \in Files : f[1] # "chunkED"}   \* the files of version 5

\* A file: the format of its content, the content, the size it was created
\* with, and whether a write was cut short by that size.  "old" is the
\* format of versions 0-3 (of 0-4 for playerData and chestData), "newer" one
\* that this program does not know.
Missing == [form |-> "missing", main |-> Blank, extra |-> Blank,
            room |-> 0, cut |-> FALSE]
File(form, main, extra, room) ==
    [form |-> form, main |-> main, extra |-> extra, room |-> room,
     cut |-> FALSE]

\* Bytes a content takes.  Items take 2 bytes less each without their hp
\* (164 of 236, 121 of 175); compressed blocks take more or less with what
\* they hold, a raw chunk always the same.
Raw == 4
Size(f, form, main, extra) ==
    CASE f[1] = "chunk" /\ form = "new" ->
             1 + ((main.at + (IF extra.wet THEN 1 ELSE 0)) % 2)
      [] f[1] \in {"chunk", "chunkED"} /\ form = "old" -> Raw
      [] f[1] \in {"playerData", "chestData"} /\ form = "new" -> 2
      [] OTHER -> 1

\* The parts of the game that file f holds.
MainPart(m, f) == CASE f[1] = "worldData"  -> m.info
                    [] f[1] = "playerData" -> m.player
                    [] f[1] = "chestData"  -> m.chest
                    [] f[1] = "entityData" -> m.entities
                    [] f[1] = "chunk"      -> m.blocks[f[2]]
                    [] f[1] = "chunkED"    -> m.blockData[f[2]]
ExtraPart(m, f) == CASE f[1] = "playerData" -> m.playerHp
                     [] f[1] = "chestData"  -> m.chestHp
                     [] f[1] = "chunk"      -> m.blockData[f[2]]
                     [] OTHER               -> Blank

-----------------------------------------------------------------------------
\* The file operations
Op(op, f) == [op |-> op, file |-> f]
Do(op) == Op(op, <<"worldData", 0>>)           \* an operation without a file

\* The operations of ops, <<operation, file name>>, on each chunk in turn.
ForChunks(ops) ==
    [i \in 1..(Len(ops) * WorldChunks) |->
        LET o == ops[((i - 1) % Len(ops)) + 1]
        IN  Op(o[1], <<o[2], ((i - 1) \div Len(ops)) + 1>>)]

\* Create (which fails when there is a file already) and write.
Save(name) == <<Op("create", <<name, 0>>), Op("write", <<name, 0>>)>>
saveWorldData == Save("worldData")
savePlayerData == Save("playerData")
saveChestData == Save("chestData")
\* Creates only when told that the world does not exist.
saveEntityData(exists) ==
    IF exists THEN <<Op("write", <<"entityData", 0>>)>> ELSE Save("entityData")

loadWorldData == <<Op("load", <<"worldData", 0>>)>>
loadPlayerData == <<Op("load", <<"playerData", 0>>)>>
loadChestData == <<Op("load", <<"chestData", 0>>)>>
loadEntityData == <<Op("load", <<"entityData", 0>>)>>
loadPlayerDataV4 == <<Op("loadV4", <<"playerData", 0>>)>>
loadChestDataV4 == <<Op("loadV4", <<"chestData", 0>>)>>
loadCompressedChunk == <<"load", "chunk">>
loadChunk == <<"loadRaw", "chunk">>
loadChunkExtraData == <<"loadRaw", "chunkED">>

\* Mutant: the old chunks are deleted before the new ones are written.
SaveChunksDeletesFirst(exists) ==
    (IF exists THEN ForChunks(<< <<"delete", "chunk">> >>) ELSE <<>>)
    \o ForChunks(<< <<"create", "chunk">>, <<"write", "chunk">> >>)

\* saveCompressedChunk: over an existing world the file is fitted to the
\* content first; in a new one it is created.
SaveChunks(exists) ==
    ForChunks(IF exists THEN << <<"fit", "chunk">> >>
              ELSE << <<"create", "chunk">>, <<"write", "chunk">> >>)

saveAllChunk(exists) ==
    savePlayerData \o saveWorldData \o saveChestData
    \o saveEntityData(exists) \o SaveChunks(exists)

\* Deletes every chunk, then every chunk of block data (18037).
deleteOldWorld ==
    ForChunks(<< <<"delete", "chunk">> >>) \o ForChunks(<< <<"delete", "chunkED">> >>)

\* Mutant: the water is replaced after the chunks are saved.
ConvertTo5DryLate ==
    <<Op("delete", <<"playerData", 0>>), Op("delete", <<"chestData", 0>>)>>
    \o saveChestData \o savePlayerData \o saveAllChunk(FALSE)
    \o <<Do("replaceOldWater"), Do("setVersion5"), Do("saveGame"), Do("made")>>

\* The conversion at the end of loadAllChunk: from below version 4 to the
\* compressed chunks, then from below version 5 to the hp of the tools.
ConvertTo4 ==
    deleteOldWorld
    \o <<Do("setVersion4")>> \o saveAllChunk(FALSE) \o <<Do("saveGame")>>
    \o saveEntityData(FALSE)

ConvertTo5 ==
    <<Op("delete", <<"playerData", 0>>), Op("delete", <<"chestData", 0>>)>>
    \o saveChestData \o savePlayerData
    \o <<Do("replaceOldWater")>> \o saveAllChunk(FALSE)
    \o <<Do("setVersion5"), Do("saveGame"), Do("made")>>

\* A world of a newer version is refused (18318), with an error on the screen.
loadAllChunk(version) ==
    IF version > currentVersion THEN <<>>
    ELSE loadWorldData
         \o (IF version < 5 THEN loadPlayerDataV4 \o loadChestDataV4
             ELSE loadPlayerData \o loadChestData)
         \o (IF version >= 4 THEN loadEntityData ELSE <<>>)
         \o ForChunks(CASE version >= 4 -> <<loadCompressedChunk>>
                        [] version < 2 -> <<loadChunk>>
                        [] OTHER -> <<loadChunk, loadChunkExtraData>>)
         \o <<Do("loaded")>>
         \o (IF version < 4 THEN ConvertTo4 ELSE <<>>)
         \o (IF version < 5 THEN ConvertTo5 ELSE <<>>)

-----------------------------------------------------------------------------
\* What a step of a handler does
SetMain(m, f, s) == CASE f[1] = "worldData"  -> [m EXCEPT !.info = s]
                      [] f[1] = "playerData" -> [m EXCEPT !.player = s]
                      [] f[1] = "chestData"  -> [m EXCEPT !.chest = s]
                      [] f[1] = "entityData" -> [m EXCEPT !.entities = s]
                      [] f[1] = "chunk"      -> [m EXCEPT !.blocks[f[2]] = s]
                      [] f[1] = "chunkED"    -> [m EXCEPT !.blockData[f[2]] = s]
SetExtra(m, f, s) == CASE f[1] = "playerData" -> [m EXCEPT !.playerHp = s]
                       [] f[1] = "chestData"  -> [m EXCEPT !.chestHp = s]
                       [] f[1] = "chunk"      -> [m EXCEPT !.blockData[f[2]] = s]
                       [] OTHER               -> m

Content(m, f) ==
    LET main == MainPart(m, f)
        extra == ExtraPart(m, f)
    IN  File("new", main, extra, Size(f, "new", main, extra))

Rest == Tail(todo)
Entry(f) == disk[world][f]       \* the file f of the world being worked on
DiskBut(f, file) == [disk EXCEPT ![world][f] = file]

\* The game and its list of worlds are untouched.
GameKept == UNCHANGED <<gameData, worldExists, worldVersion, screen, world,
                        useCurrentVersion, now, crashes, grows, saved, begun>>

\* Bfile_CreateEntry_OS: fails when the file is there.
Create(f) ==
    /\ disk' = IF Entry(f).form = "missing"
               THEN DiskBut(f, [Missing EXCEPT !.form = "fresh",
                                               !.room = Content(mem, f).room])
               ELSE disk
    /\ todo' = Rest
    /\ UNCHANGED mem /\ GameKept

\* Open, Bfile_WriteFile_OS, close: nothing without a file to open.
Write(f) ==
    LET c == Content(mem, f)
        room == Entry(f).room
    IN  /\ disk' = IF Entry(f).form = "missing" THEN disk
                   ELSE IF c.room <= room THEN DiskBut(f, [c EXCEPT !.room = room])
                   ELSE IF grows THEN DiskBut(f, c)
                   ELSE DiskBut(f, [c EXCEPT !.room = room, !.cut = TRUE])
        /\ todo' = Rest
        /\ UNCHANGED mem /\ GameKept

\* saveCompressedChunk over an existing world: a file of another length is
\* deleted and made again.
Fit(f) ==
    /\ todo' = (IF Entry(f).room # Content(mem, f).room
                THEN <<Op("delete", f), Op("create", f), Op("write", f)>>
                ELSE <<Op("write", f)>>) \o Rest
    /\ UNCHANGED <<disk, mem>> /\ GameKept

Delete(f) ==
    /\ disk' = DiskBut(f, Missing)
    /\ todo' = Rest
    /\ UNCHANGED mem /\ GameKept

\* A reader of the newest format.  Without its file worldData saves the list
\* of worlds, chestData and entityData save what is in memory, playerData
\* does nothing, and a chunk unpacks what happens to be on the stack.
Load(f) ==
    LET file == Entry(f)
        sound == file.form = "new" /\ ~file.cut
        read == SetExtra(SetMain(mem, f, IF sound THEN file.main ELSE Garbled),
                         f, IF sound THEN file.extra ELSE Garbled)
    IN  /\ mem' = IF file.form = "missing" /\ f[1] # "chunk" THEN mem ELSE read
        /\ todo' = (IF file.form # "missing" THEN <<>>
                    ELSE CASE f[1] = "worldData" -> <<Do("saveGame")>>
                           [] f[1] = "chestData" -> saveChestData
                           [] f[1] = "entityData" -> saveEntityData(FALSE)
                           [] OTHER -> <<>>) \o Rest
        /\ UNCHANGED disk /\ GameKept

\* The readers of the older formats, which know of no hp and no block data.
\* loadChunk and loadChunkExtraData leave memory alone without their file.
LoadOld(f) ==
    LET file == Entry(f)
    IN  /\ mem' = IF file.form = "missing" THEN mem
                  ELSE SetMain(mem, f, IF file.form = "old" THEN file.main
                                       ELSE Garbled)
        /\ todo' = (IF file.form = "missing" /\ f[1] = "chestData"
                    THEN saveChestData ELSE <<>>) \o Rest
        /\ UNCHANGED disk /\ GameKept

SaveGame ==
    /\ gameData' = [exists |-> worldExists, version |-> worldVersion]
    /\ todo' = Rest
    /\ UNCHANGED <<disk, worldExists, worldVersion, mem, screen, world,
                   useCurrentVersion, now, crashes, grows, saved, begun>>

SetVersion(v) ==
    /\ worldVersion' = [worldVersion EXCEPT ![world] = v]
    /\ todo' = Rest
    /\ UNCHANGED <<disk, gameData, worldExists, mem, screen, world,
                   useCurrentVersion, now, crashes, grows, saved, begun>>

replaceOldWater ==
    /\ mem' = [mem EXCEPT !.blockData =
                  [c \in Chunks |-> [mem.blockData[c] EXCEPT !.wet = FALSE]]]
    /\ todo' = Rest
    /\ UNCHANGED disk /\ GameKept

\* What the parts of world w were, and at which version: what its files hold.
Snapshot(m, version, by) == [parts |-> m, version |-> version, by |-> by]

\* loadAllChunk has read everything.  Below version 5 the conversion begins,
\* which promises nothing until it is done.
Loaded ==
    /\ saved' = IF worldVersion[world] < currentVersion
                THEN [saved EXCEPT ![world] = {}] ELSE saved
    /\ todo' = Rest
    /\ UNCHANGED <<disk, gameData, worldExists, worldVersion, mem, screen,
                   world, useCurrentVersion, now, crashes, grows, begun>>

\* The last file operation of a save, a creation or a conversion is done.
Promise(by) ==
    /\ saved' = [saved EXCEPT ![world] = {Snapshot(mem, currentVersion, by)}]
    /\ begun' = [begun EXCEPT ![world] = 0]
    /\ todo' = Rest
    /\ UNCHANGED <<disk, gameData, worldExists, worldVersion, mem, screen,
                   world, useCurrentVersion, now, crashes, grows>>

\* After a save from the game menu the world is listed, at version 5.
List ==
    /\ worldExists' = [worldExists EXCEPT ![world] = TRUE]
    /\ worldVersion' = [worldVersion EXCEPT ![world] = currentVersion]
    /\ todo' = Rest
    /\ UNCHANGED <<disk, gameData, mem, screen, world, useCurrentVersion, now,
                   crashes, grows, saved, begun>>

\* Mutant: the entities are not cleared.
LeaveEntities ==
    /\ mem' = [mem EXCEPT !.info = Blank, !.player = Blank,
                          !.blocks = [c \in Chunks |-> Blank]]
    /\ screen' = "menu"
    /\ todo' = <<>>
    /\ UNCHANGED <<disk, gameData, worldExists, worldVersion, world,
                   useCurrentVersion, now, crashes, grows, saved, begun>>

\* Leaving the game clears the blocks, the seed, the inventory and the
\* entities.  It does not clear the block data, the chest records and the hp
\* of the hotbar (24176-24218, 24224-24268).
Leave ==
    /\ mem' = [mem EXCEPT !.info = Blank, !.player = Blank, !.entities = Blank,
                          !.blocks = [c \in Chunks |-> Blank]]
    /\ screen' = "menu"
    /\ todo' = <<>>
    /\ UNCHANGED <<disk, gameData, worldExists, worldVersion, world,
                   useCurrentVersion, now, crashes, grows, saved, begun>>

\* The first operation of the running handler.
Work ==
    /\ todo # <<>>
    /\ LET f == Head(todo).file
           op == Head(todo).op
       IN  \/ op = "create" /\ Create(f)
           \/ op = "write" /\ Write(f)
           \/ op = "fit" /\ Fit(f)
           \/ op = "delete" /\ Delete(f)
           \/ op = "load" /\ Load(f)
           \/ op \in {"loadV4", "loadRaw"} /\ LoadOld(f)
           \/ op = "saveGame" /\ SaveGame
           \/ op = "setVersion4" /\ SetVersion(4)
           \/ op = "setVersion5" /\ SetVersion(currentVersion)
           \/ op = "replaceOldWater" /\ replaceOldWater
           \/ op = "list" /\ List
           \/ op = "loaded" /\ Loaded
           \/ op = "made" /\ Promise("creation")
           \/ op = "saved" /\ Promise("save")
           \/ op = "leave" /\ Leave

-----------------------------------------------------------------------------
\* The screens
Idle(s) == todo = <<>> /\ screen = s

\* EXE on a free slot, then on "create": a world is generated.  Generation
\* sets the block data of water only, and no chest (19536, 19679).  The list
\* of worlds is written before the world is.
CreateWorld(w) ==
    /\ Idle("menu") /\ ~worldExists[w] /\ now < MaxStamp
    /\ LET s == Made(w, now + 1)
       IN  mem' = [mem EXCEPT !.info = s, !.player = s, !.entities = s,
                              !.blocks = [c \in Chunks |-> s]]
    /\ now' = now + 1
    /\ world' = w /\ screen' = "game"
    /\ worldExists' = [worldExists EXCEPT ![w] = TRUE]
    /\ worldVersion' = [worldVersion EXCEPT ![w] = currentVersion]
    /\ saved' = [saved EXCEPT ![w] = {}]
    /\ todo' = <<Do("saveGame")>> \o saveAllChunk(FALSE) \o <<Do("made")>>
    /\ UNCHANGED <<disk, gameData, useCurrentVersion, crashes, grows, begun>>

\* EXE on a used slot: opened, and converted when it is an old world.  A
\* refused one is entered all the same, with what is in memory (23304).
OpenWorld(w) ==
    /\ Idle("menu") /\ worldExists[w]
    /\ world' = w /\ screen' = "game"
    /\ todo' = loadAllChunk(worldVersion[w])
    /\ UNCHANGED <<disk, gameData, worldExists, worldVersion, mem,
                   useCurrentVersion, now, crashes, grows, saved, begun>>

\* Delete mode takes the world off the list and leaves its files.
DeleteWorld(w) ==
    /\ Idle("menu")
    /\ worldExists' = [worldExists EXCEPT ![w] = FALSE]
    /\ todo' = <<Do("saveGame")>>
    /\ UNCHANGED <<disk, gameData, worldVersion, mem, screen, world,
                   useCurrentVersion, now, crashes, grows, saved, begun>>

\* Convert old/Recover mode on a free slot; Edit mode on a used one, which
\* reads worldData first.  Both show the screen of options (UIState 15).
RecoverWorld(w) ==
    /\ Idle("menu") /\ ~worldExists[w]
    /\ world' = w /\ screen' = "edit" /\ useCurrentVersion' = FALSE
    /\ UNCHANGED <<disk, gameData, worldExists, worldVersion, mem, todo, now,
                   crashes, grows, saved, begun>>
EditWorld(w) ==
    /\ Idle("menu") /\ worldExists[w]
    /\ world' = w /\ screen' = "edit" /\ useCurrentVersion' = TRUE
    /\ todo' = loadWorldData
    /\ UNCHANGED <<disk, gameData, worldExists, worldVersion, mem, now,
                   crashes, grows, saved, begun>>

\* "Save" on that screen: the options are new, the version is the current one
\* or 0.  What was saved is still there if that version reads the same files.
SameForm(v1, v2) == v1 = v2 \/ {v1, v2} \subseteq {0, 1} \/ {v1, v2} \subseteq {2, 3}
ConfirmEdit ==
    /\ Idle("edit") /\ now < MaxStamp
    /\ LET version == IF useCurrentVersion THEN currentVersion ELSE 0
           info == Made(world, now + 1)
       IN  /\ mem' = [mem EXCEPT !.info = info]
           /\ worldVersion' = [worldVersion EXCEPT ![world] = version]
           /\ saved' = [saved EXCEPT ![world] =
                  UNION {{s, [s EXCEPT !.parts.info = info]} :
                         s \in {t \in saved[world] : SameForm(t.version, version)}}]
    /\ now' = now + 1
    /\ worldExists' = [worldExists EXCEPT ![world] = TRUE]
    /\ todo' = saveWorldData \o <<Do("saveGame")>>
    /\ screen' = "menu"
    /\ UNCHANGED <<disk, gameData, world, useCurrentVersion, crashes, grows,
                   begun>>
CancelEdit ==
    /\ Idle("edit")
    /\ screen' = "menu"
    /\ UNCHANGED <<disk, gameData, worldExists, worldVersion, mem, todo, world,
                   useCurrentVersion, now, crashes, grows, saved, begun>>

\* Playing changes everything but the chests, and those of a chest opened.
Play ==
    /\ Idle("game") /\ now < MaxStamp
    /\ LET s == Made(world, now + 1)
       IN  \E chestUsed \in BOOLEAN :
              mem' = [info |-> s, player |-> s, playerHp |-> s, entities |-> s,
                      chest |-> IF chestUsed THEN s ELSE mem.chest,
                      chestHp |-> IF chestUsed THEN s ELSE mem.chestHp,
                      blocks |-> [c \in Chunks |-> s],
                      blockData |-> [c \in Chunks |-> s]]
    /\ now' = now + 1
    /\ UNCHANGED <<disk, gameData, worldExists, worldVersion, todo, screen,
                   world, useCurrentVersion, crashes, grows, saved, begun>>

\* "Save" and "Save and quit" in the game menu.  Over the files of a refused
\* world it promises nothing until it is done.
SaveWorld(quit) ==
    /\ Idle("game")
    /\ todo' = saveAllChunk(worldExists[world])
               \o <<Do("list"), Do("saveGame"), Do("saved")>>
               \o (IF quit THEN <<Do("leave")>> ELSE <<>>)
    /\ saved' = [saved EXCEPT ![world] =
                    IF @ = {} \/ worldVersion[world] > currentVersion THEN {}
                    ELSE @ \cup {Snapshot(mem, currentVersion, "save")}]
    /\ begun' = [begun EXCEPT ![world] = @ + 1]
    /\ UNCHANGED <<disk, gameData, worldExists, worldVersion, mem, screen,
                   world, useCurrentVersion, now, crashes, grows>>
QuitWorld == Idle("game") /\ Leave

\* The calculator is reset, or the program ended with EXIT: it starts again
\* with the list of worlds it finds (28073).
Crash ==
    /\ crashes < MaxCrash /\ crashes' = crashes + 1
    /\ mem' = BootMemory
    /\ worldExists' = gameData.exists /\ worldVersion' = gameData.version
    /\ todo' = <<>> /\ screen' = "menu" /\ world' = 0
    /\ useCurrentVersion' = FALSE
    /\ UNCHANGED <<disk, gameData, now, grows, saved, begun>>

-----------------------------------------------------------------------------
\* The files a world of a version consists of, and their formats.
FilesOf(version) ==
    IF version >= 4 THEN Listed
    ELSE {f \in Files : f[1] # "entityData" /\ (f[1] = "chunkED" => version >= 2)}
FormOf(version, f) ==
    IF version > currentVersion THEN "newer"
    ELSE CASE f[1] \in {"playerData", "chestData"} -> IF version < 5 THEN "old" ELSE "new"
           [] f[1] = "chunk" -> IF version < 4 THEN "old" ELSE "new"
           [] f[1] = "chunkED" -> "old"
           [] OTHER -> "new"

\* A world as version v of the program left it.
OldParts(w, v) ==
    LET s == Made(w, 1)
    IN  [info |-> s, player |-> s, playerHp |-> s, chest |-> s, chestHp |-> s,
         entities |-> s, blocks |-> [c \in Chunks |-> s],
         blockData |-> [c \in Chunks |-> [s EXCEPT !.wet = v < 5]]]
OldFile(w, v, f) ==
    LET m == OldParts(w, v)
        form == FormOf(v, f)
        main == MainPart(m, f)
        extra == IF form = "new" THEN ExtraPart(m, f) ELSE Blank
    IN  IF f \in FilesOf(v) THEN File(form, main, extra, Size(f, form, main, extra))
        ELSE Missing

\* The first boot of this version of the program: one slot may hold a world
\* of an earlier or a later one, on the list or not.
Init ==
    \E w \in Worlds, v \in StartVersions, listed \in BOOLEAN :
        /\ disk = [x \in Worlds |-> [f \in Files |->
                      IF x = w THEN OldFile(w, v, f) ELSE Missing]]
        /\ worldExists = [x \in Worlds |-> x = w /\ listed]
        /\ worldVersion = [x \in Worlds |-> IF x = w THEN v ELSE 0]
        /\ gameData = [exists |-> worldExists, version |-> worldVersion]
        /\ saved = [x \in Worlds |->
                      IF x = w THEN {Snapshot(OldParts(w, v), v, "creation")} ELSE {}]
        /\ mem = BootMemory /\ todo = <<>> /\ screen = "menu" /\ world = 0
        /\ useCurrentVersion = FALSE /\ now = 1 /\ crashes = 0
        /\ begun = [x \in Worlds |-> 0]
        /\ grows \in BOOLEAN

Next ==
    \/ Work
    \/ \E w \in Worlds : \/ CreateWorld(w) \/ OpenWorld(w) \/ DeleteWorld(w)
                         \/ RecoverWorld(w) \/ EditWorld(w)
    \/ ConfirmEdit \/ CancelEdit
    \/ Play \/ \E quit \in BOOLEAN : SaveWorld(quit)
    \/ QuitWorld
    \/ Crash

Spec == Init /\ [][Next]_vars

-----------------------------------------------------------------------------
\* Properties

FileTypes == [form : {"missing", "fresh", "old", "new", "newer"}, main : Stamps,
              extra : Stamps, room : 0..Raw, cut : BOOLEAN]
\* The files, the list of worlds, the memory and the screen have the shapes
\* the code gives them.
TypeOK ==
    /\ disk \in [Worlds -> [Files -> FileTypes]]
    /\ gameData \in [exists : [Worlds -> BOOLEAN], version : [Worlds -> Nat]]
    /\ worldExists \in [Worlds -> BOOLEAN]
    /\ worldVersion \in [Worlds -> Nat]
    /\ mem \in Parts
    /\ screen \in {"menu", "edit", "game"}
    /\ world \in Worlds \cup {0} /\ (screen # "menu" => world # 0)
    /\ useCurrentVersion \in BOOLEAN /\ grows \in BOOLEAN /\ now \in 1..MaxStamp

\* The parts of a snapshot that file f holds, at version v, are those of m.
Agree(m, s, f, v) ==
    /\ MainPart(m, f) = MainPart(s.parts, f)
    /\ FormOf(v, f) = "new" => ExtraPart(m, f) = ExtraPart(s.parts, f)

\* What opening a world reads (18314-18358) is what the last save, creation
\* or conversion that ended put there, whatever was played, created, deleted
\* and interrupted in between, in this slot or another, and whatever version
\* of the program wrote it.  Every save that did not end may have lost one
\* file and mixed the two contents.
LoadsWhatWasSaved ==
    todo # <<>> /\ Head(todo).op = "loaded" /\ saved[world] # {} =>
        LET v == worldVersion[world]
        IN  Cardinality({f \in FilesOf(v) :
                ~Entry(f).cut /\ \A s \in saved[world] : ~Agree(mem, s, f, v)})
            <= begun[world]

\* The same on the medium, at every moment: a save that a reset ends costs at
\* most one file; the others hold the old content or the new one, in the
\* format that the list of worlds says (17719-17768, 18268-18313).
SavingRisksOneFile ==
    \A w \in Worlds : gameData.exists[w] /\ saved[w] # {} =>
        LET v == gameData.version[w]
        IN  Cardinality({f \in FilesOf(v) :
                /\ ~disk[w][f].cut
                /\ \A s \in saved[w] :
                      \/ disk[w][f].form # FormOf(v, f)
                      \/ disk[w][f].main # MainPart(s.parts, f)
                      \/ /\ FormOf(v, f) = "new"
                         /\ disk[w][f].extra # ExtraPart(s.parts, f)})
            <= begun[w]

\* A file is cut short only where a creation or a conversion wrote over a
\* file that was there (18268, 18391), and a save from the game menu mends
\* the chunks (17745-17755).
SaveMendsChunks ==
    \A w \in Worlds, f \in Files :
        disk[w][f].cut =>
            /\ ~grows
            /\ f[1] \in {"playerData", "chestData", "chunk"}
            /\ ~(f[1] = "chunk" /\ \E s \in saved[w] : saved[w] = {s} /\ s.by = "save")

\* The chunks are written in the compressed format only once the world is
\* marked as having it (18365): the raw writers are never reached.
SavesInCurrentForm ==
    todo # <<>> /\ Head(todo).op \in {"create", "write", "fit"}
        /\ Head(todo).file[1] = "chunk" => worldVersion[world] >= 4

\* What is on the medium can be read back, at every moment and after a reset.
DiskSound == TypeOK /\ SavingRisksOneFile /\ SaveMendsChunks /\ SavesInCurrentForm

\* A world never gets what the player carries, the mobs or the blocks of
\* another world, though all of them go through the same memory and it is
\* cleared only on the way out (24176-24268).  (Chest records, block data
\* and the hp of the hotbar are not cleared, and do.)
NothingFromAnotherWorld ==
    \A w \in Worlds, f \in Files :
        f[1] \in {"playerData", "entityData", "chunk"} =>
            disk[w][f].main.of \in {0, w}
=============================================================================
