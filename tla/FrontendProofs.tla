--------------------------- MODULE FrontendProofs ---------------------------
(***************************************************************************)
(* Proofs about five parts of the frontend.                                *)
(*                                                                         *)
(* The player, for all discs, ROMs and numbers of saves: no title loses    *)
(* its disc, no storage gets into the wrong file, and no save that reached *)
(* a file is taken back. What makes the last inductive is that storage the *)
(* mirror does not know yet is the newest there is, and that what a file   *)
(* holds is in the machine too, or in a backup, or was not read.           *)
(*                                                                         *)
(* The ring of the sound, for every capacity and every batch: left and     *)
(* right are exchanged by nothing but a frame that was torn by a full or   *)
(* by an empty ring. What is inductive speaks of all samples under way,    *)
(* from the one that the callback has popped over the ring to the rest of  *)
(* the batch: they are whole frames, in order, and the first is a left one.*)
(*                                                                         *)
(* The Photo CD viewer, for all discs and any number of commands and       *)
(* events. A load goes through three places, and is in one of them: it is  *)
(* a command under way, or an answer under way, or in the viewer. Whatever *)
(* is behind it there belongs to its disc.                                 *)
(*                                                                         *)
(* The host's input, for all buttons, keys and codes. A queue is under way *)
(* to the player: what is inductive speaks of what the player will hold    *)
(* once it is applied, part by part of a pass of the window.               *)
(*                                                                         *)
(* The library, for any number of formats and titles and folders that      *)
(* change at any time: whatever list replaces the one the cursor is in, it *)
(* is on an entry, and the refresh button leaves it on its disc.           *)
(***************************************************************************)
EXTENDS Player, AudioRing, PhotoViewer, HostInput, Library, FiniteSetTheorems, Induction, TLAPS

-----------------------------------------------------------------------------
(* The player.                                                             *)


\* A file holds nothing newer than the machine, unless it was backed up, or was
\* not read and nothing came after it.
FileIsCovered ==
    \/ files[nvramPath].n <= machine.nvram.n
    \/ \E b \in backups : b.made = nvramPath /\ b.n >= files[nvramPath].n
    \/ unread /\ machine.nvram = Blank

SavesOrdered ==
    /\ \A c \in Config : files[c].n <= saves
    /\ machine.nvram # nvramMirror => machine.nvram.n = saves
    /\ FileIsCovered

StoreTypeOK ==
    /\ machine.nvram \in Save /\ nvramMirror \in Save /\ nvramPath \in Config
    /\ files \in [Config -> Save] /\ backups \in SUBSET Save
    /\ saves \in 0..MaxSaves /\ lapses \in SUBSET Lapse /\ unread \in BOOLEAN

StoreInv == StoreTypeOK /\ StorageBelongs /\ MirrorIsInFile /\ SavesOrdered

\* The rest of PlayerTypeOK.
RestTypeOK ==
    /\ machine \in MachineType
    /\ slot \in Command \cup {NoCommand}
    /\ discPath \in Disc \cup {None} /\ identity \in Disc \cup {None}
    /\ pal \in Standard /\ dvcInserted \in BOOLEAN /\ keyboardAttached \in BOOLEAN
    /\ overrides \in [Disc -> Standard \cup {Unknown}]
    /\ paused \in BOOLEAN
    /\ emu \in {Running, Exited} \cup [load : Disc, replaces : BOOLEAN]
    /\ choosing \in Rom \cup {None}

IInv == RestTypeOK /\ TitleHasItsDisc /\ StoreInv

\* What a step does to the files, as NoSaveTakenBack has it.
FilesKept ==
    \A c \in Config :
        \/ files'[c].n >= files[c].n
        \/ \E b \in backups' : b.made = c /\ b.n >= files[c].n
        \/ unread /\ c = nvramPath /\ machine.nvram = Blank /\ files'[c] = Blank

-----------------------------------------------------------------------------
(* The storage.                                                            *)

\* A save has a number, and none has the number of the blank storage.
LEMMA SaveFields ==
    ASSUME NEW s \in Save
    PROVE  s.n \in Nat /\ s.n <= MaxSaves /\ (s.n = 0 <=> s = Blank)
<1>. PlayerAssumption BY PlayerAssumption
<1>. QED BY DEF PlayerAssumption, Save, Blank

\* The blank storage is a save of no configuration.
LEMMA BlankFields == Blank \in Save /\ Blank.n = 0 /\ Blank.made = NoConfig
BY DEF Blank, Save

\* Steps that leave the storage alone keep what is known of it
\* (main.rs: emu_loop, all commands but the seven that touch it).
LEMMA StoreUnchanged ==
    ASSUME StoreInv, machine'.nvram = machine.nvram, UNCHANGED <<store, backups, saves>>,
           emu' # Exited => emu # Exited
    PROVE  StoreInv' /\ FilesKept
<1>1. StoreTypeOK' BY DEF StoreInv, StoreTypeOK, store
<1>2. StorageBelongs' BY DEF StoreInv, StorageBelongs, store
<1>3. MirrorIsInFile' BY DEF StoreInv, MirrorIsInFile, store
<1>4. SavesOrdered' BY DEF StoreInv, SavesOrdered, FileIsCovered, store
<1>5. FilesKept
  <2>1. \A c \in Config : files[c].n \in Nat BY SaveFields DEF StoreInv, StoreTypeOK
  <2>. QED BY <2>1 DEF FilesKept, store
<1>. QED BY <1>1, <1>2, <1>3, <1>4, <1>5 DEF StoreInv

\* What the machine holds and the mirror does not may be written to its file:
\* it is the newest (storage.rs: write_nvram).
LEMMA WriteKeeps ==
    ASSUME StoreInv, NEW ok \in BOOLEAN, WriteNvram(ok, nvramPath, machine.nvram),
           machine.nvram # nvramMirror, UNCHANGED backups
    PROVE  /\ files' \in [Config -> Save] /\ lapses' \in SUBSET Lapse
           /\ \A c \in Config : /\ files'[c].made \in {c, NoConfig}
                                /\ files'[c].n <= saves
                                /\ c # nvramPath => files'[c] = files[c]
           /\ lapses' = {} => lapses = {} /\ files'[nvramPath] = machine.nvram
           /\ files'[nvramPath].n <= machine.nvram.n
              \/ \E b \in backups : b.made = nvramPath /\ b.n >= files'[nvramPath].n
           /\ FilesKept
<1>. USE DEF StoreInv, StoreTypeOK
<1>1. /\ files' \in [Config -> Save] /\ lapses' \in SUBSET Lapse
      /\ \A c \in Config : c # nvramPath => files'[c] = files[c]
      /\ files'[nvramPath] \in {machine.nvram, files[nvramPath]}
      /\ lapses' = {} => lapses = {} /\ files'[nvramPath] = machine.nvram
  BY DEF WriteNvram, Lapse
<1>2. machine.nvram.n = saves /\ machine.nvram.n \in Nat /\ \A c \in Config : files[c].n \in Nat
  BY SaveFields DEF SavesOrdered
<1>3. \A c \in Config : files[c].n <= saves /\ files[c].made \in {c, NoConfig}
  BY DEF SavesOrdered, StorageBelongs
<1>4. machine.nvram.made \in {nvramPath, NoConfig} BY DEF StorageBelongs
<1>5. \A c \in Config : /\ files'[c].made \in {c, NoConfig}
                        /\ files'[c].n <= saves /\ files'[c].n >= files[c].n
  <2>. SUFFICES ASSUME NEW c \in Config
                PROVE  /\ files'[c].made \in {c, NoConfig}
                       /\ files'[c].n <= saves /\ files'[c].n >= files[c].n
    OBVIOUS
  <2>1. CASE files'[c] = files[c] BY <2>1, <1>2, <1>3
  <2>2. CASE c = nvramPath /\ files'[c] = machine.nvram BY <2>2, <1>2, <1>3, <1>4
  <2>. QED BY <2>1, <2>2, <1>1
<1>6. files'[nvramPath].n <= machine.nvram.n BY <1>2, <1>5
<1>. QED BY <1>1, <1>5, <1>6 DEF FilesKept

\* Another file is taken into use, and what the old one misses is written first
\* (main.rs: switch_nvram_store).
LEMMA SwitchKeeps ==
    ASSUME StoreInv, emu # Exited, NEW ok \in BOOLEAN, NEW read \in BOOLEAN, NEW path \in Config,
           SwitchNvramStore(ok, read, path), machine'.nvram = StoreAfter(read, path),
           UNCHANGED <<backups, saves>>
    PROVE  StoreInv' /\ FilesKept
<1>1. CASE path = nvramPath
  <2>1. UNCHANGED store BY <1>1 DEF SwitchNvramStore
  <2>2. machine'.nvram = machine.nvram BY <1>1 DEF StoreAfter
  <2>. QED BY <2>1, <2>2, StoreUnchanged
<1>2. CASE path # nvramPath
  <2>1. /\ nvramPath' = path /\ nvramMirror' = LoadNvram(read, path)
        /\ unread' = (LoadNvram(read, path) # files[path])
        /\ machine'.nvram = LoadNvram(read, path)
    BY <1>2 DEF SwitchNvramStore, StoreAfter, UseStore
  <2>2. /\ files' \in [Config -> Save] /\ lapses' \in SUBSET Lapse
        /\ \A c \in Config : /\ files'[c].made \in {c, NoConfig}
                             /\ files'[c].n <= saves
                             /\ c # nvramPath => files'[c] = files[c]
        /\ FilesKept
    <3>1. CASE machine.nvram # nvramMirror
      <4>1. WriteNvram(ok, nvramPath, machine.nvram) BY <1>2, <3>1 DEF SwitchNvramStore
      <4>. QED BY <3>1, <4>1, WriteKeeps
    <3>2. CASE machine.nvram = nvramMirror
      <4>1. UNCHANGED <<files, lapses>> BY <1>2, <3>2 DEF SwitchNvramStore
      <4>2. \A c \in Config : files[c].n \in Nat BY SaveFields DEF StoreInv, StoreTypeOK
      <4>. QED BY <4>1, <4>2 DEF StoreInv, StoreTypeOK, StorageBelongs, SavesOrdered, FilesKept
    <3>. QED BY <3>1, <3>2
  <2>3. /\ files[path] \in Save /\ files'[path] = files[path]
        /\ LoadNvram(read, path) \in {files[path], Blank}
    BY <1>2, <2>2 DEF StoreInv, StoreTypeOK, LoadNvram
  <2>. DEFINE loaded == LoadNvram(read, path)
  <2>. HIDE DEF loaded
  <2>4. /\ nvramPath' = path /\ nvramMirror' = loaded /\ machine'.nvram = loaded
        /\ unread' = (loaded # files[path]) /\ loaded \in {files[path], Blank} /\ loaded \in Save
    BY <2>1, <2>3, BlankFields DEF loaded
  <2>5. StoreTypeOK' BY <2>2, <2>4 DEF StoreInv, StoreTypeOK
  <2>6. StorageBelongs'
    <3>1. loaded.made \in {path, NoConfig} BY <2>4, BlankFields DEF StoreInv, StorageBelongs
    <3>. QED BY <2>2, <2>4, <3>1 DEF StorageBelongs
  <2>7. MirrorIsInFile' BY <2>3, <2>4 DEF MirrorIsInFile
  <2>8. SavesOrdered'
    <3>1. files[path].n \in Nat BY <2>3, SaveFields
    <3>2. FileIsCovered'
      <4>1. CASE loaded = files[path] BY <2>3, <2>4, <3>1, <4>1 DEF FileIsCovered
      <4>2. CASE loaded # files[path] BY <2>4, <4>2 DEF FileIsCovered
      <4>. QED BY <4>1, <4>2
    <3>. QED BY <2>2, <2>4, <3>2 DEF SavesOrdered
  <2>. QED BY <2>2, <2>5, <2>6, <2>7, <2>8 DEF StoreInv
<1>. QED BY <1>1, <1>2

\* The storage is written to the file it belongs to and nothing else happens to
\* it (main.rs:2322, 2331).
LEMMA FlushKeeps ==
    ASSUME StoreInv, NEW ok \in BOOLEAN, machine.nvram # nvramMirror,
           Overwrite(ok, machine.nvram),
           UNCHANGED <<nvramPath, backups, saves>>, machine'.nvram = machine.nvram,
           \/ nvramMirror' = machine.nvram
           \/ nvramMirror' = nvramMirror /\ emu' = Exited
    PROVE  StoreInv' /\ FilesKept
<1>1. /\ files' \in [Config -> Save] /\ lapses' \in SUBSET Lapse
      /\ \A c \in Config : files'[c].made \in {c, NoConfig} /\ files'[c].n <= saves
      /\ lapses' = {} => files'[nvramPath] = machine.nvram
      /\ files'[nvramPath].n <= machine.nvram.n
         \/ \E b \in backups : b.made = nvramPath /\ b.n >= files'[nvramPath].n
      /\ FilesKept
  BY WriteKeeps DEF Overwrite
<1>0. unread' \in BOOLEAN /\ (lapses' = {} => ~unread')
  <2>1. lapses' = {} => ok BY DEF Overwrite, WriteNvram
  <2>. QED BY <2>1 DEF Overwrite, StoreInv, StoreTypeOK
<1>2. StoreTypeOK' BY <1>0, <1>1 DEF StoreInv, StoreTypeOK
<1>3. StorageBelongs' BY <1>1 DEF StoreInv, StorageBelongs
<1>4. MirrorIsInFile' BY <1>0, <1>1 DEF MirrorIsInFile
<1>5. SavesOrdered' BY <1>1 DEF StoreInv, SavesOrdered, FileIsCovered
<1>. QED BY <1>1, <1>2, <1>3, <1>4, <1>5 DEF StoreInv

\* The storage is cleared behind its backup (main.rs:2033).
LEMMA ClearKeeps ==
    ASSUME StoreInv, NEW ok \in BOOLEAN,
           backups' = backups \cup ({machine.nvram} \ {Blank}),
           machine'.nvram = Blank, nvramMirror' = Blank, Overwrite(ok, Blank),
           UNCHANGED <<nvramPath, saves>>
    PROVE  StoreInv' /\ FilesKept
<1>. USE DEF StoreInv, StoreTypeOK
<1>1. /\ files' \in [Config -> Save] /\ lapses' \in SUBSET Lapse
      /\ \A c \in Config : c # nvramPath => files'[c] = files[c]
      /\ files'[nvramPath] \in {Blank, files[nvramPath]}
      /\ lapses' = {} => files'[nvramPath] = Blank /\ ~unread'
      /\ unread' \in BOOLEAN /\ (unread /\ ~unread' => files'[nvramPath] = Blank)
  BY BlankFields DEF Overwrite, WriteNvram, Lapse
<1>2. backups' \in SUBSET Save /\ backups \subseteq backups' OBVIOUS
<1>3. /\ machine.nvram.n \in Nat /\ \A c \in Config : files[c].n \in Nat
      /\ \A b \in backups' : b.n \in Nat
  BY <1>2, SaveFields
<1>4. \A c \in Config : files[c].n <= saves /\ files[c].made \in {c, NoConfig}
  BY DEF SavesOrdered, StorageBelongs
<1>5. \/ files[nvramPath].n = 0
      \/ \E b \in backups' : b.made = nvramPath /\ b.n >= files[nvramPath].n
      \/ unread /\ machine.nvram = Blank
  <2>1. CASE machine.nvram = Blank
    BY <2>1, <1>2, <1>3, BlankFields DEF SavesOrdered, FileIsCovered
  <2>2. CASE machine.nvram # Blank
    <3>1. machine.nvram \in backups' BY <2>2
    <3>2. machine.nvram.made \in Config BY <2>2 DEF Save
    <3>3. machine.nvram.made # NoConfig BY <3>2 DEF Config, NoConfig, Standard, None
    <3>4. machine.nvram.made = nvramPath BY <3>3 DEF StorageBelongs
    <3>. QED BY <3>1, <3>4, <1>2, <1>3 DEF SavesOrdered, FileIsCovered
  <2>. QED BY <2>1, <2>2
<1>6. \A c \in Config : files'[c].n <= saves /\ files'[c].made \in {c, NoConfig}
  BY <1>1, <1>4, BlankFields
<1>7. FilesKept
  <2>. SUFFICES ASSUME NEW c \in Config
                PROVE  \/ files'[c].n >= files[c].n
                       \/ \E b \in backups' : b.made = c /\ b.n >= files[c].n
                       \/ unread /\ c = nvramPath /\ machine.nvram = Blank /\ files'[c] = Blank
    BY DEF FilesKept
  <2>1. CASE files'[c] = files[c] BY <2>1, <1>3
  <2>2. CASE c = nvramPath /\ files'[c] = Blank BY <2>2, <1>5, BlankFields
  <2>. QED BY <1>1, <2>1, <2>2
<1>8. StoreTypeOK' BY <1>1, <1>2, BlankFields
<1>9. StorageBelongs' BY <1>6, BlankFields DEF StorageBelongs
<1>10. MirrorIsInFile' BY <1>1 DEF MirrorIsInFile
<1>11. FileIsCovered'
  <2>1. CASE files'[nvramPath] = Blank BY <2>1, BlankFields DEF FileIsCovered
  <2>2. CASE files'[nvramPath] = files[nvramPath] /\ files'[nvramPath] # Blank
    <3>1. unread => unread' BY <1>1, <2>2
    <3>. QED BY <1>3, <1>5, <2>2, <3>1, BlankFields DEF FileIsCovered
  <2>. QED BY <1>1, <2>1, <2>2
<1>12. SavesOrdered' BY <1>6, <1>11 DEF SavesOrdered
<1>. QED BY <1>7, <1>8, <1>9, <1>10, <1>12

\* The guest writes its storage: the newest save there is (main.rs:2087).
LEMMA SaveKeeps ==
    ASSUME StoreInv, saves < MaxSaves, saves' = saves + 1,
           machine'.nvram = [made |-> nvramPath, n |-> saves + 1],
           UNCHANGED <<store, backups, emu>>
    PROVE  StoreInv' /\ FilesKept
<1>. USE DEF StoreInv, StoreTypeOK
<1>1. MaxSaves \in Nat BY PlayerAssumption DEF PlayerAssumption
<1>2. saves' \in 0..MaxSaves /\ saves + 1 \in 1..MaxSaves BY <1>1
<1>3. machine'.nvram \in Save BY <1>2 DEF Save
<1>4. \A c \in Config : files[c].n \in Nat /\ files[c].n <= saves BY SaveFields DEF SavesOrdered
<1>5. StoreTypeOK' BY <1>2, <1>3 DEF store
<1>6. StorageBelongs' BY DEF StorageBelongs, store
<1>7. MirrorIsInFile' BY DEF MirrorIsInFile, store
<1>8. SavesOrdered'
  <2>1. \A c \in Config : files'[c].n <= saves' BY <1>4, <1>2 DEF store
  <2>2. machine'.nvram.n = saves' OBVIOUS
  <2>3. files'[nvramPath'].n <= machine'.nvram.n BY <2>1, <2>2 DEF store
  <2>. QED BY <2>1, <2>2, <2>3 DEF SavesOrdered, FileIsCovered
<1>9. FilesKept BY <1>4 DEF FilesKept, store
<1>. QED BY <1>5, <1>6, <1>7, <1>8, <1>9

\* The program starts with what the file of its first configuration holds
\* (main.rs:1243).
LEMMA StartKeeps ==
    ASSUME StoreInv, NEW path \in Config, NEW read \in BOOLEAN, UseStore(read, path),
           machine'.nvram = LoadNvram(read, path), lapses' = {},
           UNCHANGED <<files, backups, saves>>
    PROVE  StoreInv' /\ FilesKept
<1>. USE DEF StoreInv, StoreTypeOK
<1>. DEFINE loaded == LoadNvram(read, path)
<1>1. \A c \in Config : files[c].n \in Nat BY SaveFields
<1>2. loaded \in {files[path], Blank} BY DEF LoadNvram
<1>. HIDE DEF loaded
<1>3. /\ nvramPath' = path /\ nvramMirror' = loaded /\ machine'.nvram = loaded
      /\ unread' = (loaded # files[path]) /\ loaded \in Save
  BY <1>2, BlankFields DEF loaded, UseStore
<1>4. StoreTypeOK' BY <1>3
<1>5. StorageBelongs' BY <1>2, <1>3, BlankFields DEF StorageBelongs
<1>6. MirrorIsInFile' BY <1>2, <1>3 DEF MirrorIsInFile
<1>7. FileIsCovered'
  <2>1. CASE loaded = files[path] BY <1>1, <1>3, <2>1 DEF FileIsCovered
  <2>2. CASE loaded # files[path] BY <1>2, <1>3, <2>2 DEF FileIsCovered
  <2>. QED BY <2>1, <2>2
<1>8. SavesOrdered' BY <1>3, <1>7 DEF SavesOrdered
<1>9. FilesKept BY <1>1 DEF FilesKept
<1>. QED BY <1>4, <1>5, <1>6, <1>8, <1>9

\* A reload of the ROM takes the storage along in the same configuration, and
\* another file into use in another (main.rs:1844).
LEMMA ReloadKeeps ==
    ASSUME StoreInv, emu # Exited, IInv, SetSystemRom
    PROVE  StoreInv' /\ FilesKept
<1>. DEFINE built == [board |-> BoardOf[slot.rom], standard |-> pal, dvc |-> dvcInserted]
            dirty == machine.nvram # nvramMirror
<1>0. PICK reopened \in BOOLEAN, readable \in BOOLEAN, ok \in BOOLEAN, read \in BOOLEAN :
        /\ Take("SetSystemRom")
        /\ BoardOf[slot.rom] # NoBoard
        /\ machine' = [board |-> built.board, standard |-> pal,
                       dvc |-> dvcInserted /\ readable,
                       keyboard |-> FALSE, serial |-> keyboardAttached,
                       disc |-> IF reopened THEN discPath ELSE None,
                       title |-> None, nvram |-> StoreAfter(read, built)]
        /\ IF built = nvramPath
           THEN /\ nvramMirror' = machine.nvram
                /\ lapses' = IF dirty THEN lapses \cup {"reload kept a dirty mirror"} ELSE lapses
                /\ UNCHANGED <<nvramPath, files, unread>>
           ELSE SwitchNvramStore(ok, read, built)
        /\ UNCHANGED <<discPath, pal, dvcInserted, keyboardAttached, emu,
                       backups, saves, window>>
  BY Zenon DEF SetSystemRom
<1>1. /\ slot.kind = "SetSystemRom" /\ BoardOf[slot.rom] # NoBoard
      /\ machine'.nvram = StoreAfter(read, built)
      /\ UNCHANGED <<emu, backups, saves>>
  BY <1>0 DEF Take
<1>2. built \in Config
  <2>0. slot.kind = "SetSystemRom" BY <1>1
  <2>1. slot.rom \in Rom BY <2>0 DEF IInv, RestTypeOK, Command, NoCommand, None
  <2>2. BoardOf[slot.rom] \in Board BY <1>1, <2>1 DEF Board
  <2>. QED BY <2>2 DEF IInv, RestTypeOK, Config
<1>. HIDE DEF built
<1>3. CASE built # nvramPath BY <1>0, <1>1, <1>2, <1>3, SwitchKeeps
<1>4. CASE built = nvramPath
  <2>1. /\ machine'.nvram = machine.nvram /\ nvramMirror' = machine.nvram
        /\ lapses' = IF dirty THEN lapses \cup {"reload kept a dirty mirror"} ELSE lapses
        /\ UNCHANGED <<nvramPath, files, unread, emu, backups, saves>>
    BY <1>0, <1>4 DEF StoreAfter
  <2>2. CASE ~dirty
    <3>1. UNCHANGED store BY <2>1, <2>2 DEF store
    <3>. QED BY <2>1, <3>1, StoreUnchanged
  <2>3. CASE dirty
    <3>. USE DEF StoreInv, StoreTypeOK
    <3>1. StoreTypeOK' BY <2>1 DEF Lapse
    <3>2. StorageBelongs' BY <2>1 DEF StorageBelongs
    <3>3. MirrorIsInFile' BY <2>1, <2>3 DEF MirrorIsInFile
    <3>4. SavesOrdered' BY <2>1 DEF SavesOrdered, FileIsCovered
    <3>5. \A c \in Config : files[c].n \in Nat BY SaveFields
    <3>6. files' = files BY <2>1
    <3>7. FilesKept BY <3>5, <3>6 DEF FilesKept
    <3>. QED BY <3>1, <3>2, <3>3, <3>4, <3>7
  <2>. QED BY <2>2, <2>3
<1>. QED BY <1>3, <1>4

-----------------------------------------------------------------------------
(* Commands and discs.                                                     *)

\* What a command carries (main.rs: MachineCommand).
LEMMA CommandFields ==
    ASSUME NEW c \in Command \cup {NoCommand}
    PROVE  /\ c.kind = "LoadDisc" => c.disc \in Disc
           /\ c.kind = "SetVideoStandard" => c.standard \in Standard
           /\ c.kind = "SetKeyboardAttached" => c.attached \in BOOLEAN
           /\ c.kind = "SetSystemRom" => c.rom \in Rom
BY DEF Command, NoCommand, None

\* A disc asks for a standard or for none (main.rs:180).
LEMMA StandardIsKnown ==
    ASSUME RestTypeOK, NEW d \in Disc, NEW identified \in BOOLEAN
    PROVE  StandardFor(d, identified) \in Standard \cup {Unknown}
<1>1. overrides[d] \in Standard \cup {Unknown} BY DEF RestTypeOK
<1>2. /\ Profile[d] \in Standard \cup {Unknown}
      /\ Hint[d] \in Standard \cup {"mixed", Unknown}
      /\ MixedPreference \in Standard \cup {Unknown}
  BY PlayerAssumption DEF PlayerAssumption
<1>. QED BY <1>1, <1>2 DEF StandardFor

\* The storage that is loaded is a save (storage.rs:48).
LEMMA StoreAfterIsSave ==
    ASSUME StoreInv, NEW read \in BOOLEAN, NEW path \in Config
    PROVE  StoreAfter(read, path) \in Save
BY BlankFields DEF StoreAfter, LoadNvram, StoreInv, StoreTypeOK

\* The loop is idle, gone or loading a disc.
LEMMA EmuStates ==
    ASSUME RestTypeOK
    PROVE  /\ Running # Exited
           /\ emu \notin {Running, Exited} => emu \in [load : Disc, replaces : BOOLEAN]
BY DEF RestTypeOK, Running, Exited, None

\* The machine that is built at the start, and its configuration (main.rs:1243).
LEMMA FirstIsTyped ==
    /\ FirstConfig \in Config /\ RomStandard[FirstRom] \in Standard
    /\ \A s \in Save : FirstMachine(s) \in MachineType
<1>1. BoardOf[FirstRom] \in Board /\ RomStandard[FirstRom] \in Standard
  BY PlayerAssumption DEF PlayerAssumption, Board
<1>. QED BY <1>1 DEF FirstConfig, FirstMachine, Config, MachineType

\* An action that leaves the storage and the machine's alone.
LEMMA RestOnly ==
    ASSUME IInv, RestTypeOK', TitleHasItsDisc', machine'.nvram = machine.nvram,
           UNCHANGED <<store, backups, saves>>, emu' # Exited => emu # Exited
    PROVE  IInv' /\ FilesKept
BY StoreUnchanged DEF IInv

\* A load that fails, or opens its disc: the loop hashes it with the drive empty
\* unless it replaces a disc (main.rs:1741).
LEMMA LoadsKeep ==
    ASSUME IInv, LoadDiscFails \/ LoadDiscOpens
    PROVE  IInv' /\ FilesKept
<1>. USE DEF IInv
<1>1. emu = Running /\ Running # Exited BY EmuStates DEF LoadDiscFails, LoadDiscOpens, Take
<1>2. CASE LoadDiscFails
  <2>1. UNCHANGED <<machine, discPath, pal, dvcInserted, keyboardAttached, emu, backups,
                    saves, window, store>> /\ slot' = NoCommand
    BY <1>2 DEF LoadDiscFails, Take
  <2>2. RestTypeOK' BY <2>1 DEF RestTypeOK, window
  <2>3. TitleHasItsDisc' BY <2>1 DEF TitleHasItsDisc
  <2>. QED BY <1>1, <2>1, <2>2, <2>3, RestOnly
<1>3. CASE LoadDiscOpens
  <2>1. /\ UNCHANGED <<machine, discPath, pal, dvcInserted, keyboardAttached, backups,
                       saves, window, store>>
        /\ slot' = NoCommand /\ slot.kind = "LoadDisc"
        /\ emu' = [load |-> slot.disc, replaces |-> discPath # None]
    BY <1>3 DEF LoadDiscOpens, Take
  <2>2. emu' \in [load : Disc, replaces : BOOLEAN] BY <2>1, CommandFields DEF RestTypeOK
  <2>3. RestTypeOK' BY <2>1, <2>2 DEF RestTypeOK, window
  <2>4. TitleHasItsDisc' BY <2>1 DEF TitleHasItsDisc
  <2>. QED BY <1>1, <2>1, <2>3, <2>4, RestOnly
<1>. QED BY <1>2, <1>3

\* The disc is mounted, behind another standard's storage if it asks for one
\* (main.rs:1759).
LEMMA IdentifiedKeeps ==
    ASSUME IInv, LoadDiscIdentified
    PROVE  IInv' /\ FilesKept
<1>. USE DEF IInv
<1>1. PICK identified \in BOOLEAN, ok \in BOOLEAN, read \in BOOLEAN :
        LET d == emu.load
            asked == StandardFor(d, identified)
            path == [board |-> machine.board, standard |-> asked, dvc |-> dvcInserted]
        IN  /\ emu \notin {Running, Exited}
            /\ emu' = Running
            /\ IF asked # Unknown /\ asked # pal
               THEN /\ SwitchNvramStore(ok, read, path)
                    /\ machine' = Mount(Rebooted([machine EXCEPT
                                      !.standard = asked, !.nvram = StoreAfter(read, path)]),
                                      emu.replaces, d)
                    /\ pal' = asked
               ELSE /\ machine' = Mount(machine, emu.replaces, d)
                    /\ UNCHANGED <<pal, store>>
            /\ discPath' = d
            /\ identity' = IF identified THEN d ELSE None
            /\ UNCHANGED <<slot, dvcInserted, keyboardAttached, overrides, paused,
                           backups, saves, choosing>>
  BY DEF LoadDiscIdentified
<1>. DEFINE asked == StandardFor(emu.load, identified)
            path == [board |-> machine.board, standard |-> asked, dvc |-> dvcInserted]
<1>2. emu.load \in Disc /\ emu.replaces \in BOOLEAN /\ emu # Exited /\ emu' # Exited
  BY <1>1, EmuStates
<1>3. asked \in Standard \cup {Unknown} BY <1>2, StandardIsKnown
<1>4. emu.replaces = FALSE => machine.disc = None /\ machine.title = None
  BY <1>1 DEF TitleHasItsDisc
<1>5. CASE asked # Unknown /\ asked # pal
  <2>1. asked \in Standard /\ path \in Config BY <1>3, <1>5 DEF RestTypeOK, MachineType, Config
  <2>2. /\ SwitchNvramStore(ok, read, path) /\ pal' = asked
        /\ machine' = Mount(Rebooted([machine EXCEPT !.standard = asked, !.nvram = StoreAfter(read, path)]),
                            emu.replaces, emu.load)
    BY <1>1, <1>5
  <2>3. StoreAfter(read, path) \in Save BY <2>1, StoreAfterIsSave
  <2>4. /\ machine'.nvram = StoreAfter(read, path) /\ machine' \in MachineType
        /\ machine'.disc = emu.load /\ machine'.title = None
    BY <1>2, <2>1, <2>2, <2>3 DEF Mount, Rebooted, RestTypeOK, MachineType
  <2>5. StoreInv' /\ FilesKept
    <3>. HIDE DEF path
    <3>. QED BY <1>1, <1>2, <2>1, <2>2, <2>4, SwitchKeeps
  <2>6. RestTypeOK' BY <1>1, <1>2, <2>1, <2>2, <2>4 DEF RestTypeOK
  <2>7. TitleHasItsDisc' BY <1>1, <2>4 DEF TitleHasItsDisc
  <2>. QED BY <2>5, <2>6, <2>7
<1>6. CASE ~(asked # Unknown /\ asked # pal)
  <2>1. machine' = Mount(machine, emu.replaces, emu.load) /\ UNCHANGED <<pal, store>>
    BY <1>1, <1>6
  <2>2. /\ machine'.nvram = machine.nvram /\ machine' \in MachineType
        /\ machine'.disc = emu.load /\ machine'.title = None
    BY <1>2, <1>4, <2>1 DEF Mount, Rebooted, RestTypeOK, MachineType
  <2>3. RestTypeOK' BY <1>1, <1>2, <2>1, <2>2 DEF RestTypeOK
  <2>4. TitleHasItsDisc' BY <1>1, <2>2 DEF TitleHasItsDisc
  <2>. QED BY <1>1, <1>2, <2>1, <2>2, <2>3, <2>4, RestOnly
<1>. QED BY <1>5, <1>6

\* An eject stops the title and empties the drive (main.rs:1835).
LEMMA EjectKeeps ==
    ASSUME IInv, EjectDisc
    PROVE  IInv' /\ FilesKept
<1>. USE DEF IInv
<1>1. /\ machine' = Rebooted([machine EXCEPT !.disc = None])
      /\ discPath' = None /\ identity' = None /\ slot' = NoCommand
      /\ UNCHANGED <<pal, dvcInserted, keyboardAttached, overrides, paused, emu,
                     backups, saves, choosing, store>>
  BY DEF EjectDisc, Take
<1>2. /\ machine' \in MachineType /\ machine'.nvram = machine.nvram
      /\ machine'.disc = None /\ machine'.title = None
  BY <1>1 DEF Rebooted, RestTypeOK, MachineType
<1>3. RestTypeOK' BY <1>1, <1>2 DEF RestTypeOK
<1>4. TitleHasItsDisc' BY <1>1, <1>2 DEF TitleHasItsDisc
<1>. QED BY <1>1, <1>2, <1>3, <1>4, RestOnly

\* A machine is built around another ROM (main.rs:1844).
LEMMA SetSystemRomKeeps ==
    ASSUME IInv, SetSystemRom
    PROVE  IInv' /\ FilesKept
<1>. USE DEF IInv
<1>. DEFINE kept == machine'.nvram
<1>1. PICK reopened \in BOOLEAN, readable \in BOOLEAN, read \in BOOLEAN :
        /\ emu = Running /\ slot.kind = "SetSystemRom" /\ slot' = NoCommand
        /\ BoardOf[slot.rom] # NoBoard
        /\ machine' = [board |-> BoardOf[slot.rom], standard |-> pal,
                       dvc |-> dvcInserted /\ readable,
                       keyboard |-> FALSE, serial |-> keyboardAttached,
                       disc |-> IF reopened THEN discPath ELSE None,
                       title |-> None,
                       nvram |-> StoreAfter(read, [board |-> BoardOf[slot.rom], standard |-> pal,
                                                   dvc |-> dvcInserted])]
        /\ UNCHANGED <<discPath, pal, dvcInserted, keyboardAttached, emu, window>>
  BY DEF SetSystemRom, Take
<1>2. emu # Exited BY <1>1, EmuStates
<1>3. StoreInv' /\ FilesKept BY <1>2, ReloadKeeps
<1>4. machine' \in MachineType
  <2>0. slot.kind = "SetSystemRom" BY <1>1
  <2>1. slot.rom \in Rom BY <2>0, CommandFields DEF RestTypeOK
  <2>2. BoardOf[slot.rom] \in Board BY <1>1, <2>1 DEF Board
  <2>3. kept \in Save BY <1>3 DEF StoreInv, StoreTypeOK
  <2>4. (dvcInserted /\ readable) \in BOOLEAN OBVIOUS
  <2>5. (IF reopened THEN discPath ELSE None) \in Disc \cup {None} BY DEF RestTypeOK
  <2>6. pal \in Standard /\ keyboardAttached \in BOOLEAN BY DEF RestTypeOK
  <2>7. machine' = [board |-> BoardOf[slot.rom], standard |-> pal,
                    dvc |-> dvcInserted /\ readable,
                    keyboard |-> FALSE, serial |-> keyboardAttached,
                    disc |-> IF reopened THEN discPath ELSE None,
                    title |-> None, nvram |-> kept]
    BY <1>1
  <2>. HIDE DEF kept
  <2>. QED BY <2>2, <2>3, <2>4, <2>5, <2>6, <2>7 DEF MachineType
<1>5. RestTypeOK' BY <1>1, <1>4 DEF RestTypeOK, window
<1>6. TitleHasItsDisc' BY <1>1 DEF TitleHasItsDisc
<1>. QED BY <1>3, <1>5, <1>6

\* Hardware is exchanged, in another configuration perhaps.
Exchanged(attached, standard, ok, read, path) ==
    /\ SwitchNvramStore(ok, read, path)
    /\ machine' = Rebooted([machine EXCEPT !.dvc = attached, !.standard = standard,
                                           !.nvram = StoreAfter(read, path)])
    /\ dvcInserted' \in BOOLEAN /\ pal' \in Standard /\ slot' = NoCommand
    /\ UNCHANGED <<discPath, keyboardAttached, emu, backups, saves, window>>

\* The cartridge and the standard are exchanged with the storage (main.rs:1927, 2008).
LEMMA HardwareKeeps ==
    ASSUME IInv, emu = Running, NEW ok \in BOOLEAN, NEW read \in BOOLEAN,
           NEW attached \in BOOLEAN, NEW standard \in Standard, NEW path \in Config,
           Exchanged(attached, standard, ok, read, path)
    PROVE  IInv' /\ FilesKept
<1>. USE DEF Exchanged
<1>. USE DEF IInv
<1>1. emu # Exited BY EmuStates
<1>2. StoreAfter(read, path) \in Save BY StoreAfterIsSave
<1>3. /\ machine' \in MachineType /\ machine'.nvram = StoreAfter(read, path)
      /\ machine'.title = None /\ machine'.disc = machine.disc
  BY <1>2 DEF Rebooted, RestTypeOK, MachineType
<1>4. StoreInv' /\ FilesKept BY <1>1, <1>3, SwitchKeeps
<1>5. RestTypeOK' BY <1>3 DEF RestTypeOK, window
<1>6. TitleHasItsDisc' BY <1>3 DEF TitleHasItsDisc
<1>. QED BY <1>4, <1>5, <1>6

\* The cartridge or its firmware changes and the storage follows it
\* (main.rs:1927).
LEMMA ChangeDvcKeeps ==
    ASSUME IInv, NEW kind, NEW inserted \in BOOLEAN, ChangeDvc(kind, inserted)
    PROVE  IInv' /\ FilesKept
<1>. DEFINE path == [board |-> machine.board, standard |-> pal, dvc |-> inserted]
<1>1. PICK ok \in BOOLEAN, read \in BOOLEAN :
        /\ emu = Running /\ slot' = NoCommand
        /\ SwitchNvramStore(ok, read, path)
        /\ machine' = Rebooted([machine EXCEPT !.dvc = inserted, !.nvram = StoreAfter(read, path)])
        /\ dvcInserted' = inserted
        /\ UNCHANGED <<discPath, pal, keyboardAttached, emu, backups, saves, window>>
  BY DEF ChangeDvc, Take
<1>2. path \in Config /\ pal \in Standard /\ machine.standard \in Standard
  BY DEF IInv, RestTypeOK, MachineType, Config
<1>. HIDE DEF path
<1>3. machine' = Rebooted([machine EXCEPT !.dvc = inserted, !.standard = machine.standard,
                                          !.nvram = StoreAfter(read, path)])
  BY <1>1 DEF IInv, RestTypeOK, MachineType, Rebooted
<1>4. Exchanged(inserted, machine.standard, ok, read, path) BY <1>1, <1>2, <1>3 DEF Exchanged
<1>. QED BY <1>1, <1>2, <1>4, HardwareKeeps

\* The standard is exchanged, and the storage with it (main.rs:2008).
LEMMA SetVideoStandardKeeps ==
    ASSUME IInv, SetVideoStandard
    PROVE  IInv' /\ FilesKept
<1>. DEFINE path == [board |-> machine.board, standard |-> slot.standard, dvc |-> dvcInserted]
<1>1. PICK ok \in BOOLEAN, read \in BOOLEAN :
        /\ emu = Running /\ slot' = NoCommand /\ slot.kind = "SetVideoStandard"
        /\ SwitchNvramStore(ok, read, path)
        /\ machine' = Rebooted([machine EXCEPT !.standard = slot.standard,
                                               !.nvram = StoreAfter(read, path)])
        /\ pal' = slot.standard
        /\ UNCHANGED <<discPath, dvcInserted, keyboardAttached, emu, backups, saves, window>>
  BY DEF SetVideoStandard, Take
<1>2. slot.standard \in Standard BY <1>1, CommandFields DEF IInv, RestTypeOK
<1>3. path \in Config /\ machine.dvc \in BOOLEAN /\ dvcInserted \in BOOLEAN
  BY <1>2 DEF IInv, RestTypeOK, MachineType, Config
<1>. HIDE DEF path
<1>4. machine' = Rebooted([machine EXCEPT !.dvc = machine.dvc, !.standard = slot.standard,
                                          !.nvram = StoreAfter(read, path)])
  BY <1>1 DEF IInv, RestTypeOK, MachineType, Rebooted
<1>5. Exchanged(machine.dvc, slot.standard, ok, read, path) BY <1>1, <1>2, <1>3, <1>4 DEF Exchanged
<1>. QED BY <1>1, <1>2, <1>3, <1>5, HardwareKeeps

\* A keyboard and a reset: no storage is touched (main.rs:2024, 2075).
LEMMA RebootKeeps ==
    ASSUME IInv, SetKeyboardAttached \/ Reset
    PROVE  IInv' /\ FilesKept
<1>. USE DEF IInv
<1>1. /\ slot' = NoCommand
      /\ UNCHANGED <<discPath, pal, dvcInserted, emu, backups, saves, window, store>>
  BY DEF SetKeyboardAttached, Reset, Take
<1>2. keyboardAttached' \in BOOLEAN /\ machine' \in MachineType
  <2>1. CASE Reset BY <2>1 DEF Reset, Rebooted, RestTypeOK, MachineType
  <2>2. CASE SetKeyboardAttached
    <3>0. slot.kind = "SetKeyboardAttached" BY <2>2 DEF SetKeyboardAttached, Take
    <3>1. slot.attached \in BOOLEAN BY <3>0, CommandFields DEF RestTypeOK
    <3>. QED BY <2>2, <3>1 DEF SetKeyboardAttached, Rebooted, RestTypeOK, MachineType
  <2>. QED BY <2>1, <2>2
<1>3. /\ machine'.nvram = machine.nvram /\ machine'.disc = machine.disc
      /\ machine'.title \in {None, machine.title}
  BY DEF SetKeyboardAttached, Reset, Rebooted, RestTypeOK, MachineType
<1>4. RestTypeOK' BY <1>1, <1>2 DEF RestTypeOK, window
<1>5. TitleHasItsDisc' BY <1>1, <1>3 DEF TitleHasItsDisc
<1>. QED BY <1>1, <1>3, <1>4, <1>5, RestOnly

\* The storage is cleared, or the command is refused (main.rs:2033).
LEMMA ResetNvramKeeps ==
    ASSUME IInv, ResetNvram
    PROVE  IInv' /\ FilesKept
<1>. USE DEF IInv
<1>1. PICK backedUp \in BOOLEAN, ok \in BOOLEAN :
        /\ slot' = NoCommand
        /\ IF machine.nvram # Blank /\ ~backedUp
           THEN UNCHANGED <<machine, backups, store>>
           ELSE /\ backups' = backups \cup ({machine.nvram} \ {Blank})
                /\ machine' = Rebooted([machine EXCEPT !.nvram = Blank])
                /\ nvramMirror' = Blank
                /\ Overwrite(ok, Blank)
                /\ UNCHANGED nvramPath
        /\ UNCHANGED <<discPath, pal, dvcInserted, keyboardAttached, emu, saves, window>>
  BY DEF ResetNvram, Take
<1>2. CASE machine.nvram # Blank /\ ~backedUp
  <2>1. UNCHANGED <<machine, backups, store>> BY <1>1, <1>2
  <2>2. RestTypeOK' BY <1>1, <2>1 DEF RestTypeOK, window
  <2>3. TitleHasItsDisc' BY <1>1, <2>1 DEF TitleHasItsDisc
  <2>. QED BY <1>1, <2>1, <2>2, <2>3, RestOnly
<1>3. CASE ~(machine.nvram # Blank /\ ~backedUp)
  <2>1. /\ backups' = backups \cup ({machine.nvram} \ {Blank})
        /\ machine' = Rebooted([machine EXCEPT !.nvram = Blank])
        /\ nvramMirror' = Blank /\ Overwrite(ok, Blank) /\ UNCHANGED nvramPath
    BY <1>1, <1>3
  <2>2. /\ machine' \in MachineType /\ machine'.nvram = Blank
        /\ machine'.title = None /\ machine'.disc = machine.disc
    BY <2>1, BlankFields DEF Rebooted, RestTypeOK, MachineType
  <2>3. StoreInv' /\ FilesKept BY <1>1, <2>1, <2>2, ClearKeeps
  <2>4. RestTypeOK' BY <1>1, <2>2 DEF RestTypeOK, window
  <2>5. TitleHasItsDisc' BY <1>1, <2>2 DEF TitleHasItsDisc
  <2>. QED BY <2>3, <2>4, <2>5
<1>. QED BY <1>2, <1>3

\* One case for each command that the loop takes (main.rs: emu_loop).
LEMMA CommandsKeep ==
    ASSUME IInv, Commands
    PROVE  IInv' /\ FilesKept
<1>1. CASE SetSystemRomRefused \/ AttachDvcRefused
  <2>1. /\ UNCHANGED <<machine, discPath, pal, dvcInserted, keyboardAttached, emu,
                       backups, saves, window, store>>
        /\ slot' = NoCommand
    BY <1>1 DEF SetSystemRomRefused, AttachDvcRefused, Take
  <2>2. RestTypeOK' BY <2>1 DEF IInv, RestTypeOK, window
  <2>3. TitleHasItsDisc' BY <2>1 DEF IInv, TitleHasItsDisc
  <2>. QED BY <2>1, <2>2, <2>3, RestOnly
<1>. QED BY <1>1, LoadsKeep, EjectKeeps, SetSystemRomKeeps, ChangeDvcKeeps,
            SetVideoStandardKeeps, RebootKeeps, ResetNvramKeeps DEF Commands

-----------------------------------------------------------------------------
(* The loop and the window.                                                *)

\* The guest saves, or starts the disc in the drive (main.rs:2087).
LEMMA FrameKeeps ==
    ASSUME IInv, Frame
    PROVE  IInv' /\ FilesKept
<1>. USE DEF IInv
<1>1. /\ emu = Running
      /\ UNCHANGED <<slot, discPath, pal, dvcInserted, keyboardAttached, emu, backups,
                     window, store>>
  BY DEF Frame
<1>2. CASE /\ saves < MaxSaves /\ saves' = saves + 1
           /\ machine' = [machine EXCEPT !.nvram = [made |-> nvramPath, n |-> saves + 1]]
  <2>1. machine'.nvram = [made |-> nvramPath, n |-> saves + 1]
    BY <1>2 DEF RestTypeOK, MachineType
  <2>2. StoreInv' /\ FilesKept BY <1>1, <1>2, <2>1, SaveKeeps
  <2>3. machine'.nvram \in Save BY <2>2 DEF StoreInv, StoreTypeOK
  <2>4. machine' \in MachineType
    BY <1>2, <2>1, <2>3 DEF RestTypeOK, MachineType
  <2>5. machine'.title = machine.title /\ machine'.disc = machine.disc
    BY <1>2 DEF RestTypeOK, MachineType
  <2>6. RestTypeOK' BY <1>1, <2>4 DEF RestTypeOK, window
  <2>7. TitleHasItsDisc' BY <1>1, <2>5 DEF TitleHasItsDisc
  <2>. QED BY <2>2, <2>6, <2>7
<1>3. CASE /\ machine.disc # None /\ machine' = [machine EXCEPT !.title = machine.disc]
           /\ UNCHANGED saves
  <2>1. /\ machine' \in MachineType /\ machine'.nvram = machine.nvram
        /\ machine'.disc = machine.disc /\ machine'.title = machine.disc
    BY <1>3 DEF RestTypeOK, MachineType
  <2>2. RestTypeOK' BY <1>1, <2>1 DEF RestTypeOK, window
  <2>3. TitleHasItsDisc' BY <1>1, <2>1 DEF TitleHasItsDisc
  <2>. QED BY <1>1, <1>3, <2>1, <2>2, <2>3, RestOnly
<1>. QED BY <1>2, <1>3 DEF Frame

\* The storage is flushed, at the end too; a process that ends keeps its files
\* (main.rs:2315, 2331).
LEMMA EndsKeep ==
    ASSUME IInv, Flush \/ Quit \/ Crash
    PROVE  IInv' /\ FilesKept
<1>. USE DEF IInv
<1>1. /\ UNCHANGED <<machine, slot, discPath, pal, dvcInserted, keyboardAttached,
                     nvramPath, backups, saves, window>>
      /\ emu' \in {emu, Exited}
  BY DEF Flush, Quit, Crash, store
<1>2. RestTypeOK' BY <1>1 DEF RestTypeOK, window
<1>3. TitleHasItsDisc' BY <1>1 DEF TitleHasItsDisc
<1>4. StoreInv' /\ FilesKept
  <2>1. CASE Flush
    <3>1. PICK ok \in BOOLEAN :
            /\ machine.nvram # nvramMirror /\ Overwrite(ok, machine.nvram)
            /\ nvramMirror' = machine.nvram
      BY <2>1 DEF Flush
    <3>. QED BY <1>1, <3>1, FlushKeeps
  <2>2. CASE Quit
    <3>1. PICK ok \in BOOLEAN :
            /\ emu' = Exited /\ nvramMirror' = nvramMirror
            /\ IF machine.nvram # nvramMirror THEN Overwrite(ok, machine.nvram)
                                              ELSE UNCHANGED <<files, lapses, unread>>
      BY <2>2 DEF Quit
    <3>2. CASE machine.nvram # nvramMirror BY <1>1, <3>1, <3>2, FlushKeeps
    <3>3. CASE machine.nvram = nvramMirror
      <4>1. UNCHANGED store BY <1>1, <3>1, <3>3 DEF store
      <4>. QED BY <1>1, <3>1, <4>1, StoreUnchanged
    <3>. QED BY <3>2, <3>3
  <2>3. CASE Crash
    <3>1. emu' = Exited /\ UNCHANGED store BY <2>3 DEF Crash
    <3>. QED BY <1>1, <3>1, StoreUnchanged
  <2>. QED BY <2>1, <2>2, <2>3
<1>. QED BY <1>2, <1>3, <1>4

\* The program is started again (main.rs:1243).
LEMMA RestartKeeps ==
    ASSUME IInv, Start
    PROVE  IInv' /\ FilesKept
<1>. USE DEF IInv
<1>1. PICK read \in BOOLEAN :
        machine' = FirstMachine(LoadNvram(read, FirstConfig)) /\ UseStore(read, FirstConfig)
  BY DEF Start
<1>2. /\ emu' = Running /\ slot' = NoCommand /\ discPath' = None /\ identity' = None
      /\ pal' = RomStandard[FirstRom] /\ dvcInserted' = TRUE /\ keyboardAttached' = FALSE
      /\ paused' = FALSE /\ choosing' = None /\ UNCHANGED overrides
  BY DEF Start, FirstConfig
<1>3. LoadNvram(read, FirstConfig) \in Save
  BY FirstIsTyped, BlankFields DEF LoadNvram, StoreInv, StoreTypeOK
<1>4. /\ machine' \in MachineType /\ machine'.nvram = LoadNvram(read, FirstConfig)
      /\ machine'.title = None /\ machine'.disc = None
  BY <1>1, <1>3, FirstIsTyped DEF FirstMachine
<1>5. StoreInv' /\ FilesKept
  <2>1. lapses' = {} /\ UNCHANGED <<files, backups, saves>> BY DEF Start
  <2>. QED BY <1>1, <1>4, <2>1, FirstIsTyped, StartKeeps
<1>6. RestTypeOK' BY <1>2, <1>4, FirstIsTyped DEF RestTypeOK
<1>7. TitleHasItsDisc' BY <1>2, <1>4 DEF TitleHasItsDisc
<1>. QED BY <1>5, <1>6, <1>7

\* The window posts commands and keeps its settings: it touches neither the
\* machine nor its storage (main.rs: Shared).
LEMMA WindowKeeps ==
    ASSUME IInv, Window
    PROVE  IInv' /\ FilesKept
<1>. USE DEF IInv
<1>1. /\ UNCHANGED <<machine, discPath, dvcInserted, keyboardAttached, emu, backups, saves, store>>
      /\ paused' \in BOOLEAN
  BY DEF Window, PostDisc, PostOther, PostStandard, Post, UseDetectedDefault, PickSystemRom,
         PostSystemRom, TogglePause, RestTypeOK
<1>2. slot' \in Command \cup {NoCommand}
  BY PlayerAssumption DEF PlayerAssumption, Window, PostDisc, PostOther, PostStandard, Post,
     UseDetectedDefault, PickSystemRom, PostSystemRom, TogglePause, RestTypeOK, Command
<1>3. identity' \in Disc \cup {None} /\ choosing' \in Rom \cup {None} /\ pal' \in Standard
  BY PlayerAssumption DEF PlayerAssumption, Window, PostDisc, PostOther, PostStandard, Post,
     UseDetectedDefault, PickSystemRom, PostSystemRom, TogglePause, RestTypeOK
<1>4. overrides' \in [Disc -> Standard \cup {Unknown}]
  BY DEF Window, PostDisc, PostOther, PostStandard, Post,
     UseDetectedDefault, PickSystemRom, PostSystemRom, TogglePause, RestTypeOK
<1>5. RestTypeOK' BY <1>1, <1>2, <1>3, <1>4 DEF RestTypeOK
<1>6. TitleHasItsDisc' BY <1>1 DEF TitleHasItsDisc
<1>. QED BY <1>1, <1>5, <1>6, RestOnly

-----------------------------------------------------------------------------
\* The first start (main.rs:1243).
LEMMA InitHolds == PlayerInit => IInv
<1>. SUFFICES ASSUME PlayerInit PROVE IInv OBVIOUS
<1>. USE DEF PlayerInit
<1>1. machine \in MachineType /\ machine.nvram = Blank /\ machine.title = None /\ machine.disc = None
  BY FirstIsTyped, BlankFields DEF FirstMachine
<1>2. pal \in Standard BY FirstIsTyped DEF FirstConfig
<1>3. RestTypeOK BY <1>1, <1>2 DEF RestTypeOK
<1>4. TitleHasItsDisc BY <1>1 DEF TitleHasItsDisc
<1>5. StoreTypeOK
  <2>1. 0 \in 0..MaxSaves BY PlayerAssumption DEF PlayerAssumption
  <2>. QED BY <1>1, <2>1, FirstIsTyped, BlankFields DEF StoreTypeOK, Lapse
<1>6. StorageBelongs /\ MirrorIsInFile
  BY <1>1, FirstIsTyped, BlankFields DEF StorageBelongs, MirrorIsInFile
<1>7. SavesOrdered BY <1>1, FirstIsTyped, BlankFields DEF SavesOrdered, FileIsCovered
<1>. QED BY <1>3, <1>4, <1>5, <1>6, <1>7 DEF IInv, StoreInv

\* One case for each actor.
LEMMA StepKeeps ==
    ASSUME IInv, PlayerNext
    PROVE  IInv' /\ FilesKept
BY CommandsKeep, IdentifiedKeeps, FrameKeeps, EndsKeep, RestartKeeps, WindowKeeps
   DEF PlayerNext, EmuStep

\* Nothing changes, not even what is kept of steps.
LEMMA StutterKeeps ==
    ASSUME IInv, UNCHANGED playerVars
    PROVE  IInv'
BY DEF IInv, playerVars, RestTypeOK, TitleHasItsDisc, StoreInv, StoreTypeOK, StorageBelongs,
       MirrorIsInFile, SavesOrdered, FileIsCovered

\* All that was said is inductive.
LEMMA Invariance == PlayerSpec => []IInv
<1>1. IInv /\ [PlayerNext]_playerVars => IInv' BY StepKeeps, StutterKeeps
<1>. QED BY <1>1, InitHolds, PTL DEF PlayerSpec

\* Whatever commands, failures, crashes and restarts come in whatever order: a
\* running title has its disc in the drive, the storage of each configuration
\* stays in its file, and what the loop takes for written is written, but of a
\* file it could not read: that is taken for blank until it is written
\* (main.rs:1120, 1604, 2315, storage.rs:48).
THEOREM PlayerInvHolds == PlayerSpec => []PlayerInv
<1>1. IInv => PlayerInv
  BY DEF IInv, RestTypeOK, StoreInv, StoreTypeOK, PlayerInv, PlayerTypeOK
<1>. QED BY <1>1, Invariance, PTL

\* No step takes a save back from a file, unless a backup of it, or of a later
\* one, has been written; the one exception is the reset of a storage that is
\* blank because its file could not be read (main.rs:2033, 2315, storage.rs:97).
THEOREM NoSaveTakenBackHolds == PlayerSpec => NoSaveTakenBack
<1>1. IInv /\ [PlayerNext]_playerVars =>
        [\A c \in Config :
           \/ files'[c].n >= files[c].n
           \/ \E b \in backups' : b.made = c /\ b.n >= files[c].n
           \/ unread /\ c = nvramPath /\ machine.nvram = Blank /\ files'[c] = Blank]_playerVars
  BY StepKeeps DEF FilesKept
<1>. QED BY <1>1, Invariance, PTL DEF PlayerSpec, NoSaveTakenBack

-----------------------------------------------------------------------------
(* The ring of the sound.                                                  *)


Sample == [frame : Nat, side : {"left", "right"}]

\* A left sample is followed by the right one of its frame, and that by the
\* left one of a later frame.
Follows(a, b) ==
    IF a.side = "left" THEN b.side = "right" /\ b.frame = a.frame
                       ELSE b.side = "left" /\ a.frame <= b.frame

Chain(s) == \A i \in 1..(Len(s) - 1) : Follows(s[i], s[i + 1])

LeftHalf == half.side = "left"

AudioTypeOK ==
    /\ ring \in Seq(Sample) /\ batch \in Seq(Sample)
    /\ made \in Nat /\ slipped \in BOOLEAN
    /\ half \in Sample \cup {Silence, Nothing}
    /\ {heard[1], heard[2]} \subseteq Sample \cup {Silence}
    /\ \A i \in 1..Len(ring) : ring[i].frame <= made
    /\ \A i \in 1..Len(batch) : batch[i].frame <= made
    /\ half.frame <= made

\* The three stations hold one chain...
Linked ==
    /\ Chain(ring) /\ Chain(batch)
    /\ ring # <<>> /\ batch # <<>> => Follows(ring[Len(ring)], batch[1])
    /\ LeftHalf /\ ring # <<>> => Follows(half, ring[1])
    /\ LeftHalf /\ ring = <<>> => batch # <<>> /\ Follows(half, batch[1])

\* ...that starts with a left sample and ends with a right one...
WholeFrames ==
    /\ half.side # "right"
    /\ ~LeftHalf /\ ring # <<>> => ring[1].side = "left"
    /\ ~LeftHalf /\ ring = <<>> /\ batch # <<>> => batch[1].side = "left"
    /\ batch # <<>> => batch[Len(batch)].side = "right"
    /\ batch = <<>> /\ ring # <<>> => ring[Len(ring)].side = "right"

\* ...behind the frame that was heard last.
HeardBefore ==
    /\ ChannelsKept
    /\ heard[1].frame = heard[2].frame
    /\ heard[1].frame <= made
    /\ LeftHalf => heard[1].frame <= half.frame
    /\ ring # <<>> => heard[1].frame <= ring[1].frame
    /\ ring = <<>> /\ batch # <<>> => heard[1].frame <= batch[1].frame

RingIInv == AudioTypeOK /\ (~slipped => Linked /\ WholeFrames /\ HeardBefore)

-----------------------------------------------------------------------------
\* The samples of a video frame are whole frames later than all made before
\* (machine.rs: take_audio).
LEMMA SamplesAreFrames ==
    ASSUME NEW from \in Nat, NEW n \in Nat, n > 0
    PROVE  LET s == Samples(from, n) IN
           /\ s \in Seq(Sample) /\ s # <<>> /\ Len(s) = 2 * n
           /\ Chain(s)
           /\ s[1].side = "left" /\ s[1].frame = from + 1
           /\ s[Len(s)].side = "right"
           /\ \A i \in 1..Len(s) : s[i].frame <= from + n
<1> DEFINE s == Samples(from, n)
<1>1. \A i \in 1..(2 * n) : /\ (i + 1) \div 2 \in Nat
                             /\ (i + 1) \div 2 <= n
  OBVIOUS
<1>2. \A i \in 1..(2 * n) : s[i] = [frame |-> from + (i + 1) \div 2,
                                    side |-> IF i % 2 = 1 THEN "left" ELSE "right"]
  BY DEF Samples
<1>3. s \in [1..(2 * n) -> Sample]
  BY <1>1 DEF Samples, Sample
<1>4. s \in Seq(Sample) /\ Len(s) = 2 * n
  BY <1>3
<1>5. Chain(s)
  <2> SUFFICES ASSUME NEW i \in 1..(2 * n - 1)
               PROVE  Follows(s[i], s[i + 1])
    BY <1>4 DEF Chain
  <2>1. i \in 1..(2 * n) /\ i + 1 \in 1..(2 * n)
    OBVIOUS
  <2>2. CASE i % 2 = 1
    <3>1. (i + 1) % 2 # 1 /\ (i + 1) \div 2 = ((i + 1) + 1) \div 2
      BY <2>2
    <3>2. s[i] = [frame |-> from + (i + 1) \div 2, side |-> "left"]
      BY <1>2, <2>1, <2>2
    <3>3. s[i + 1] = [frame |-> from + ((i + 1) + 1) \div 2, side |-> "right"]
      BY <1>2, <2>1, <3>1
    <3> HIDE DEF s
    <3> QED BY <3>1, <3>2, <3>3 DEF Follows
  <2>3. CASE i % 2 # 1
    <3>1. (i + 1) % 2 = 1 /\ (i + 1) \div 2 <= ((i + 1) + 1) \div 2
      BY <2>3
    <3>2. from + (i + 1) \div 2 <= from + ((i + 1) + 1) \div 2
      BY <1>1, <2>1, <3>1
    <3>3. s[i] = [frame |-> from + (i + 1) \div 2, side |-> "right"]
      BY <1>2, <2>1, <2>3
    <3>4. s[i + 1] = [frame |-> from + ((i + 1) + 1) \div 2, side |-> "left"]
      BY <1>2, <2>1, <3>1
    <3> HIDE DEF s
    <3> QED BY <3>2, <3>3, <3>4 DEF Follows
  <2> QED BY <2>2, <2>3
<1>6. s[1].side = "left" /\ s[1].frame = from + 1
  <2>1. 1 \in 1..(2 * n) /\ 1 % 2 = 1 /\ (1 + 1) \div 2 = 1
    OBVIOUS
  <2>2. s[1] = [frame |-> from + (1 + 1) \div 2, side |-> "left"]
    BY <1>2, <2>1
  <2> HIDE DEF s
  <2> QED BY <2>1, <2>2
<1>7. s[Len(s)].side = "right"
  <2>1. 2 * n \in 1..(2 * n) /\ (2 * n) % 2 # 1
    OBVIOUS
  <2> QED BY <1>2, <1>4, <2>1
<1>8. \A i \in 1..Len(s) : s[i].frame <= from + n
  BY <1>1, <1>2, <1>4
<1>9. s # <<>>
  BY <1>4
<1> QED BY <1>4, <1>5, <1>6, <1>7, <1>8, <1>9

-----------------------------------------------------------------------------
\* The program starts with silence (main.rs: start_audio).
LEMMA RingInitHolds == AudioInit => RingIInv
<1> SUFFICES ASSUME AudioInit
             PROVE  RingIInv
  OBVIOUS
<1>1. ring = <<>> /\ batch = <<>> /\ made = 0 /\ half = Nothing /\ slipped = FALSE
  BY DEF AudioInit
<1>2. heard[1] = Silence /\ heard[2] = Silence
  BY DEF AudioInit
<1>3. AudioTypeOK
  <2>1. ring \in Seq(Sample) /\ batch \in Seq(Sample) /\ Len(ring) = 0
    BY <1>1
  <2>2. /\ \A i \in 1..Len(ring) : ring[i].frame <= made
        /\ \A i \in 1..Len(batch) : batch[i].frame <= made
    BY <1>1, <2>1
  <2>3. half \in Sample \cup {Silence, Nothing} /\ made \in Nat /\ slipped \in BOOLEAN
    BY <1>1
  <2>4. {heard[1], heard[2]} \subseteq Sample \cup {Silence}
    BY <1>2
  <2>5. half.frame <= made
    BY <1>1 DEF Nothing
  <2> QED BY <2>1, <2>2, <2>3, <2>4, <2>5 DEF AudioTypeOK
<1>4. Linked /\ WholeFrames
  BY <1>1 DEF Linked, WholeFrames, LeftHalf, Chain, Nothing
<1>5. HeardBefore
  BY <1>1, <1>2 DEF HeardBefore, LeftHalf, ChannelsKept, Silence, Nothing
<1> QED BY <1>3, <1>4, <1>5 DEF RingIInv

\* A batch starts only when all of the last one has been pushed or dropped
\* (main.rs:2226).
LEMMA TakeKeeps == RingIInv /\ AudioAssumption /\ TakeAudio => RingIInv'
<1> SUFFICES ASSUME RingIInv, AudioAssumption, TakeAudio
             PROVE  RingIInv'
  OBVIOUS
<1>0. PICK n \in 1..BatchFrames, fastForward \in BOOLEAN :
          /\ made' = made + n
          /\ batch' = IF fastForward THEN <<>> ELSE Samples(made, n)
  BY DEF TakeAudio
<1>1. batch = <<>> /\ ring' = ring /\ half' = half /\ heard' = heard /\ slipped' = slipped
  BY DEF TakeAudio
<1>2. n \in Nat /\ n > 0 /\ made \in Nat
  BY DEF AudioAssumption, RingIInv, AudioTypeOK
<1>3. /\ Samples(made, n) \in Seq(Sample) /\ Samples(made, n) # <<>>
      /\ Chain(Samples(made, n))
      /\ Samples(made, n)[1].side = "left" /\ Samples(made, n)[1].frame = made + 1
      /\ Samples(made, n)[Len(Samples(made, n))].side = "right"
      /\ \A i \in 1..Len(Samples(made, n)) : Samples(made, n)[i].frame <= made + n
  BY <1>2, SamplesAreFrames
<1>4. AudioTypeOK'
  <2>1. made' \in Nat /\ made <= made'
    BY <1>0, <1>2
  <2>2. batch' \in Seq(Sample)
    BY <1>0, <1>3
  <2>3. \A i \in 1..Len(ring) : ring[i].frame \in Nat
    <3>1. ring \in Seq(Sample)
      BY DEF RingIInv, AudioTypeOK
    <3>2. \A i \in 1..Len(ring) : ring[i] \in Sample
      BY <3>1
    <3> QED BY <3>2 DEF Sample
  <2>4. \A i \in 1..Len(ring) : ring[i].frame <= made'
    <3>1. \A i \in 1..Len(ring) : ring[i].frame <= made
      BY DEF RingIInv, AudioTypeOK
    <3> QED BY <1>2, <2>1, <2>3, <3>1
  <2>5. \A i \in 1..Len(batch') : batch'[i].frame <= made'
    BY <1>0, <1>3
  <2>6. half.frame <= made'
    BY <1>2, <2>1 DEF RingIInv, AudioTypeOK, Sample, Silence, Nothing
  <2> QED BY <1>1, <2>1, <2>2, <2>4, <2>5, <2>6 DEF RingIInv, AudioTypeOK
<1>5. ASSUME ~slipped' PROVE (Linked /\ WholeFrames /\ HeardBefore)'
  <2>1. Linked /\ WholeFrames /\ HeardBefore /\ AudioTypeOK
    BY <1>1, <1>5 DEF RingIInv
  <2>2. CASE batch' = <<>>
    BY <1>0, <1>1, <1>2, <2>1, <2>2 DEF Linked, WholeFrames, HeardBefore, LeftHalf,
       Chain, ChannelsKept, AudioTypeOK, Sample, Silence
  <2>3. CASE batch' = Samples(made, n)
    <3>1. ring # <<>> => Len(ring) \in 1..Len(ring) /\ ring[Len(ring)] \in Sample
      BY <2>1 DEF AudioTypeOK
    <3>2. ring # <<>> => Follows(ring[Len(ring)], batch'[1])
      <4> SUFFICES ASSUME ring # <<>>
                   PROVE  Follows(ring[Len(ring)], batch'[1])
        OBVIOUS
      <4>1. ring[Len(ring)].side = "right"
        BY <1>1, <2>1 DEF WholeFrames
      <4>2. ring[Len(ring)].frame <= made /\ ring[Len(ring)].frame \in Nat
        BY <2>1, <3>1 DEF AudioTypeOK, Sample
      <4>3. batch'[1].side = "left" /\ batch'[1].frame = made + 1
        BY <1>3, <2>3
      <4>4. ring[Len(ring)].frame <= batch'[1].frame
        BY <1>2, <4>2, <4>3
      <4> QED BY <4>1, <4>3, <4>4 DEF Follows
    <3>3. Linked'
      BY <1>1, <1>3, <2>1, <2>3, <3>2 DEF Linked, LeftHalf, Chain
    <3>4. WholeFrames'
      BY <1>1, <1>3, <2>1, <2>3 DEF Linked, WholeFrames, LeftHalf
    <3>5. HeardBefore'
      BY <1>0, <1>1, <1>2, <1>3, <2>1, <2>3
         DEF HeardBefore, LeftHalf, ChannelsKept, AudioTypeOK, Sample, Silence
    <3> QED BY <3>3, <3>4, <3>5
  <2> QED BY <1>0, <2>2, <2>3
<1> QED BY <1>4, <1>5 DEF RingIInv

\* What it takes to read the first sample of a queue, and what is left then.
LEMMA HeadAndTail ==
    ASSUME NEW s \in Seq(Sample), s # <<>>, Chain(s)
    PROVE  /\ Head(s) = s[1] /\ s[1] \in Sample
           /\ Tail(s) \in Seq(Sample) /\ Len(Tail(s)) = Len(s) - 1
           /\ \A i \in 1..Len(Tail(s)) : Tail(s)[i] = s[i + 1]
           /\ Chain(Tail(s))
           /\ Tail(s) # <<>> => /\ Follows(s[1], Tail(s)[1])
                                /\ Tail(s)[Len(Tail(s))] = s[Len(s)]
           /\ Tail(s) = <<>> => Len(s) = 1
<1>1. Len(s) \in Nat /\ Len(s) > 0
  OBVIOUS
<1>2. Head(s) = s[1] /\ s[1] \in Sample
  BY <1>1
<1>3. Tail(s) \in Seq(Sample) /\ Len(Tail(s)) = Len(s) - 1
  BY <1>1
<1>4. \A i \in 1..Len(Tail(s)) : Tail(s)[i] = s[i + 1]
  BY <1>1
<1>5. Chain(Tail(s))
  BY <1>1, <1>3, <1>4 DEF Chain
<1>6. ASSUME Tail(s) = <<>> PROVE Len(s) = 1
  <2> DEFINE t == Tail(s)
  <2>1. t = <<>> /\ Len(t) = Len(s) - 1
    BY <1>3, <1>6
  <2> HIDE DEF t
  <2>2. Len(t) = 0
    BY <2>1
  <2> QED BY <1>1, <2>1, <2>2
<1>7. ASSUME Tail(s) # <<>>
      PROVE  Follows(s[1], Tail(s)[1]) /\ Tail(s)[Len(Tail(s))] = s[Len(s)]
  <2>1. Len(s) > 1 /\ 1 \in 1..Len(Tail(s)) /\ Len(Tail(s)) \in 1..Len(Tail(s))
    BY <1>1, <1>3, <1>7
  <2>2. Follows(s[1], s[1 + 1])
    BY <1>1, <2>1 DEF Chain
  <2> QED BY <1>1, <1>3, <1>4, <2>1, <2>2
<1> QED BY <1>2, <1>3, <1>4, <1>5, <1>6, <1>7

\* A sample goes from the batch into the ring (main.rs: emu_loop).
LEMMA PushedKeeps ==
    ASSUME RingIInv, ~slipped, batch # <<>>, ring' = Append(ring, Head(batch)), batch' = Tail(batch),
           UNCHANGED <<made, half, heard, slipped>>
    PROVE  (Linked /\ WholeFrames /\ HeardBefore)'
<1> DEFINE b == batch[1]
<1>1. AudioTypeOK /\ Linked /\ WholeFrames /\ HeardBefore
  BY DEF RingIInv
<1>2. /\ ring \in Seq(Sample) /\ batch \in Seq(Sample) /\ Chain(batch) /\ Chain(ring)
  BY <1>1 DEF AudioTypeOK, Linked
<1>3. /\ Head(batch) = b /\ b \in Sample /\ Chain(batch')
      /\ batch' # <<>> => Follows(b, batch'[1]) /\ batch'[Len(batch')] = batch[Len(batch)]
      /\ batch' = <<>> => Len(batch) = 1
  BY <1>2, HeadAndTail
<1>4. /\ Len(ring') = Len(ring) + 1 /\ ring' # <<>> /\ ring'[Len(ring')] = b
      /\ \A i \in 1..Len(ring) : ring'[i] = ring[i]
  BY <1>2, <1>3
<1>5. IF ring = <<>> THEN ring'[1] = b ELSE ring'[1] = ring[1]
  BY <1>2, <1>4
<1>6. Chain(ring')
  <2> SUFFICES ASSUME NEW i \in 1..(Len(ring') - 1)
               PROVE  Follows(ring'[i], ring'[i + 1])
    BY DEF Chain
  <2>1. i \in 1..Len(ring) /\ ring'[i] = ring[i]
    BY <1>2, <1>4
  <2>2. CASE i = Len(ring)
    BY <1>1, <1>2, <1>4, <2>1, <2>2 DEF Linked
  <2>3. CASE i # Len(ring)
    <3>1. i \in 1..(Len(ring) - 1) /\ i + 1 \in 1..Len(ring)
      BY <1>2, <2>1, <2>3
    <3> QED BY <1>2, <1>4, <2>1, <3>1 DEF Chain
  <2> QED BY <2>2, <2>3
<1> HIDE DEF b
<1>7. LeftHalf => Follows(half, ring'[1])
  <2>1. ring = <<>> /\ LeftHalf => Follows(half, b)
    BY <1>1 DEF Linked, b
  <2> QED BY <1>1, <1>5, <2>1 DEF Linked
<1>8. Linked'
  BY <1>3, <1>4, <1>6, <1>7 DEF Linked, LeftHalf
<1>9. ~LeftHalf => ring'[1].side = "left"
  <2>1. ring = <<>> /\ ~LeftHalf => b.side = "left"
    BY <1>1 DEF WholeFrames, b
  <2> QED BY <1>1, <1>5, <2>1 DEF WholeFrames
<1>10. batch' = <<>> => b = batch[Len(batch)]
  BY <1>3 DEF b
<1>11. WholeFrames'
  BY <1>1, <1>3, <1>4, <1>9, <1>10 DEF WholeFrames, LeftHalf
<1>12. HeardBefore'
  <2>1. ring = <<>> => heard[1].frame <= b.frame
    BY <1>1 DEF HeardBefore, b
  <2> QED BY <1>1, <1>4, <1>5, <2>1 DEF HeardBefore, LeftHalf, ChannelsKept
<1> QED BY <1>8, <1>11, <1>12

\* A queue from which a sample is taken keeps its type and its bound.
LEMMA TypedQueues ==
    ASSUME NEW s \in Seq(Sample), NEW m \in Nat, \A i \in 1..Len(s) : s[i].frame <= m, s # <<>>
    PROVE  /\ s[1] \in Sample /\ s[1].frame <= m /\ Head(s) = s[1]
           /\ Tail(s) \in Seq(Sample)
           /\ \A i \in 1..Len(Tail(s)) : Tail(s)[i].frame <= m
<1>1. Len(s) \in Nat /\ Len(s) > 0
  OBVIOUS
<1>2. Tail(s) \in Seq(Sample) /\ Len(Tail(s)) = Len(s) - 1
  BY <1>1
<1>3. \A i \in 1..Len(Tail(s)) : Tail(s)[i] = s[i + 1]
  BY <1>1
<1>4. \A i \in 1..Len(Tail(s)) : Tail(s)[i].frame <= m
  BY <1>1, <1>2, <1>3
<1> QED BY <1>1, <1>2, <1>4

\* A full ring: what is left of the batch is dropped, whole frames of it unless
\* the next sample is a right one (main.rs: emu_loop).
LEMMA DroppedKeeps ==
    ASSUME RingIInv, ~slipped, batch # <<>>, batch[1].side # "right", batch' = <<>>,
           UNCHANGED <<ring, made, half, heard, slipped>>
    PROVE  (Linked /\ WholeFrames /\ HeardBefore)'
<1>1. AudioTypeOK /\ Linked /\ WholeFrames /\ HeardBefore
  BY DEF RingIInv
<1>2. batch[1].side = "left"
  <2>1. batch[1] \in Sample
    BY <1>1 DEF AudioTypeOK
  <2> QED BY <2>1 DEF Sample
<1>3. LeftHalf => ring # <<>>
  BY <1>1, <1>2 DEF Linked, LeftHalf, Follows
<1>4. ring # <<>> => ring[Len(ring)].side = "right"
  <2>1. ring # <<>> => ring[Len(ring)] \in Sample
    BY <1>1 DEF AudioTypeOK
  <2> QED BY <1>1, <1>2, <2>1 DEF Linked, Follows, Sample
<1>5. Linked'
  BY <1>1, <1>3 DEF Linked, LeftHalf, Chain
<1>6. WholeFrames'
  BY <1>1, <1>4 DEF WholeFrames, LeftHalf
<1>7. HeardBefore'
  BY <1>1 DEF HeardBefore, LeftHalf, ChannelsKept
<1> QED BY <1>5, <1>6, <1>7

\* One sample is pushed, or the batch dropped (main.rs:2228).
LEMMA PushKeeps == RingIInv /\ Push => RingIInv'
<1> SUFFICES ASSUME RingIInv, Push
             PROVE  RingIInv'
  OBVIOUS
<1>1. AudioTypeOK /\ batch # <<>> /\ UNCHANGED <<made, half, heard>>
  BY DEF RingIInv, Push
<1>2. CASE Len(ring) < Capacity
  <2>1. ring' = Append(ring, Head(batch)) /\ batch' = Tail(batch) /\ slipped' = slipped
    BY <1>2 DEF Push
  <2>2. /\ Head(batch) \in Sample /\ Head(batch).frame <= made /\ batch' \in Seq(Sample)
        /\ \A i \in 1..Len(batch') : batch'[i].frame <= made
    BY <1>1, <2>1, TypedQueues DEF AudioTypeOK
  <2>3. ring' \in Seq(Sample) /\ \A i \in 1..Len(ring') : ring'[i].frame <= made
    BY <1>1, <2>1, <2>2 DEF AudioTypeOK
  <2>4. AudioTypeOK'
    BY <1>1, <2>1, <2>2, <2>3 DEF AudioTypeOK
  <2> QED BY <1>1, <2>1, <2>4, PushedKeeps DEF RingIInv
<1>3. CASE ~(Len(ring) < Capacity)
  <2>1. batch' = <<>> /\ ring' = ring /\ slipped' = (slipped \/ Head(batch).side = "right")
    BY <1>3 DEF Push
  <2>2. Head(batch) = batch[1]
    BY <1>1, TypedQueues DEF AudioTypeOK
  <2>3. AudioTypeOK'
    <3>1. batch' \in Seq(Sample) /\ \A i \in 1..Len(batch') : batch'[i].frame <= made
      BY <2>1
    <3>2. slipped' \in BOOLEAN
      BY <1>1, <2>1 DEF AudioTypeOK
    <3> QED BY <1>1, <2>1, <3>1, <3>2 DEF AudioTypeOK
  <2>4. ASSUME ~slipped' PROVE (Linked /\ WholeFrames /\ HeardBefore)'
    <3>1. ~slipped /\ batch[1].side # "right" /\ slipped' = slipped
      BY <1>1, <2>1, <2>2, <2>4 DEF AudioTypeOK
    <3> QED BY <1>1, <2>1, <3>1, DroppedKeeps
  <2> QED BY <2>3, <2>4 DEF RingIInv
<1> QED BY <1>2, <1>3

\* The callback pops the left sample of a frame, or plays silence for it
\* (main.rs: fill_audio).
LEMMA PopLeftKeeps == RingIInv /\ PopLeft => RingIInv'
<1> SUFFICES ASSUME RingIInv, PopLeft
             PROVE  RingIInv'
  OBVIOUS
<1>1. AudioTypeOK /\ half = Nothing /\ UNCHANGED <<batch, made, heard, slipped>>
  BY DEF RingIInv, PopLeft
<1>2. ~LeftHalf
  BY <1>1 DEF LeftHalf, Nothing
<1>3. CASE ring = <<>>
  <2>1. half' = Silence /\ ring' = ring
    BY <1>3 DEF PopLeft, Popped, AfterPop
  <2>2. half'.frame <= made /\ ~LeftHalf' /\ half'.side # "right"
    BY <1>1, <2>1 DEF Silence, LeftHalf, AudioTypeOK
  <2>3. AudioTypeOK'
    BY <1>1, <2>1, <2>2 DEF AudioTypeOK
  <2>4. Linked /\ WholeFrames /\ HeardBefore => (Linked /\ WholeFrames /\ HeardBefore)'
    BY <1>1, <1>2, <2>1, <2>2 DEF Linked, WholeFrames, HeardBefore, Chain, ChannelsKept
  <2> QED BY <1>1, <2>3, <2>4 DEF RingIInv
<1>4. CASE ring # <<>>
  <2>1. half' = ring[1] /\ ring' = Tail(ring)
    BY <1>1, <1>4, TypedQueues DEF PopLeft, Popped, AfterPop, AudioTypeOK
  <2>2. /\ half' \in Sample /\ half'.frame <= made /\ ring' \in Seq(Sample)
        /\ \A i \in 1..Len(ring') : ring'[i].frame <= made
    BY <1>1, <1>4, <2>1, TypedQueues DEF AudioTypeOK
  <2>3. AudioTypeOK'
    BY <1>1, <2>2 DEF AudioTypeOK
  <2>4. ASSUME ~slipped' PROVE (Linked /\ WholeFrames /\ HeardBefore)'
    <3>1. Linked /\ WholeFrames /\ HeardBefore
      BY <1>1, <2>4 DEF RingIInv
    <3>2. /\ Chain(ring')
          /\ ring' # <<>> => Follows(ring[1], ring'[1]) /\ ring'[Len(ring')] = ring[Len(ring)]
          /\ ring' = <<>> => Len(ring) = 1
      BY <1>1, <1>4, <2>1, <3>1, HeadAndTail DEF AudioTypeOK, Linked
    <3>3. half'.side = "left"
      BY <1>2, <1>4, <2>1, <3>1 DEF WholeFrames
    <3>4. ring' = <<>> => batch # <<>> /\ Follows(half', batch[1])
      <4> SUFFICES ASSUME ring' = <<>>
                   PROVE  batch # <<>> /\ Follows(half', batch[1])
        OBVIOUS
      <4>1. ring[Len(ring)].side = "left"
        BY <2>1, <3>2, <3>3
      <4>2. batch # <<>>
        BY <1>4, <3>1, <4>1 DEF WholeFrames
      <4> QED BY <1>4, <2>1, <3>1, <3>2, <4>2 DEF Linked
    <3>5. Linked'
      BY <1>1, <1>4, <2>1, <3>1, <3>2, <3>4 DEF Linked, Chain
    <3>6. WholeFrames'
      BY <1>1, <1>4, <3>1, <3>2, <3>3 DEF WholeFrames, LeftHalf
    <3>7. HeardBefore'
      <4>1. heard[1].frame <= half'.frame
        BY <1>4, <2>1, <3>1 DEF HeardBefore
      <4>2. ring' # <<>> => ring'[1].frame = half'.frame
        BY <2>1, <3>2, <3>3 DEF Follows
      <4>3. ring' = <<>> /\ batch # <<>> => batch[1].frame = half'.frame
        BY <3>3, <3>4 DEF Follows
      <4> QED BY <1>1, <3>1, <4>1, <4>2, <4>3 DEF HeardBefore, ChannelsKept
    <3> QED BY <3>5, <3>6, <3>7
  <2> QED BY <2>3, <2>4 DEF RingIInv
<1> QED BY <1>3, <1>4

\* It pops the right sample, and plays both or silence (main.rs: fill_audio).
LEMMA PopRightKeeps == RingIInv /\ PopRight => RingIInv'
<1> SUFFICES ASSUME RingIInv, PopRight
             PROVE  RingIInv'
  OBVIOUS
<1>0. PICK muted \in BOOLEAN :
          heard' = IF muted THEN <<Silence, Silence>> ELSE <<half, Popped>>
  BY DEF PopRight
<1>1. /\ AudioTypeOK /\ half # Nothing /\ half' = Nothing /\ UNCHANGED <<batch, made>>
      /\ ring' = AfterPop /\ slipped' = (slipped \/ (half = Silence) # (Popped = Silence))
  BY DEF RingIInv, PopRight
<1>2. half \in Sample \cup {Silence} /\ half'.frame <= made /\ ~LeftHalf' /\ half'.side # "right"
  BY <1>1 DEF AudioTypeOK, LeftHalf, Nothing
<1>3. /\ Popped \in Sample \cup {Silence} /\ ring' \in Seq(Sample)
      /\ \A i \in 1..Len(ring') : ring'[i].frame <= made
  <2>1. CASE ring = <<>>
    BY <1>1, <2>1 DEF Popped, AfterPop, AudioTypeOK
  <2>2. CASE ring # <<>>
    BY <1>1, <2>2, TypedQueues DEF Popped, AfterPop, AudioTypeOK
  <2> QED BY <2>1, <2>2
<1>4. AudioTypeOK'
  <2>1. {heard'[1], heard'[2]} \subseteq Sample \cup {Silence}
    BY <1>0, <1>2, <1>3
  <2>2. slipped' \in BOOLEAN
    BY <1>1 DEF AudioTypeOK
  <2> QED BY <1>1, <1>2, <1>3, <2>1, <2>2 DEF AudioTypeOK
<1>5. ASSUME ~slipped' PROVE (Linked /\ WholeFrames /\ HeardBefore)'
  <2>1. ~slipped /\ (half = Silence <=> Popped = Silence)
    BY <1>1, <1>5 DEF AudioTypeOK
  <2>2. Linked /\ WholeFrames /\ HeardBefore
    BY <2>1 DEF RingIInv
  <2>3. Silence \notin Sample
    BY DEF Silence, Sample
  <2>4. CASE half = Silence
    <3>1. ring = <<>>
      BY <1>1, <2>1, <2>3, <2>4, TypedQueues DEF Popped, AudioTypeOK
    <3>2. ring' = ring /\ ~LeftHalf
      BY <1>1, <2>4, <3>1 DEF AfterPop, LeftHalf, Silence
    <3>3. heard'[1] = Silence /\ heard'[2] = Silence
      BY <1>0, <2>1, <2>4
    <3>4. Linked' /\ WholeFrames'
      BY <1>1, <1>2, <2>2, <3>2 DEF Linked, WholeFrames, Chain
    <3>5. batch # <<>> => batch[1] \in Sample
      BY <1>1 DEF AudioTypeOK
    <3>6. HeardBefore'
      BY <1>1, <1>2, <3>1, <3>2, <3>3, <3>5
         DEF HeardBefore, ChannelsKept, Silence, AudioTypeOK, Sample
    <3> QED BY <3>4, <3>6
  <2>5. CASE half # Silence
    <3>1. half \in Sample /\ half.side = "left" /\ LeftHalf
      BY <1>2, <2>2, <2>5 DEF WholeFrames, Sample, LeftHalf
    <3>2. ring # <<>>
      BY <2>1, <2>5 DEF Popped
    <3>3. Popped = ring[1] /\ ring' = Tail(ring) /\ ring[1] \in Sample
      BY <1>1, <3>2, TypedQueues DEF Popped, AfterPop, AudioTypeOK
    <3>4. ring[1].side = "right" /\ ring[1].frame = half.frame
      BY <2>2, <3>1, <3>2 DEF Linked, Follows
    <3>5. /\ Chain(ring')
          /\ ring' # <<>> => Follows(ring[1], ring'[1]) /\ ring'[Len(ring')] = ring[Len(ring)]
          /\ ring' = <<>> => Len(ring) = 1
      BY <1>1, <2>2, <3>2, <3>3, HeadAndTail DEF AudioTypeOK, Linked
    <3>6. ring' # <<>> => ring'[1].side = "left" /\ half.frame <= ring'[1].frame
      BY <3>4, <3>5 DEF Follows
    <3>7. ring' = <<>> /\ batch # <<>> => batch[1].side = "left" /\ half.frame <= batch[1].frame
      <4>1. ring' = <<>> /\ batch # <<>> => Follows(ring[1], batch[1])
        BY <2>2, <3>2, <3>5 DEF Linked
      <4> QED BY <3>4, <4>1 DEF Follows
    <3>8. Linked'
      BY <1>1, <1>2, <2>2, <3>2, <3>5 DEF Linked, Chain
    <3>9. WholeFrames'
      BY <1>1, <1>2, <2>2, <3>2, <3>5, <3>6, <3>7 DEF WholeFrames
    <3>10. CASE muted
      <4>1. heard'[1] = Silence /\ heard'[2] = Silence
        BY <1>0, <3>10
      <4>2. ring' # <<>> => ring'[1] \in Sample
        BY <1>3
      <4>3. batch # <<>> => batch[1] \in Sample
        BY <1>1 DEF AudioTypeOK
      <4>4. HeardBefore'
        BY <1>1, <1>2, <4>1, <4>2, <4>3
           DEF HeardBefore, ChannelsKept, Silence, AudioTypeOK, Sample
      <4> QED BY <3>8, <3>9, <4>4
    <3>11. CASE ~muted
      <4>1. heard'[1] = half /\ heard'[2] = ring[1]
        BY <1>0, <3>3, <3>11
      <4>2. HeardBefore'
        BY <1>1, <1>2, <3>1, <3>4, <3>6, <3>7, <4>1 DEF HeardBefore, ChannelsKept, AudioTypeOK
      <4> QED BY <3>8, <3>9, <4>2
    <3> QED BY <3>10, <3>11
  <2> QED BY <2>4, <2>5
<1> QED BY <1>4, <1>5 DEF RingIInv

\* All that was said is inductive.
LEMMA RingInvariance == AudioSpec => []RingIInv
<1>1. RingIInv /\ [AudioNext]_audioVars => RingIInv'
  <2> SUFFICES ASSUME RingIInv, [AudioNext]_audioVars
               PROVE  RingIInv'
    OBVIOUS
  <2>1. CASE AudioNext
    BY <2>1, AudioAssumption, TakeKeeps, PushKeeps, PopLeftKeeps, PopRightKeeps DEF AudioNext
  <2>2. CASE UNCHANGED audioVars
    BY <2>2 DEF audioVars, RingIInv, AudioTypeOK, Linked, WholeFrames, HeardBefore, LeftHalf,
       Chain, ChannelsKept
  <2> QED BY <2>1, <2>2
<1> QED BY <1>1, RingInitHolds, PTL DEF AudioSpec

-----------------------------------------------------------------------------
\* As long as no frame was torn by a full or an empty ring, each channel plays
\* its own side, both of one frame, and the frames in the order they were made
\* (main.rs:1583, 2228).
THEOREM SwapNeedsSlipHolds == AudioSpec => []SwapNeedsSlip
<1>1. RingIInv => SwapNeedsSlip
  BY DEF RingIInv, HeardBefore, SwapNeedsSlip
<1> QED BY <1>1, RingInvariance, PTL

-----------------------------------------------------------------------------
(* The Photo CD viewer.                                                    *)

Pictured == {d \in PhotoDisc : Images[d] > 0}
Image == [disc : PhotoDisc \cup {NoPhoto}, index : Nat, tier : Nat]
AnyViewer == [shown : {TRUE}, disc : Pictured, current : Nat, tier : Nat, view : BOOLEAN, slideshow : BOOLEAN,
              decoding : BOOLEAN, decoded : Image, error : BOOLEAN]
Viewers == {p \in AnyViewer : p.current < Images[p.disc]} \cup {NoViewer}
Viewing == [p : Viewers, ask : BOOLEAN]

\* A picture that was decoded is one of the disc it was decoded from.
DecodedEvent == {e \in [kind : {"Decoded"}, index : Nat, image : Image] :
                 e.image.disc \in Pictured /\ e.image.index = e.index /\ e.index < Images[e.image.disc]}
PhotoEvent == [kind : {"Opened"}, disc : Pictured] \cup [kind : {"NotPhotoCd", "DecodeError"}] \cup DecodedEvent
PhotoCommand == [kind : {"Open"}, disc : PhotoDisc] \cup [kind : {"Close"}] \cup
                [kind : {"Decode"}, index : Nat, tier : Nat]

PhotoTyped ==
    /\ photocd \in Viewers
    /\ pcdCommands \in Seq(PhotoCommand) /\ Len(pcdCommands) <= MaxPending
    /\ pcdEvents \in Seq(PhotoEvent)
    /\ workerDisc \in Pictured \cup {NoPhoto}
    /\ lastLoad \in PhotoDisc \cup {NoPhoto}

\* The last load is still a command, with nothing but decodes behind it.
LoadUnderWay ==
    \E k \in DOMAIN pcdCommands :
        /\ pcdCommands[k] = OpenDisc(lastLoad)
        /\ \A j \in DOMAIN pcdCommands : j > k => pcdCommands[j].kind = "Decode"

WorkerHasIt ==
    /\ \A j \in DOMAIN pcdCommands : pcdCommands[j].kind = "Decode"
    /\ workerDisc = IF Images[lastLoad] > 0 THEN lastLoad ELSE NoPhoto

\* The worker's answer to the load, and what it says of this disc from then on.
Answer == IF Images[lastLoad] > 0 THEN [kind |-> "Opened", disc |-> lastLoad] ELSE [kind |-> "NotPhotoCd"]
OfLoad(e) == e.kind = "DecodeError" \/ (e.kind = "Decoded" /\ e.image.disc = lastLoad)

AnswerUnderWay ==
    \E k \in DOMAIN pcdEvents :
        /\ pcdEvents[k] = Answer
        /\ \A j \in DOMAIN pcdEvents : j > k => OfLoad(pcdEvents[j])

\* The viewer p is that of the disc, or there is none.
Has(p) == IF Images[lastLoad] > 0 THEN p.shown /\ p.disc = lastLoad ELSE ~p.shown

Settled(p) ==
    /\ ~p.decoding
    /\ \/ p.error
       \/ p.decoded.disc = lastLoad /\ p.decoded.index = p.current
       \/ p.decoded = NoImage /\ ~p.view

ViewerHasIt ==
    /\ \A j \in DOMAIN pcdEvents : OfLoad(pcdEvents[j])
    /\ Has(photocd)
    /\ Images[lastLoad] > 0 => Settled(photocd) \/ pcdCommands # <<>> \/ pcdEvents # <<>>

FollowsLoad ==
    lastLoad # NoPhoto => LoadUnderWay \/ (WorkerHasIt /\ (AnswerUnderWay \/ ViewerHasIt))

PhotoIInv == PhotoTyped /\ FollowsLoad

-----------------------------------------------------------------------------
\* A viewer that is shown has all its fields.
LEMMA ShownTyped ==
  ASSUME NEW p \in Viewers, p.shown
  PROVE  /\ p \in AnyViewer /\ p.disc \in Pictured /\ p.disc \in PhotoDisc /\ Images[p.disc] \in Nat
         /\ p.current \in Nat /\ p.current < Images[p.disc] /\ p.tier \in Nat
  <1>1. p \in AnyViewer /\ p.current < Images[p.disc]
    BY DEF Viewers, NoViewer
  <1>2. p.disc \in Pictured /\ p.current \in Nat /\ p.tier \in Nat
    BY <1>1 DEF AnyViewer
  <1>3. p.disc \in PhotoDisc /\ Images[p.disc] \in Nat
    BY <1>2, PhotoAssumption DEF Pictured
  <1> QED BY <1>1, <1>2, <1>3

\* Viewed satisfies its equation.
LEMMA ViewedFunction ==
  ASSUME Len(pcdEvents) \in Nat
  PROVE  /\ Viewed[0] = [p |-> photocd, ask |-> FALSE]
         /\ \A n \in 1..Len(pcdEvents) : Viewed[n] = Applied(Viewed[n - 1], pcdEvents[n])
  <1> DEFINE first == [p |-> photocd, ask |-> FALSE]
             S == {k \in Nat : \E g :
                      g = [n \in 0..k |-> IF n = 0 THEN first ELSE Applied(g[n - 1], pcdEvents[n])]}
  <1> HIDE DEF first
  <1>1. 0 \in S
    <2> DEFINE g == [n \in 0..0 |-> first]
    <2>1. g = [n \in 0..0 |-> IF n = 0 THEN first ELSE Applied(g[n - 1], pcdEvents[n])]
      OBVIOUS
    <2> QED BY <2>1
  <1>2. ASSUME NEW k \in Nat, k \in S PROVE k + 1 \in S
    <2>1. PICK g : g = [n \in 0..k |-> IF n = 0 THEN first ELSE Applied(g[n - 1], pcdEvents[n])]
      BY <1>2
    <2> DEFINE h == [n \in 0..(k + 1) |-> IF n = k + 1 THEN Applied(g[k], pcdEvents[n]) ELSE g[n]]
    <2>2. ASSUME NEW n \in 0..(k + 1) PROVE h[n] = IF n = 0 THEN first ELSE Applied(h[n - 1], pcdEvents[n])
      BY <2>1
    <2>3. h = [n \in 0..(k + 1) |-> IF n = 0 THEN first ELSE Applied(h[n - 1], pcdEvents[n])]
      BY <2>2
    <2>4. \E f : f = [n \in 0..(k + 1) |-> IF n = 0 THEN first ELSE Applied(f[n - 1], pcdEvents[n])]
      BY <2>3
    <2> HIDE DEF h
    <2> QED BY <2>4
  <1>3. Len(pcdEvents) \in S
    <2> HIDE DEF S
    <2> QED BY <1>1, <1>2, Induct
  <1>4. Viewed = [n \in 0..Len(pcdEvents) |-> IF n = 0 THEN first ELSE Applied(Viewed[n - 1], pcdEvents[n])]
    BY <1>3 DEF Viewed, first
  <1>5. 0 \in 0..Len(pcdEvents) /\ \A n \in 1..Len(pcdEvents) : n \in 0..Len(pcdEvents) /\ n # 0
    OBVIOUS
  <1> QED BY <1>4, <1>5 DEF first

\* An event leaves a viewer of a disc that has the picture it selects.
LEMMA AppliedTyped ==
  ASSUME NEW s \in Viewing, NEW e \in PhotoEvent
  PROVE  Applied(s, e) \in Viewing
  <1> USE PhotoAssumption
  <1>1. CASE e.kind = "Opened"
    <2>1. e.disc \in Pictured
      BY <1>1 DEF PhotoEvent, DecodedEvent
    <2>2. Opened(e.disc) \in AnyViewer /\ Opened(e.disc).current < Images[Opened(e.disc).disc]
      BY <2>1 DEF Opened, AnyViewer, NoImage, Image, Pictured
    <2>3. Applied(s, e) = [p |-> Opened(e.disc), ask |-> ~HasCdiApp[e.disc]]
      BY <1>1 DEF Applied
    <2>4. (~HasCdiApp[e.disc]) \in BOOLEAN
      OBVIOUS
    <2> QED BY <2>2, <2>3, <2>4 DEF Viewing, Viewers
  <1>2. CASE e.kind = "NotPhotoCd"
    BY <1>2 DEF Applied, Viewing, Viewers
  <1>3. CASE e.kind = "Decoded" /\ s.p.shown
    <2>0. s.p \in AnyViewer /\ s.p.current < Images[s.p.disc]
      BY <1>3 DEF Viewing, Viewers, NoViewer
    <2>1. Images[s.p.disc] \in Nat /\ s.p.current \in Nat
      BY <2>0 DEF AnyViewer, Pictured
    <2>2. e.image \in Image /\ e.index \in Nat
      BY <1>3 DEF PhotoEvent, DecodedEvent
    <2> DEFINE c == Least(e.index, Images[s.p.disc] - 1)
    <2>3. c \in Nat /\ c < Images[s.p.disc]
      BY <2>0, <2>1, <2>2 DEF Least
    <2> HIDE DEF c
    <2>4. [s.p EXCEPT !.decoding = FALSE, !.decoded = e.image, !.current = c] \in Viewers
      BY <2>0, <2>2, <2>3 DEF Viewers, AnyViewer
    <2>5. Applied(s, e) = [s EXCEPT !.p = [s.p EXCEPT !.decoding = FALSE, !.decoded = e.image, !.current = c]]
      BY <1>3 DEF Applied, c, Viewing
    <2> QED BY <2>4, <2>5 DEF Viewing
  <1>4. CASE e.kind = "DecodeError" /\ s.p.shown
    <2>1. s.p \in AnyViewer /\ s.p.current < Images[s.p.disc]
      BY <1>4 DEF Viewing, Viewers, NoViewer
    <2>2. [s.p EXCEPT !.decoding = FALSE, !.error = TRUE] \in Viewers
      BY <2>1 DEF Viewers, AnyViewer
    <2>3. Applied(s, e) = [s EXCEPT !.p = [s.p EXCEPT !.decoding = FALSE, !.error = TRUE]]
      BY <1>4 DEF Applied, Viewing
    <2> QED BY <2>2, <2>3 DEF Viewing
  <1>5. CASE e.kind \notin {"Opened", "NotPhotoCd"} /\ ~(e.kind \in {"Decoded", "DecodeError"} /\ s.p.shown)
    BY <1>5 DEF Applied
  <1> QED BY <1>1, <1>2, <1>3, <1>4, <1>5 DEF PhotoEvent, DecodedEvent

\* However many events wait.
LEMMA ViewedTyped ==
  ASSUME PhotoTyped, NEW n \in 0..Len(pcdEvents)
  PROVE  Viewed[n] \in Viewing
  <1>1. Len(pcdEvents) \in Nat /\ \A i \in 1..Len(pcdEvents) : pcdEvents[i] \in PhotoEvent
    BY DEF PhotoTyped
  <1>2. Viewed[0] \in Viewing
    <2>1. Viewed[0] = [p |-> photocd, ask |-> FALSE]
      BY <1>1, ViewedFunction
    <2> QED BY <2>1 DEF PhotoTyped, Viewing
  <1> DEFINE S == {m \in Nat : m <= Len(pcdEvents) => Viewed[m] \in Viewing}
  <1>3. ASSUME NEW m \in Nat, m \in S PROVE m + 1 \in S
    <2> SUFFICES ASSUME m + 1 <= Len(pcdEvents) PROVE Viewed[m + 1] \in Viewing
      OBVIOUS
    <2>1. Viewed[m] \in Viewing
      BY <1>1, <1>3
    <2>2. m + 1 \in 1..Len(pcdEvents) /\ (m + 1) - 1 = m
      BY <1>1
    <2>3. Viewed[m + 1] = Applied(Viewed[m], pcdEvents[m + 1])
      BY <1>1, <2>2, ViewedFunction
    <2> QED BY <1>1, <2>1, <2>2, <2>3, AppliedTyped
  <1>4. 0 \in S
    BY <1>2
  <1>5. n \in S
    <2> HIDE DEF S
    <2> QED BY <1>1, <1>3, <1>4, Induct
  <1> QED BY <1>1, <1>5

-----------------------------------------------------------------------------
\* What the last load is owed of the viewer and of the question s asks.
Shows(s) == Has(s.p) /\ (Images[lastLoad] > 0 => Settled(s.p) \/ s.ask = TRUE)

\* The worker's answer to the load opens its viewer, or closes any.
LEMMA AppliedAnswer ==
  ASSUME NEW s \in Viewing, lastLoad \in PhotoDisc
  PROVE  Shows(Applied(s, Answer))
  <1> USE PhotoAssumption
  <1>1. CASE Images[lastLoad] > 0
    <2>1. Applied(s, Answer) = [p |-> Opened(lastLoad), ask |-> ~HasCdiApp[lastLoad]]
      BY <1>1 DEF Applied, Answer
    <2>2. Has(Opened(lastLoad))
      BY <1>1 DEF Has, Opened
    <2>3. CASE HasCdiApp[lastLoad] = TRUE
      <3>1. Settled(Opened(lastLoad))
        BY <2>3 DEF Settled, Opened
      <3> QED BY <2>1, <2>2, <3>1 DEF Shows
    <2>4. CASE HasCdiApp[lastLoad] = FALSE
      <3>1. (~HasCdiApp[lastLoad]) = TRUE
        BY <2>4, Zenon
      <3>2. Applied(s, Answer) = [p |-> Opened(lastLoad), ask |-> TRUE]
        BY <2>1, <3>1, Zenon
      <3> QED BY <2>2, <3>2 DEF Shows
    <2> QED BY <2>3, <2>4
  <1>2. CASE ~(Images[lastLoad] > 0)
    <2>1. Applied(s, Answer) = [s EXCEPT !.p = NoViewer]
      BY <1>2 DEF Applied, Answer
    <2> QED BY <1>2, <2>1 DEF Shows, Has, NoViewer, Viewing
  <1> QED BY <1>1, <1>2

\* What the worker says of the disc from then on settles its viewer.
LEMMA AppliedOfLoad ==
  ASSUME NEW s \in Viewing, NEW e \in PhotoEvent, lastLoad \in PhotoDisc, OfLoad(e), Has(s.p)
  PROVE  Shows(Applied(s, e))
  <1> USE PhotoAssumption
  <1>1. CASE ~(Images[lastLoad] > 0)
    <2>1. Applied(s, e) = s
      BY <1>1 DEF Applied, Has, OfLoad
    <2> QED BY <1>1, <2>1 DEF Shows
  <1>2. CASE Images[lastLoad] > 0 /\ e.kind = "Decoded"
    <2>1. s.p \in AnyViewer /\ s.p.disc = lastLoad /\ s.p.shown
      BY <1>2 DEF Viewing, Viewers, NoViewer, Has
    <2>2. e.image.disc = lastLoad /\ e.image.index = e.index /\ e.index < Images[lastLoad] /\ e.index \in Nat
      BY <1>2 DEF OfLoad, PhotoEvent, DecodedEvent
    <2>3. Least(e.index, Images[s.p.disc] - 1) = e.index
      BY <2>1, <2>2 DEF Least
    <2> DEFINE q == [s.p EXCEPT !.decoding = FALSE, !.decoded = e.image, !.current = e.index]
    <2>4. Applied(s, e) = [s EXCEPT !.p = q]
      BY <1>2, <2>1, <2>3 DEF Applied, Viewing
    <2>5. Has(q) /\ Settled(q)
      BY <1>2, <2>1, <2>2 DEF Has, Settled, AnyViewer
    <2> HIDE DEF q
    <2>6. Applied(s, e).p = q
      BY <2>4 DEF Viewing
    <2> QED BY <2>5, <2>6 DEF Shows
  <1>3. CASE Images[lastLoad] > 0 /\ e.kind = "DecodeError"
    <2>1. s.p \in AnyViewer /\ s.p.disc = lastLoad /\ s.p.shown
      BY <1>3 DEF Viewing, Viewers, NoViewer, Has
    <2> DEFINE q == [s.p EXCEPT !.decoding = FALSE, !.error = TRUE]
    <2>2. Applied(s, e) = [s EXCEPT !.p = q]
      BY <1>3, <2>1 DEF Applied, Viewing
    <2>3. Has(q) /\ Settled(q)
      BY <1>3, <2>1 DEF Has, Settled, AnyViewer
    <2> HIDE DEF q
    <2>4. Applied(s, e).p = q
      BY <2>2 DEF Viewing
    <2> QED BY <2>3, <2>4 DEF Shows
  <1> QED BY <1>1, <1>2, <1>3 DEF OfLoad

\* From an event on that leaves the viewer to the load, all that follow do.
LEMMA ViewedFrom ==
  ASSUME PhotoTyped, lastLoad \in PhotoDisc,
         NEW k \in 0..Len(pcdEvents), Has(Viewed[k].p), Shows(Viewed[k]) \/ k < Len(pcdEvents),
         \A j \in DOMAIN pcdEvents : j > k => OfLoad(pcdEvents[j])
  PROVE  Shows(Viewed[Len(pcdEvents)])
  <1> DEFINE last == Len(pcdEvents)
             S == {n \in Nat : k <= n /\ n <= last => Has(Viewed[n].p) /\ (k < n => Shows(Viewed[n]))}
  <1>1. /\ last \in Nat /\ k \in Nat /\ k <= last /\ DOMAIN pcdEvents = 1..last
        /\ \A i \in 1..last : pcdEvents[i] \in PhotoEvent
    BY DEF PhotoTyped
  <1>2. 0 \in S
    BY <1>1
  <1>3. ASSUME NEW n \in Nat, n \in S PROVE n + 1 \in S
    <2>1. CASE n + 1 <= k \/ n + 1 > last
      BY <1>1, <2>1
    <2>2. CASE k <= n /\ n + 1 <= last
      <3>1. n \in 0..last /\ n + 1 \in 1..last /\ (n + 1) - 1 = n /\ n + 1 > k
        BY <1>1, <2>2
      <3>2. Has(Viewed[n].p)
        BY <1>1, <1>3, <2>2
      <3>3. Viewed[n] \in Viewing
        BY <3>1, ViewedTyped
      <3>4. Viewed[n + 1] = Applied(Viewed[n], pcdEvents[n + 1])
        BY <1>1, <3>1, ViewedFunction
      <3>5. OfLoad(pcdEvents[n + 1]) /\ pcdEvents[n + 1] \in PhotoEvent
        BY <1>1, <3>1
      <3>6. Shows(Viewed[n + 1])
        BY <3>2, <3>3, <3>4, <3>5, AppliedOfLoad
      <3>7. Has(Viewed[n + 1].p)
        BY <3>6 DEF Shows
      <3> QED BY <3>6, <3>7
    <2> QED BY <1>1, <2>1, <2>2
  <1>4. last \in S
    <2> HIDE DEF S
    <2> QED BY <1>1, <1>2, <1>3, Induct
  <1> HIDE DEF last
  <1>5. CASE k < last
    BY <1>1, <1>4, <1>5
  <1>6. CASE k = last
    BY <1>1, <1>6 DEF last
  <1>7. Shows(Viewed[last])
    BY <1>1, <1>5, <1>6
  <1> QED BY <1>7 DEF last

-----------------------------------------------------------------------------
\* The window's side of a load that is done: its viewer shows the selection, or
\* a decode is about to be asked for, or is under way.
Due(s) ==
    /\ Has(s.p)
    /\ Images[lastLoad] > 0 => Settled(s.p) \/ s.ask = TRUE \/ pcdCommands # <<>>

\* A command to decode disturbs no load.
LEMMA DecodeBehind ==
  ASSUME PhotoTyped, NEW i \in Nat, NEW t \in Nat, Len(pcdCommands) < MaxPending,
         pcdCommands' = Append(pcdCommands, Decode(i, t)), UNCHANGED <<workerDisc, lastLoad>>
  PROVE  /\ pcdCommands' \in Seq(PhotoCommand) /\ Len(pcdCommands') <= MaxPending /\ pcdCommands' # <<>>
         /\ LoadUnderWay => LoadUnderWay'
         /\ WorkerHasIt => WorkerHasIt'
  <1> USE PhotoAssumption
  <1> DEFINE c == Decode(i, t)
  <1>1. c \in PhotoCommand /\ c.kind = "Decode"
    BY DEF Decode, PhotoCommand
  <1> HIDE DEF c
  <1>2. /\ pcdCommands \in Seq(PhotoCommand) /\ Len(pcdCommands) \in Nat /\ DOMAIN pcdCommands = 1..Len(pcdCommands)
        /\ pcdCommands' = Append(pcdCommands, c)
    BY DEF PhotoTyped, c
  <1>3. /\ pcdCommands' \in Seq(PhotoCommand) /\ Len(pcdCommands') = Len(pcdCommands) + 1
        /\ DOMAIN pcdCommands' = 1..(Len(pcdCommands) + 1)
        /\ pcdCommands'[Len(pcdCommands) + 1] = c
        /\ \A j \in 1..Len(pcdCommands) : pcdCommands'[j] = pcdCommands[j]
    BY <1>1, <1>2
  <1>4. pcdCommands' # <<>>
    BY <1>2, <1>3
  <1>5. LoadUnderWay => LoadUnderWay'
    BY <1>1, <1>2, <1>3 DEF LoadUnderWay, OpenDisc
  <1>6. WorkerHasIt => WorkerHasIt'
    BY <1>1, <1>2, <1>3 DEF WorkerHasIt
  <1> QED BY <1>2, <1>3, <1>4, <1>5, <1>6

\* What the window asks of the worker.
LEMMA AskedKeeps ==
  ASSUME PhotoTyped, NEW s \in Viewing, Asked(s), Len(pcdCommands) < MaxPending, UNCHANGED <<workerDisc, lastLoad>>
  PROVE  /\ photocd' \in Viewers /\ pcdCommands' \in Seq(PhotoCommand) /\ Len(pcdCommands') <= MaxPending
         /\ LoadUnderWay => LoadUnderWay'
         /\ WorkerHasIt => WorkerHasIt'
         /\ Due(s) => Has(photocd)' /\ (Images[lastLoad] > 0 => Settled(photocd)' \/ pcdCommands' # <<>>)
  <1> USE PhotoAssumption
  <1>1. CASE s.ask = TRUE /\ s.p.shown
    <2>1. s.p \in AnyViewer /\ s.p.current < Images[s.p.disc] /\ s.p.current \in Nat /\ s.p.tier \in Nat
      BY <1>1, ShownTyped DEF Viewing
    <2>2. /\ photocd' = [s.p EXCEPT !.decoding = TRUE, !.error = FALSE]
          /\ pcdCommands' = Append(pcdCommands, Decode(s.p.current, s.p.tier))
      BY <1>1 DEF Asked
    <2>3. photocd' \in Viewers
      BY <2>1, <2>2 DEF Viewers, AnyViewer
    <2>4. Has(s.p) => Has(photocd)'
      BY <2>1, <2>2 DEF Has, AnyViewer
    <2> QED BY <2>1, <2>2, <2>3, <2>4, DecodeBehind DEF Due
  <1>2. CASE ~(s.ask = TRUE /\ s.p.shown)
    <2>1. photocd' = s.p /\ UNCHANGED pcdCommands
      BY <1>2 DEF Asked, Viewing
    <2>2. Due(s) => Has(s.p) /\ (Images[lastLoad] > 0 => Settled(s.p) \/ pcdCommands # <<>>)
      BY <1>2 DEF Due, Has
    <2>3. (Has(s.p) => Has(photocd)') /\ (Settled(s.p) => Settled(photocd)')
      BY <2>1 DEF Has, Settled
    <2>4. (LoadUnderWay => LoadUnderWay') /\ (WorkerHasIt => WorkerHasIt')
      BY <2>1 DEF LoadUnderWay, WorkerHasIt
    <2> QED BY <2>1, <2>2, <2>3, <2>4 DEF PhotoTyped, Viewing
  <1> QED BY <1>1, <1>2

\* A key that turns a page stays within the disc and asks for a decode.
LEMMA TurnedTyped ==
  ASSUME NEW p \in Viewers, p.shown, NEW by \in {-1, 1}
  PROVE  Turned(p, by) \in Viewers /\ Turned(p, by).shown /\ Turned(p, by).disc = p.disc
  <1> USE PhotoAssumption
  <1>1. p \in AnyViewer /\ p.current < Images[p.disc] /\ p.current \in Nat /\ p.disc \in PhotoDisc
    BY ShownTyped
  <1>2. Images[p.disc] \in Nat
    BY <1>1
  <1> DEFINE c == (p.current + by + Images[p.disc]) % Images[p.disc]
  <1>3. c \in Nat /\ c < Images[p.disc]
    <2>1. \A a \in Nat, n \in Nat \ {0} : a % n \in Nat /\ a % n < n
      OBVIOUS
    <2>2. p.current + by + Images[p.disc] \in Nat /\ Images[p.disc] # 0
      BY <1>1, <1>2
    <2> QED BY <1>2, <2>1, <2>2
  <1>4. Turned(p, by) = [p EXCEPT !.current = c]
    BY DEF Turned
  <1> HIDE DEF c
  <1> QED BY <1>1, <1>3, <1>4 DEF Viewers, AnyViewer

\* A page turned keeps what is due.
LEMMA KeyedKeeps ==
  ASSUME NEW s \in Viewing, NEW by \in {-1, 0, 1}, by # 0 => s.p.shown
  PROVE  Keyed(s, by) \in Viewing /\ (Due(s) => Due(Keyed(s, by)))
  <1>1. CASE by = 0
    BY <1>1 DEF Keyed
  <1>2. CASE by # 0
    <2>1. s.p \in Viewers /\ s.p.shown /\ by \in {-1, 1}
      BY <1>2 DEF Viewing
    <2> DEFINE q == Turned(s.p, by)
    <2>2. q \in Viewers /\ q.shown /\ q.disc = s.p.disc
      BY <2>1, TurnedTyped
    <2>3. Keyed(s, by) = [p |-> q, ask |-> TRUE]
      BY <1>2 DEF Keyed
    <2> HIDE DEF q
    <2>4. Has(s.p) => Has(q)
      BY <2>1, <2>2 DEF Has
    <2> QED BY <2>2, <2>3, <2>4 DEF Viewing, Due
  <1> QED BY <1>1, <1>2

\* A pass that took all events keeps the load's way.
LEMMA UpdateKeeps == ASSUME PhotoIInv, Update PROVE PhotoIInv'
  <1> DEFINE last == Len(pcdEvents)
             s0 == Viewed[last]
  <1>1. PhotoTyped /\ FollowsLoad /\ last \in Nat /\ Len(pcdCommands) < MaxPending
    BY DEF PhotoIInv, PhotoTyped, Update
  <1>2. s0 \in Viewing
    BY <1>1, ViewedTyped
  <1>3. pcdEvents' = <<>> /\ UNCHANGED <<workerDisc, lastLoad>>
    BY DEF Update
  <1> HIDE DEF s0
  <1>4. PICK by \in {-1, 0, 1}, elapsed \in BOOLEAN :
            /\ by # 0 => Turnable(s0.p)
            /\ elapsed => Turnable(Keyed(s0, by).p)
            /\ Asked(Keyed(Keyed(s0, by), IF elapsed THEN 1 ELSE 0))
    BY DEF Update, s0
  <1> DEFINE s1 == Keyed(s0, by)
             s2 == Keyed(s1, IF elapsed THEN 1 ELSE 0)
  <1>5. s1 \in Viewing /\ (Due(s0) => Due(s1))
    BY <1>2, <1>4, KeyedKeeps DEF Turnable
  <1> HIDE DEF s1
  <1>6. s2 \in Viewing /\ (Due(s1) => Due(s2))
    <2>1. CASE elapsed
      BY <1>4, <1>5, <2>1, KeyedKeeps DEF Turnable, s1
    <2>2. CASE ~elapsed
      BY <2>2, <1>5 DEF Keyed
    <2> QED BY <2>1, <2>2
  <1>7. Asked(s2)
    BY <1>4 DEF s1
  <1> HIDE DEF s2
  <1>8. /\ photocd' \in Viewers /\ pcdCommands' \in Seq(PhotoCommand) /\ Len(pcdCommands') <= MaxPending
        /\ LoadUnderWay => LoadUnderWay'
        /\ WorkerHasIt => WorkerHasIt'
        /\ Due(s2) => Has(photocd)' /\ (Images[lastLoad] > 0 => Settled(photocd)' \/ pcdCommands' # <<>>)
    BY <1>1, <1>3, <1>6, <1>7, AskedKeeps
  <1>9. PhotoTyped'
    BY <1>1, <1>3, <1>8 DEF PhotoTyped
  <1>10. FollowsLoad'
    <2> SUFFICES ASSUME lastLoad # NoPhoto, ~LoadUnderWay PROVE WorkerHasIt' /\ ViewerHasIt'
      BY <1>3, <1>8 DEF FollowsLoad
    <2>1. WorkerHasIt /\ (AnswerUnderWay \/ ViewerHasIt) /\ lastLoad \in PhotoDisc
      BY <1>1 DEF FollowsLoad, PhotoTyped
    <2>2. ASSUME AnswerUnderWay PROVE Due(s0)
      <3>1. PICK k \in DOMAIN pcdEvents :
                /\ pcdEvents[k] = Answer
                /\ \A j \in DOMAIN pcdEvents : j > k => OfLoad(pcdEvents[j])
        BY <2>2 DEF AnswerUnderWay
      <3>2. k \in 1..last /\ k - 1 \in 0..last /\ k \in 0..last
        BY <1>1 DEF PhotoTyped
      <3>3. Viewed[k] = Applied(Viewed[k - 1], Answer) /\ Viewed[k - 1] \in Viewing
        BY <1>1, <3>1, <3>2, ViewedFunction, ViewedTyped
      <3>4. Shows(Viewed[k])
        BY <2>1, <3>3, AppliedAnswer
      <3>5. Has(Viewed[k].p)
        BY <3>4 DEF Shows
      <3>6. Shows(s0)
        BY <1>1, <2>1, <3>1, <3>2, <3>4, <3>5, ViewedFrom DEF s0
      <3> QED BY <3>6 DEF Shows, Due
    <2>3. ASSUME ViewerHasIt PROVE Due(s0)
      <3>1. Viewed[0] = [p |-> photocd, ask |-> FALSE]
        BY <1>1, ViewedFunction
      <3>2. CASE last = 0
        <4>1. pcdEvents = <<>>
          BY <1>1, <3>2 DEF PhotoTyped
        <4>2. s0.p = photocd
          BY <3>1, <3>2 DEF s0
        <4> QED BY <2>3, <4>1, <4>2 DEF ViewerHasIt, Due
      <3>3. CASE last > 0
        <4>1. 0 \in 0..last /\ Has(Viewed[0].p) /\ \A j \in DOMAIN pcdEvents : j > 0 => OfLoad(pcdEvents[j])
          BY <1>1, <2>3, <3>1 DEF ViewerHasIt
        <4>2. Shows(s0)
          BY <1>1, <2>1, <3>3, <4>1, ViewedFrom DEF s0
        <4> QED BY <4>2 DEF Shows, Due
      <3> QED BY <1>1, <3>2, <3>3
    <2>4. Has(photocd)' /\ (Images[lastLoad] > 0 => Settled(photocd)' \/ pcdCommands' # <<>>)
      BY <1>5, <1>6, <1>8, <2>1, <2>2, <2>3
    <2> QED BY <1>3, <1>8, <2>1, <2>4 DEF ViewerHasIt
  <1> QED BY <1>9, <1>10 DEF PhotoIInv

\* A button keeps it too, if it asks for a decode where it selects a picture.
LEMMA ClicksKeeps ==
  ASSUME PhotoIInv, NEW p \in Viewers, NEW ask \in BOOLEAN, Clicks(p, ask), photocd.shown,
         p.shown, p.disc = photocd.disc, ask \/ (Settled(photocd) => Settled(p))
  PROVE  PhotoIInv'
  <1> DEFINE s == [p |-> p, ask |-> ask]
  <1>1. PhotoTyped /\ FollowsLoad /\ Len(pcdCommands) < MaxPending
    BY DEF PhotoIInv, Clicks
  <1>2. s \in Viewing /\ s.p = p /\ s.ask = ask
    BY DEF Viewing
  <1>3. Asked(s) /\ UNCHANGED <<pcdEvents, workerDisc, lastLoad>>
    BY DEF Clicks
  <1> HIDE DEF s
  <1>4. /\ photocd' \in Viewers /\ pcdCommands' \in Seq(PhotoCommand) /\ Len(pcdCommands') <= MaxPending
        /\ LoadUnderWay => LoadUnderWay'
        /\ WorkerHasIt => WorkerHasIt'
        /\ Due(s) => Has(photocd)' /\ (Images[lastLoad] > 0 => Settled(photocd)' \/ pcdCommands' # <<>>)
    BY <1>1, <1>2, <1>3, AskedKeeps
  <1>5. PhotoTyped'
    BY <1>1, <1>3, <1>4 DEF PhotoTyped
  <1>6. AnswerUnderWay => AnswerUnderWay'
    BY <1>3 DEF AnswerUnderWay, Answer, OfLoad
  <1>7. ASSUME lastLoad # NoPhoto, ViewerHasIt PROVE ViewerHasIt'
    <2>1. \A j \in DOMAIN pcdEvents' : OfLoad(pcdEvents[j])'
      BY <1>3, <1>7 DEF ViewerHasIt, OfLoad
    <2>2. Has(p)
      BY <1>7 DEF ViewerHasIt, Has
    <2>3. CASE Due(s)
      BY <1>3, <1>4, <2>1, <2>3 DEF ViewerHasIt
    <2>4. CASE ~Due(s)
      <3>1. Images[lastLoad] > 0 /\ ~Settled(p) /\ ask = FALSE /\ pcdCommands = <<>>
        BY <1>2, <2>2, <2>4 DEF Due
      <3>2. pcdEvents # <<>>
        BY <1>7, <3>1 DEF ViewerHasIt
      <3>3. photocd' = p
        BY <1>2, <1>3, <3>1 DEF Asked
      <3> QED BY <1>3, <2>1, <2>2, <3>1, <3>2, <3>3 DEF ViewerHasIt, Has
    <2> QED BY <2>3, <2>4
  <1>8. FollowsLoad'
    BY <1>1, <1>3, <1>4, <1>6, <1>7 DEF FollowsLoad
  <1> QED BY <1>5, <1>8 DEF PhotoIInv

\* The button for the view; it asks for a picture where there is none.
LEMMA ToggleViewKeeps == ASSUME PhotoIInv, ToggleView PROVE PhotoIInv'
  <1>1. photocd \in AnyViewer /\ photocd.current < Images[photocd.disc] /\ photocd.shown
    BY ShownTyped DEF PhotoIInv, PhotoTyped, ToggleView
  <1>2. CASE photocd.view
    <2> DEFINE p == [photocd EXCEPT !.view = FALSE, !.slideshow = FALSE]
    <2>1. p \in Viewers /\ p.shown /\ p.disc = photocd.disc
      BY <1>1 DEF Viewers, AnyViewer
    <2>2. Settled(photocd) => Settled(p)
      BY <1>1 DEF Settled, AnyViewer
    <2>3. Clicks(p, FALSE)
      BY <1>2 DEF ToggleView
    <2> HIDE DEF p
    <2> QED BY <1>1, <2>1, <2>2, <2>3, ClicksKeeps
  <1>3. CASE ~photocd.view
    <2> DEFINE p == [photocd EXCEPT !.view = TRUE]
               ask == photocd.decoded = NoImage /\ ~photocd.decoding
    <2>1. p \in Viewers /\ p.shown /\ p.disc = photocd.disc
      BY <1>1 DEF Viewers, AnyViewer
    <2>2. ask \/ (Settled(photocd) => Settled(p))
      BY <1>1 DEF Settled, AnyViewer
    <2>3. Clicks(p, ask) /\ ask \in BOOLEAN
      BY <1>3 DEF ToggleView
    <2> HIDE DEF p, ask
    <2> QED BY <1>1, <2>1, <2>2, <2>3, ClicksKeeps
  <1> QED BY <1>2, <1>3

\* The other buttons.
LEMMA ButtonsKeep == ASSUME PhotoIInv, Buttons PROVE PhotoIInv'
  <1>1. photocd \in AnyViewer /\ photocd.current < Images[photocd.disc] /\ photocd.shown /\ photocd \in Viewers
    BY ShownTyped DEF PhotoIInv, PhotoTyped, Buttons
  <1>2. ASSUME NEW by \in {-1, 1}, Clicks(Turned(photocd, by), TRUE) PROVE PhotoIInv'
    BY <1>1, <1>2, TurnedTyped, ClicksKeeps
  <1>3. ASSUME NEW tier \in 0..MaxTier, Clicks([photocd EXCEPT !.tier = tier], TRUE) PROVE PhotoIInv'
    <2> DEFINE p == [photocd EXCEPT !.tier = tier]
    <2>1. tier \in Nat
      BY PhotoAssumption
    <2>2. p \in Viewers /\ p.shown /\ p.disc = photocd.disc
      BY <1>1, <2>1 DEF Viewers, AnyViewer
    <2>3. Clicks(p, TRUE)
      BY <1>3
    <2> HIDE DEF p
    <2> QED BY <1>1, <2>2, <2>3, ClicksKeeps
  <1>4. ASSUME Clicks([photocd EXCEPT !.slideshow = ~photocd.slideshow], FALSE) PROVE PhotoIInv'
    <2> DEFINE p == [photocd EXCEPT !.slideshow = ~photocd.slideshow]
    <2>1. (~photocd.slideshow) \in BOOLEAN
      OBVIOUS
    <2>2. p \in Viewers /\ p.shown /\ p.disc = photocd.disc
      BY <1>1, <2>1 DEF Viewers, AnyViewer
    <2>3. Settled(photocd) => Settled(p)
      BY <1>1 DEF Settled, AnyViewer
    <2>4. Clicks(p, FALSE)
      BY <1>4
    <2> HIDE DEF p
    <2> QED BY <1>1, <2>2, <2>3, <2>4, ClicksKeeps
  <1> QED BY <1>2, <1>3, <1>4 DEF Buttons

-----------------------------------------------------------------------------
\* The worker's answers.
LEMMA AnswersTyped ==
  ASSUME PhotoTyped, NEW c \in PhotoCommand, NEW told \in Answers(c)
  PROVE  /\ told \in Seq(PhotoEvent)
         /\ c.kind = "Decode" =>
              IF workerDisc = NoPhoto THEN told = <<>>
              ELSE \E e \in PhotoEvent :
                    /\ told = <<e>>
                    /\ e.kind = "DecodeError" \/ (e.kind = "Decoded" /\ e.image.disc = workerDisc)
         /\ c.kind = "Open" => told = IF Images[c.disc] > 0 THEN <<[kind |-> "Opened", disc |-> c.disc]>>
                                        ELSE <<[kind |-> "NotPhotoCd"]>>
  <1> USE PhotoAssumption
  <1>1. CASE c.kind = "Open" /\ Images[c.disc] > 0
    <2>1. told = <<[kind |-> "Opened", disc |-> c.disc]>>
      BY <1>1 DEF Answers
    <2>2. c.disc \in Pictured
      BY <1>1 DEF PhotoCommand, Pictured
    <2>3. [kind |-> "Opened", disc |-> c.disc] \in PhotoEvent
      BY <2>2 DEF PhotoEvent
    <2> QED BY <1>1, <2>1, <2>3
  <1>2. CASE c.kind = "Open" /\ ~(Images[c.disc] > 0)
    <2>0. Images[c.disc] \in Nat
      BY <1>2 DEF PhotoCommand
    <2>1. told = <<[kind |-> "NotPhotoCd"]>>
      BY <1>2, <2>0 DEF Answers
    <2>2. [kind |-> "NotPhotoCd"] \in PhotoEvent
      BY DEF PhotoEvent
    <2> QED BY <1>2, <2>1, <2>2
  <1>3. CASE c.kind = "Decode" /\ workerDisc # NoPhoto
    <2>1. told \in Pictures(c) \cup {<<[kind |-> "DecodeError"]>>}
      BY <1>3 DEF Answers
    <2>2. CASE told = <<[kind |-> "DecodeError"]>>
      <3>1. [kind |-> "DecodeError"] \in PhotoEvent
        BY DEF PhotoEvent
      <3> QED BY <1>3, <2>2, <3>1
    <2>3. CASE told \in Pictures(c)
      <3> DEFINE e == Shown(c.index, c.tier)
      <3>1. told = <<e>> /\ c.index < Images[workerDisc]
        BY <2>3 DEF Pictures
      <3>2. c.index \in Nat /\ c.tier \in Nat /\ workerDisc \in Pictured /\ workerDisc \in PhotoDisc
        BY <1>3 DEF PhotoCommand, PhotoTyped, Pictured
      <3>3. e \in DecodedEvent
        BY <3>1, <3>2 DEF DecodedEvent, Shown, Image
      <3>4. e.kind = "Decoded" /\ e.image.disc = workerDisc
        BY DEF Shown
      <3>5. e \in PhotoEvent
        BY <3>3 DEF PhotoEvent
      <3> HIDE DEF e
      <3> QED BY <1>3, <3>1, <3>4, <3>5
    <2> QED BY <2>1, <2>2, <2>3
  <1>4. CASE c.kind = "Close" \/ (c.kind = "Decode" /\ workerDisc = NoPhoto)
    <2>1. told = <<>>
      BY <1>4 DEF Answers
    <2> QED BY <1>4, <2>1
  <1> QED BY <1>1, <1>2, <1>3, <1>4 DEF PhotoCommand

\* The worker moves the load on, and afterwards speaks of its disc only.
LEMMA WorkerKeeps == ASSUME PhotoIInv, Worker PROVE PhotoIInv'
  <1> USE PhotoAssumption
  <1> DEFINE c == Head(pcdCommands)
             last == Len(pcdCommands)
             end == Len(pcdEvents)
  <1>1. /\ PhotoTyped /\ FollowsLoad /\ last \in Nat /\ last > 0 /\ DOMAIN pcdCommands = 1..last
        /\ end \in Nat /\ DOMAIN pcdEvents = 1..end
        /\ c = pcdCommands[1] /\ c \in PhotoCommand
    BY DEF PhotoIInv, PhotoTyped, Worker
  <1>2. /\ pcdCommands' = Tail(pcdCommands) /\ pcdCommands' \in Seq(PhotoCommand) /\ Len(pcdCommands') = last - 1
        /\ DOMAIN pcdCommands' = 1..(last - 1)
        /\ \A j \in 1..(last - 1) : pcdCommands'[j] = pcdCommands[j + 1]
    BY <1>1 DEF PhotoTyped, Worker
  <1>3. UNCHANGED <<photocd, lastLoad>>
    BY DEF Worker
  <1>4. workerDisc' = CASE c.kind = "Decode" -> workerDisc
                        [] c.kind = "Open" /\ Images[c.disc] > 0 -> c.disc
                        [] OTHER -> NoPhoto
    BY DEF Worker
  <1>5. PICK told \in Answers(c) : pcdEvents' = pcdEvents \o told
    BY DEF Worker
  <1> HIDE DEF c
  <1>6. /\ told \in Seq(PhotoEvent)
        /\ c.kind = "Decode" =>
              IF workerDisc = NoPhoto THEN told = <<>>
              ELSE \E e \in PhotoEvent :
                    /\ told = <<e>>
                    /\ e.kind = "DecodeError" \/ (e.kind = "Decoded" /\ e.image.disc = workerDisc)
        /\ c.kind = "Open" => told = IF Images[c.disc] > 0 THEN <<[kind |-> "Opened", disc |-> c.disc]>>
                                        ELSE <<[kind |-> "NotPhotoCd"]>>
    BY <1>1, AnswersTyped
  <1>7. pcdEvents' \in Seq(PhotoEvent)
    BY <1>1, <1>5, <1>6 DEF PhotoTyped
  <1>8. workerDisc' \in Pictured \cup {NoPhoto}
    <2>1. CASE c.kind = "Open" /\ Images[c.disc] > 0
      <3>1. c.disc \in Pictured
        BY <1>1, <2>1 DEF PhotoCommand, Pictured
      <3> QED BY <1>4, <2>1, <3>1
    <2>2. CASE ~(c.kind = "Open" /\ Images[c.disc] > 0)
      BY <1>1, <1>4, <2>2 DEF PhotoTyped
    <2> QED BY <2>1, <2>2
  <1>9. PhotoTyped'
    BY <1>1, <1>2, <1>3, <1>7, <1>8 DEF PhotoTyped
  <1>10. ASSUME lastLoad # NoPhoto, LoadUnderWay
         PROVE  LoadUnderWay' \/ (WorkerHasIt' /\ AnswerUnderWay')
    <2>1. PICK k \in 1..last :
              /\ pcdCommands[k] = OpenDisc(lastLoad)
              /\ \A j \in 1..last : j > k => pcdCommands[j].kind = "Decode"
      BY <1>1, <1>10 DEF LoadUnderWay
    <2>2. CASE k > 1
      <3>1. k - 1 \in 1..(last - 1) /\ (k - 1) + 1 = k
        BY <1>1, <2>2
      <3>2. pcdCommands'[k - 1] = OpenDisc(lastLoad)'
        BY <1>2, <1>3, <2>1, <3>1 DEF OpenDisc
      <3>3. ASSUME NEW j \in 1..(last - 1), j > k - 1 PROVE pcdCommands'[j].kind = "Decode"
        BY <1>1, <1>2, <2>1, <3>3
      <3> QED BY <1>2, <3>1, <3>2, <3>3 DEF LoadUnderWay
    <2>3. CASE k = 1
      <3>1. c = OpenDisc(lastLoad) /\ c.kind = "Open" /\ c.disc = lastLoad
        BY <1>1, <2>1, <2>3 DEF OpenDisc
      <3>2. \A j \in DOMAIN pcdCommands' : pcdCommands'[j].kind = "Decode"
        BY <1>1, <1>2, <2>1, <2>3
      <3>3. WorkerHasIt'
        BY <1>3, <1>4, <3>1, <3>2 DEF WorkerHasIt
      <3>4. told = <<Answer>>
        BY <1>6, <3>1 DEF Answer
      <3>5. pcdEvents \in Seq(PhotoEvent)
        BY <1>1 DEF PhotoTyped
      <3>6. DOMAIN pcdEvents' = 1..(end + 1) /\ pcdEvents'[end + 1] = Answer
        BY <1>1, <1>5, <1>6, <3>4, <3>5
      <3>7. Answer' = Answer
        BY <1>3 DEF Answer
      <3>8. end + 1 \in DOMAIN pcdEvents' /\ \A j \in DOMAIN pcdEvents' : ~(j > end + 1)
        BY <1>1, <3>6
      <3>9. AnswerUnderWay'
        BY <3>6, <3>7, <3>8 DEF AnswerUnderWay
      <3> QED BY <3>3, <3>9
    <2> QED BY <2>1, <2>2, <2>3
  <1>11. ASSUME lastLoad # NoPhoto, WorkerHasIt, AnswerUnderWay \/ ViewerHasIt
         PROVE  WorkerHasIt' /\ (AnswerUnderWay' \/ ViewerHasIt')
    <2>1. /\ c.kind = "Decode" /\ workerDisc' = workerDisc
          /\ workerDisc = IF Images[lastLoad] > 0 THEN lastLoad ELSE NoPhoto
      BY <1>1, <1>4, <1>11 DEF WorkerHasIt
    <2>2. WorkerHasIt'
      <3>1. \A j \in 1..(last - 1) : j + 1 \in 1..last
        BY <1>1
      <3> QED BY <1>1, <1>2, <1>3, <1>11, <2>1, <3>1 DEF WorkerHasIt
    <2>3. CASE ~(Images[lastLoad] > 0)
      <3>1. told = <<>> /\ pcdEvents \in Seq(PhotoEvent)
        BY <1>1, <1>6, <2>1, <2>3 DEF PhotoTyped
      <3>2. pcdEvents' = pcdEvents
        BY <1>5, <3>1
      <3>3. AnswerUnderWay => AnswerUnderWay'
        BY <1>3, <3>2 DEF AnswerUnderWay, Answer, OfLoad
      <3>4. ViewerHasIt => ViewerHasIt'
        BY <1>3, <2>3, <3>2 DEF ViewerHasIt, Has, OfLoad
      <3> QED BY <1>11, <2>2, <3>3, <3>4
    <2>4. CASE Images[lastLoad] > 0
      <3>1. PICK e \in PhotoEvent : told = <<e>> /\ OfLoad(e)
        BY <1>6, <1>11, <2>1, <2>4 DEF OfLoad
      <3>2. pcdEvents \in Seq(PhotoEvent)
        BY <1>1 DEF PhotoTyped
      <3>3. /\ DOMAIN pcdEvents' = 1..(end + 1) /\ pcdEvents'[end + 1] = e /\ Len(pcdEvents') = end + 1
            /\ \A j \in 1..end : pcdEvents'[j] = pcdEvents[j]
        BY <1>1, <1>5, <1>6, <3>1, <3>2
      <3>4. pcdEvents' # <<>>
        BY <1>1, <3>3
      <3>5. \A j \in 1..(end + 1) : j \in 1..end \/ j = end + 1
        BY <1>1
      <3>6. ASSUME AnswerUnderWay PROVE AnswerUnderWay'
        <4>1. PICK k \in 1..end :
                  /\ pcdEvents[k] = Answer
                  /\ \A j \in 1..end : j > k => OfLoad(pcdEvents[j])
          BY <1>1, <3>6 DEF AnswerUnderWay
        <4>2. k \in DOMAIN pcdEvents' /\ pcdEvents'[k] = Answer'
          BY <1>1, <1>3, <3>3, <4>1 DEF Answer
        <4>3. ASSUME NEW j \in 1..(end + 1), j > k PROVE OfLoad(pcdEvents'[j])
          BY <3>1, <3>3, <3>5, <4>1, <4>3
        <4>4. \A j \in DOMAIN pcdEvents' : j > k => OfLoad(pcdEvents[j])'
          BY <1>3, <3>3, <4>3 DEF OfLoad
        <4> QED BY <4>2, <4>4 DEF AnswerUnderWay
      <3>7. ViewerHasIt => ViewerHasIt'
        BY <1>1, <1>3, <3>1, <3>3, <3>4, <3>5 DEF ViewerHasIt, Has, OfLoad
      <3> QED BY <1>11, <2>2, <3>6, <3>7
    <2> QED BY <2>3, <2>4
  <1>12. FollowsLoad'
    BY <1>1, <1>3, <1>10, <1>11 DEF FollowsLoad
  <1> QED BY <1>9, <1>12 DEF PhotoIInv

\* A load starts anew behind all that is under way.
LEMMA PhotoLoadKeeps == ASSUME PhotoIInv, NEW d \in PhotoDisc, LoadPhoto(d) PROVE PhotoIInv'
  <1> DEFINE last == Len(pcdCommands)
             c == OpenDisc(d)
  <1>1. /\ PhotoTyped /\ pcdCommands \in Seq(PhotoCommand) /\ last \in Nat /\ last < MaxPending
        /\ c \in PhotoCommand
    BY DEF PhotoIInv, PhotoTyped, LoadPhoto, OpenDisc, PhotoCommand
  <1>2. /\ photocd' = NoViewer /\ pcdCommands' = Append(pcdCommands, c) /\ lastLoad' = d
        /\ UNCHANGED <<pcdEvents, workerDisc>>
    BY DEF LoadPhoto
  <1>3. c = OpenDisc(lastLoad)'
    BY <1>2 DEF OpenDisc
  <1> HIDE DEF c
  <1>4. /\ pcdCommands' \in Seq(PhotoCommand) /\ Len(pcdCommands') = last + 1
        /\ DOMAIN pcdCommands' = 1..(last + 1) /\ pcdCommands'[last + 1] = c
    BY <1>1, <1>2
  <1>5. PhotoTyped'
    BY <1>1, <1>2, <1>4, PhotoAssumption DEF PhotoTyped, Viewers
  <1>6. LoadUnderWay'
    <2>1. last + 1 \in DOMAIN pcdCommands' /\ \A j \in DOMAIN pcdCommands' : ~(j > last + 1)
      BY <1>1, <1>4
    <2> QED BY <1>3, <1>4, <2>1 DEF LoadUnderWay
  <1> QED BY <1>5, <1>6 DEF PhotoIInv, FollowsLoad

\* After an eject nothing is asked.
LEMMA PhotoEjectKeeps == ASSUME PhotoIInv, EjectPhoto PROVE PhotoIInv'
  <1>1. /\ PhotoTyped /\ pcdCommands \in Seq(PhotoCommand) /\ Len(pcdCommands) < MaxPending
        /\ CloseDisc \in PhotoCommand
    BY DEF PhotoIInv, PhotoTyped, EjectPhoto, CloseDisc, PhotoCommand
  <1>2. /\ photocd' = NoViewer /\ pcdCommands' = Append(pcdCommands, CloseDisc) /\ lastLoad' = NoPhoto
        /\ UNCHANGED <<pcdEvents, workerDisc>>
    BY DEF EjectPhoto
  <1>3. PhotoTyped'
    BY <1>1, <1>2, PhotoAssumption DEF PhotoTyped, Viewers
  <1> QED BY <1>2, <1>3 DEF PhotoIInv, FollowsLoad

\* The viewer's invariant follows.
LEMMA PhotoImplied == ASSUME PhotoIInv PROVE PhotoInv
  <1>1. PhotoTyped /\ FollowsLoad
    BY DEF PhotoIInv
  <1>2. PhotoTypeOK
    <2>1. photocd.shown \in BOOLEAN
      <3>1. CASE photocd \in AnyViewer
        BY <3>1 DEF AnyViewer
      <3>2. CASE photocd = NoViewer
        BY <3>2 DEF NoViewer
      <3> QED BY <1>1, <3>1, <3>2 DEF PhotoTyped, Viewers
    <2>2. workerDisc \in PhotoDisc \cup {NoPhoto} /\ Len(pcdCommands) <= MaxPending
      BY <1>1 DEF PhotoTyped, Pictured
    <2>3. photocd.shown => photocd.current \in 0..(Images[photocd.disc] - 1)
      BY <1>1, ShownTyped DEF PhotoTyped
    <2> QED BY <2>1, <2>2, <2>3 DEF PhotoTypeOK
  <1>3. ASSUME PhotoQuiet, lastLoad # NoPhoto PROVE ViewerHasIt
    BY <1>1, <1>3 DEF PhotoQuiet, FollowsLoad, LoadUnderWay, AnswerUnderWay
  <1>4. ViewerFollowsLoad
    BY <1>3 DEF ViewerFollowsLoad, ViewerHasIt, Has
  <1>5. ShowsTheSelection
    <2> SUFFICES ASSUME PhotoQuiet, lastLoad # NoPhoto, photocd.shown PROVE Settled(photocd)
      BY DEF ShowsTheSelection, Settled
    <2> QED BY <1>3 DEF ViewerHasIt, Has, PhotoQuiet
  <1> QED BY <1>2, <1>4, <1>5 DEF PhotoInv

\* When nothing is under way after a load, the viewer is that of the disc, and
\* it shows the picture selected or an error, for all discs and any number of
\* commands and events (main.rs:930, 4235).
THEOREM PhotoInvariant == PhotoSpec => []PhotoInv
  <1>1. PhotoInit => PhotoIInv
    BY PhotoAssumption DEF PhotoInit, PhotoIInv, PhotoTyped, FollowsLoad, Viewers
  <1>2. PhotoIInv /\ [PhotoNext]_photoVars => PhotoIInv'
    <2> SUFFICES ASSUME PhotoIInv, [PhotoNext]_photoVars PROVE PhotoIInv'
      OBVIOUS
    <2>1. CASE UNCHANGED photoVars
      BY <2>1 DEF photoVars, PhotoIInv, PhotoTyped, FollowsLoad, LoadUnderWay, OpenDisc, WorkerHasIt,
                  AnswerUnderWay, Answer, ViewerHasIt, OfLoad, Has, Settled
    <2> QED BY <2>1, WorkerKeeps, UpdateKeeps, ToggleViewKeeps, ButtonsKeep, PhotoLoadKeeps, PhotoEjectKeeps
            DEF PhotoNext
  <1>3. PhotoIInv => PhotoInv
    BY PhotoImplied
  <1> QED BY <1>1, <1>2, <1>3, PTL DEF PhotoSpec

-----------------------------------------------------------------------------
(* The host's input.                                                       *)

\* What the player may be holding, and what may be under way to it.
GuestType == [buttons : SUBSET CdiButton, keys : SUBSET Code(HostKey), pause : BOOLEAN]
GuestEvent == [kind : {"key"}, code : Code(HostKey), down : BOOLEAN]
                 \cup [kind : {"pause"}, down : BOOLEAN]

WindowFields == {"library", "menu", "selection", "captured", "enabled", "suppressClick", "game",
                 "padButtons", "suppressed", "kb", "keys", "pause", "passthrough"}

\* The player, given the queue, holds no key the window does not hold.
PlayerFollows(w) ==
    /\ Replayed(guest, w.events).keys \subseteq Code(Held(w))
    /\ Replayed(guest, w.events).pause = w.pause

\* The window at any point of a pass.
WindowOK(w) ==
    /\ DOMAIN w = WindowFields \cup {"buttons", "events"}
    /\ w.buttons \subseteq CdiButton /\ w.game \subseteq CdiButton /\ w.padButtons \subseteq CdiButton
    /\ w.kb \subseteq CdiButton /\ w.suppressed \subseteq CdiButton
    /\ {w.library, w.menu, w.captured, w.enabled, w.pause, w.passthrough} \subseteq BOOLEAN
    /\ w.keys \in Seq(HostKey) /\ w.events \in Seq(GuestEvent)
    /\ \A i, j \in DOMAIN w.keys : w.keys[i] = w.keys[j] => i = j
    /\ PlayerFollows(w)

\* Where the player is not given keys, the window holds none.
HostIInv ==
    /\ guest \in GuestType
    /\ DOMAIN win = WindowFields /\ WindowOK(Before)
    /\ Held(win) \subseteq pressedKeys \cup skipped /\ skipped \subseteq Held(win)
    /\ usedInMenu \subseteq win.suppressed /\ win.padButtons \cap win.suppressed = {}
    /\ (win.library \/ ~win.passthrough) => win.keys = <<>>

-----------------------------------------------------------------------------
\* The run of a queue.
QueueRun(g, queue) ==
    CHOOSE f : f = [n \in 0..Len(queue) |-> IF n = 0 THEN g ELSE Apply(f[n - 1], queue[n])]

\* A queue is applied event by event.
LEMMA QueueRuns ==
  ASSUME NEW g, NEW S, NEW queue \in Seq(S)
  PROVE  LET run == QueueRun(g, queue) IN
         /\ Replayed(g, queue) = run[Len(queue)]
         /\ run[0] = g
         /\ \A n \in 1..Len(queue) : run[n] = Apply(run[n - 1], queue[n])
  <1> DEFINE L == Len(queue)
             run == QueueRun(g, queue)
  <1>1. Replayed(g, queue) = run[L]
    BY DEF Replayed, QueueRun
  <1>2. L \in Nat
    OBVIOUS
  <1>3. run = CHOOSE f : f = [n \in 0..L |-> IF n = 0 THEN g ELSE Apply(f[n - 1], queue[n])]
    BY DEF QueueRun
  <1> HIDE DEF L, run
  <1>4. run = [n \in 0..L |-> IF n = 0 THEN g ELSE Apply(run[n - 1], queue[n])]
    <2> DEFINE T == {k \in Nat : \E f : f = [n \in 0..k |-> IF n = 0 THEN g ELSE Apply(f[n - 1], queue[n])]}
    <2>1. 0 \in T
      <3> DEFINE f == [n \in 0..0 |-> g]
      <3>1. f = [n \in 0..0 |-> IF n = 0 THEN g ELSE Apply(f[n - 1], queue[n])]
        OBVIOUS
      <3> QED BY <3>1
    <2>2. ASSUME NEW k \in Nat, k \in T PROVE k + 1 \in T
      <3>1. PICK e : e = [n \in 0..k |-> IF n = 0 THEN g ELSE Apply(e[n - 1], queue[n])]
        BY <2>2
      <3> DEFINE h == [n \in 0..(k + 1) |-> IF n = k + 1 THEN Apply(e[k], queue[k + 1]) ELSE e[n]]
      <3>2. ASSUME NEW n \in 0..(k + 1) PROVE h[n] = IF n = 0 THEN g ELSE Apply(h[n - 1], queue[n])
        BY <3>1
      <3>3. h = [n \in 0..(k + 1) |-> IF n = 0 THEN g ELSE Apply(h[n - 1], queue[n])]
        BY <3>2
      <3>4. \E f : f = [n \in 0..(k + 1) |-> IF n = 0 THEN g ELSE Apply(f[n - 1], queue[n])]
        BY <3>3
      <3> HIDE DEF h
      <3>5. k + 1 \in Nat
        OBVIOUS
      <3> QED BY <3>4, <3>5, Zenon
    <2>3. L \in T
      <3> HIDE DEF T
      <3> QED BY <1>2, <2>1, <2>2, Induct
    <2> QED BY <1>3, <2>3
  <1>5. run[0] = g
    BY <1>2, <1>4
  <1>6. ASSUME NEW n \in 1..L PROVE run[n] = Apply(run[n - 1], queue[n])
    BY <1>2, <1>4
  <1> USE DEF L, run
  <1> QED BY <1>1, <1>5, <1>6

\* Nothing under way changes nothing.
LEMMA ReplayedNothing ==
  ASSUME NEW g PROVE Replayed(g, <<>>) = g
  <1>1. <<>> \in Seq({}) /\ Len(<<>>) = 0
    OBVIOUS
  <1> QED BY <1>1, QueueRuns

\* An event behind the queue is applied last.
LEMMA ReplayedAppend ==
  ASSUME NEW g, NEW S, NEW queue \in Seq(S), NEW e \in S
  PROVE  Replayed(g, Append(queue, e)) = Apply(Replayed(g, queue), e)
  <1> DEFINE L == Len(queue)
             longer == Append(queue, e)
             r == QueueRun(g, queue)
             t == QueueRun(g, longer)
             T == {n \in Nat : n <= L => t[n] = r[n]}
  <1>1. longer \in Seq(S) /\ Len(longer) = L + 1 /\ L \in Nat
        /\ longer[L + 1] = e /\ \A n \in 1..L : longer[n] = queue[n]
    OBVIOUS
  <1>2. /\ Replayed(g, queue) = r[L] /\ r[0] = g
        /\ \A n \in 1..L : r[n] = Apply(r[n - 1], queue[n])
    BY QueueRuns
  <1>3. /\ Replayed(g, longer) = t[L + 1] /\ t[0] = g
        /\ \A n \in 1..(L + 1) : t[n] = Apply(t[n - 1], longer[n])
    <2> HIDE DEF longer
    <2>1. /\ Replayed(g, longer) = t[Len(longer)] /\ t[0] = g
          /\ \A n \in 1..Len(longer) : t[n] = Apply(t[n - 1], longer[n])
      BY <1>1, QueueRuns
    <2> QED BY <1>1, <2>1
  <1> HIDE DEF L, longer, r, t
  <1>4. 0 \in T
    BY <1>2, <1>3
  <1>5. ASSUME NEW n \in Nat, n \in T PROVE n + 1 \in T
    <2> SUFFICES ASSUME n + 1 <= L PROVE t[n + 1] = r[n + 1]
      OBVIOUS
    <2>1. n + 1 \in 1..L /\ n + 1 \in 1..(L + 1) /\ (n + 1) - 1 = n /\ t[n] = r[n]
      BY <1>1, <1>5
    <2>2. t[n + 1] = Apply(t[n], longer[n + 1]) /\ r[n + 1] = Apply(r[n], queue[n + 1])
      BY <1>2, <1>3, <2>1
    <2> QED BY <1>1, <2>1, <2>2
  <1>6. L \in T
    <2> HIDE DEF T
    <2> QED BY <1>1, <1>4, <1>5, Induct
  <1>7. t[L] = r[L]
    BY <1>1, <1>6
  <1>8. L + 1 \in 1..(L + 1) /\ (L + 1) - 1 = L
    BY <1>1
  <1>9. t[L + 1] = Apply(t[L], e)
    BY <1>1, <1>3, <1>8
  <1> QED BY <1>2, <1>3, <1>7, <1>9 DEF longer

\* What an event does.
LEMMA ApplyKeeps ==
  ASSUME NEW g \in GuestType, NEW e \in GuestEvent
  PROVE  Apply(g, e) \in GuestType
  <1>1. g.keys \in SUBSET Code(HostKey) /\ g.pause \in BOOLEAN /\ g.buttons \in SUBSET CdiButton
    BY DEF GuestType
  <1>2. CASE e.kind = "pause"
    <2>1. e.down \in BOOLEAN
      BY <1>2 DEF GuestEvent
    <2> QED BY <1>2, <2>1 DEF Apply, GuestType
  <1>3. CASE e.kind # "pause"
    <2>1. e.code \in Code(HostKey)
      BY <1>3 DEF GuestEvent
    <2> QED BY <1>1, <1>3, <2>1 DEF Apply, GuestType
  <1> QED BY <1>2, <1>3

\* What the player holds is of its type, whatever is under way.
LEMMA ReplayedTyped ==
  ASSUME NEW g \in GuestType, NEW queue \in Seq(GuestEvent)
  PROVE  Replayed(g, queue) \in GuestType
  <1> DEFINE L == Len(queue)
             r == QueueRun(g, queue)
             T == {n \in Nat : n <= L => r[n] \in GuestType}
  <1>1. L \in Nat /\ \A n \in 1..L : queue[n] \in GuestEvent
    OBVIOUS
  <1>2. /\ Replayed(g, queue) = r[L] /\ r[0] = g
        /\ \A n \in 1..L : r[n] = Apply(r[n - 1], queue[n])
    BY QueueRuns
  <1> HIDE DEF L, r
  <1>3. 0 \in T
    BY <1>2
  <1>4. ASSUME NEW n \in Nat, n \in T PROVE n + 1 \in T
    <2> SUFFICES ASSUME n + 1 <= L PROVE r[n + 1] \in GuestType
      OBVIOUS
    <2>1. n + 1 \in 1..L /\ (n + 1) - 1 = n /\ r[n] \in GuestType
      BY <1>1, <1>4
    <2> QED BY <1>1, <1>2, <2>1, ApplyKeeps
  <1>5. L \in T
    <2> HIDE DEF T
    <2> QED BY <1>1, <1>3, <1>4, Induct
  <1> QED BY <1>1, <1>2, <1>5

-----------------------------------------------------------------------------
\* The keys that go up: after the first n of them the player holds only keys
\* that come before them.
Releases(keys, n) == [i \in 1..n |-> KeyEvent(keys[Len(keys) + 1 - i], FALSE)]

\* One more key goes up: one more event at the end.
LEMMA ReleasesNext ==
  ASSUME NEW keys \in Seq(HostKey), NEW n \in Nat, n + 1 <= Len(keys)
  PROVE  LET e == KeyEvent(keys[Len(keys) - n], FALSE) IN
         /\ e \in GuestEvent
         /\ Releases(keys, n) \in Seq(GuestEvent)
         /\ Releases(keys, n + 1) = Append(Releases(keys, n), e)
  <1> DEFINE L == Len(keys)
             event(i) == KeyEvent(keys[L + 1 - i], FALSE)
             a == [i \in 1..n |-> event(i)]
             b == [i \in 1..(n + 1) |-> event(i)]
             e == KeyEvent(keys[L - n], FALSE)
  <1>1. L \in Nat /\ n + 1 <= L /\ \A i \in 1..L : keys[i] \in HostKey
    OBVIOUS
  <1>2. Releases(keys, n) = a /\ Releases(keys, n + 1) = b
    BY DEF Releases
  <1> HIDE DEF L
  <1>3. \A i \in 1..(n + 1) : event(i) \in GuestEvent
    <2>1. ASSUME NEW i \in 1..(n + 1) PROVE event(i) \in GuestEvent
      <3>1. keys[L + 1 - i] \in HostKey
        BY <1>1
      <3> QED BY <3>1 DEF KeyEvent, GuestEvent, Code
    <2> QED BY <2>1
  <1>4. e = event(n + 1)
    <2>1. L + 1 - (n + 1) = L - n
      BY <1>1
    <2> QED BY <2>1
  <1> HIDE DEF event, e
  <1>5. a \in [1..n -> GuestEvent] /\ b \in [1..(n + 1) -> GuestEvent]
    BY <1>3
  <1>6. b[n + 1] = e /\ \A i \in 1..n : b[i] = a[i]
    BY <1>4
  <1>7. e \in GuestEvent
    BY <1>3, <1>4
  <1> HIDE DEF a, b
  <1>8. a \in Seq(GuestEvent) /\ b \in Seq(GuestEvent) /\ Len(a) = n /\ Len(b) = n + 1
    BY <1>5
  <1>9. b = Append(a, e)
    <2>1. Append(a, e) \in Seq(GuestEvent) /\ Len(Append(a, e)) = n + 1
      BY <1>7, <1>8
    <2>2. ASSUME NEW i \in 1..(n + 1) PROVE b[i] = Append(a, e)[i]
      BY <1>6, <1>7, <1>8
    <2> QED BY <1>8, <2>1, <2>2
  <1> QED BY <1>2, <1>7, <1>8, <1>9 DEF L, e

\* Appending goes with what is put before.
LEMMA AppendBehind ==
  ASSUME NEW S, NEW q \in Seq(S), NEW a \in Seq(S), NEW e \in S
  PROVE  q \o Append(a, e) = Append(q \o a, e)
  <1>1. /\ q \o Append(a, e) \in Seq(S) /\ Append(q \o a, e) \in Seq(S)
        /\ Len(q \o Append(a, e)) = Len(q) + Len(a) + 1
        /\ Len(Append(q \o a, e)) = Len(q) + Len(a) + 1
    OBVIOUS
  <1>2. ASSUME NEW i \in 1..(Len(q) + Len(a) + 1)
        PROVE (q \o Append(a, e))[i] = Append(q \o a, e)[i]
    OBVIOUS
  <1> QED BY <1>1, <1>2

\* A player that held no key but these holds none when they have gone up.
LEMMA ReleasesApplied ==
  ASSUME NEW g \in GuestType, NEW queue \in Seq(GuestEvent), NEW keys \in Seq(HostKey),
         Replayed(g, queue).keys \subseteq {KeyCode[keys[i]] : i \in DOMAIN keys}
  PROVE  LET all == queue \o Releases(keys, Len(keys)) IN
         /\ all \in Seq(GuestEvent)
         /\ Replayed(g, all).keys = {}
         /\ Replayed(g, all).pause = Replayed(g, queue).pause
  <1> DEFINE L == Len(keys)
             q(n) == queue \o Releases(keys, n)
             Left(n) == {KeyCode[keys[i]] : i \in 1..(L - n)}
             OK(n) == /\ q(n) \in Seq(GuestEvent)
                      /\ Replayed(g, q(n)).keys \subseteq Left(n)
                      /\ Replayed(g, q(n)).pause = Replayed(g, queue).pause
             T == {n \in Nat : n <= L => OK(n)}
  <1>1. L \in Nat /\ DOMAIN keys = 1..L /\ \A i \in 1..L : keys[i] \in HostKey
    OBVIOUS
  <1>2. q(0) = queue
    <2>1. Releases(keys, 0) = <<>>
      BY DEF Releases
    <2> QED BY <2>1
  <1>3. 0 \in T
    <2>1. L - 0 = L
      BY <1>1
    <2> HIDE DEF q, L
    <2>2. Replayed(g, queue).keys \subseteq {KeyCode[keys[i]] : i \in 1..L}
      BY <1>1
    <2>3. OK(0)
      BY <1>2, <2>1, <2>2
    <2> HIDE DEF OK
    <2> QED BY <2>3
  <1>4. ASSUME NEW n \in Nat, n \in T PROVE n + 1 \in T
    <2> SUFFICES ASSUME n + 1 <= L PROVE OK(n + 1)
      OBVIOUS
    <2> DEFINE k == keys[L - n]
               e == KeyEvent(k, FALSE)
    <2>1. OK(n)
      BY <1>1, <1>4
    <2>2. k \in HostKey /\ L - n \in 1..L
      BY <1>1
    <2>3. e \in GuestEvent /\ e.kind = "key" /\ ~e.down /\ e.code = KeyCode[k]
      BY <2>2 DEF KeyEvent, GuestEvent, Code
    <2>4. q(n + 1) = Append(q(n), e)
      <3>1. /\ Releases(keys, n) \in Seq(GuestEvent)
            /\ Releases(keys, n + 1) = Append(Releases(keys, n), e)
        BY ReleasesNext
      <3> HIDE DEF e
      <3>2. e \in GuestEvent
        BY <2>3
      <3>3. queue \o Append(Releases(keys, n), e) = Append(queue \o Releases(keys, n), e)
        BY <3>1, <3>2, AppendBehind
      <3> QED BY <3>1, <3>3
    <2> HIDE DEF q, e, k
    <2>5. q(n + 1) \in Seq(GuestEvent)
      BY <2>1, <2>3, <2>4
    <2>6. Replayed(g, q(n + 1)) = Apply(Replayed(g, q(n)), e)
      <3>1. q(n) \in Seq(GuestEvent)
        BY <2>1
      <3>2. Replayed(g, Append(q(n), e)) = Apply(Replayed(g, q(n)), e)
        BY <2>3, <3>1, ReplayedAppend
      <3> QED BY <2>4, <3>2
    <2>7. Replayed(g, q(n)) \in GuestType
      BY <2>1, ReplayedTyped
    <2> DEFINE before == Replayed(g, q(n))
               after == Replayed(g, q(n + 1))
    <2>8. after.keys = before.keys \ {KeyCode[k]} /\ after.pause = before.pause
      BY <2>3, <2>6, <2>7 DEF Apply, GuestType
    <2>9. Left(n) \subseteq Left(n + 1) \cup {KeyCode[k]}
      <3> SUFFICES ASSUME NEW i \in 1..(L - n) PROVE KeyCode[keys[i]] \in Left(n + 1) \cup {KeyCode[k]}
        OBVIOUS
      <3>1. CASE i = L - n
        BY <3>1 DEF k
      <3>2. CASE i # L - n
        <4>0. L \in Nat /\ n \in Nat /\ i \in Int /\ 1 <= i /\ i <= L - n
          BY <1>1
        <4> HIDE DEF L
        <4>1. i \in 1..(L - (n + 1))
          BY <3>2, <4>0
        <4> QED BY <4>1
      <3> QED BY <3>1, <3>2
    <2> HIDE DEF Left
    <2>10. after.keys \subseteq Left(n + 1) /\ after.pause = Replayed(g, queue).pause
      BY <2>1, <2>8, <2>9
    <2> QED BY <2>5, <2>10
  <1>5. L \in T
    <2> HIDE DEF T
    <2> QED BY <1>1, <1>3, <1>4, Induct
  <1>6. OK(L)
    <2> HIDE DEF OK
    <2> QED BY <1>1, <1>5
  <1>7. Left(L) = {}
    BY <1>1
  <1> QED BY <1>6, <1>7

\* A key taken out of the keys held leaves the others.
LEMMA Without ==
  ASSUME NEW s \in Seq(HostKey), \A i, j \in DOMAIN s : s[i] = s[j] => i = j, NEW p \in DOMAIN s
  PROVE  LET t == SubSeq(s, 1, p - 1) \o SubSeq(s, p + 1, Len(s)) IN
         /\ t \in Seq(HostKey)
         /\ \A i, j \in DOMAIN t : t[i] = t[j] => i = j
         /\ {t[i] : i \in DOMAIN t} = {s[i] : i \in DOMAIN s} \ {s[p]}
  <1> DEFINE t == SubSeq(s, 1, p - 1) \o SubSeq(s, p + 1, Len(s))
             L == Len(s)
             from(i) == IF i < p THEN i ELSE i + 1
  <1>1. L \in Nat /\ DOMAIN s = 1..L /\ p \in 1..L
    OBVIOUS
  <1> DEFINE a == SubSeq(s, 1, p - 1)
             b == SubSeq(s, p + 1, L)
  <1>10. /\ a \in Seq(HostKey) /\ Len(a) = p - 1 /\ \A i \in 1..(p - 1) : a[i] = s[i]
         /\ b \in Seq(HostKey) /\ Len(b) = L - p /\ \A i \in 1..(L - p) : b[i] = s[p + i]
    <2>1. \A i \in 1..(p - 1) : s[i] \in HostKey
      BY <1>1
    <2>2. \A i \in 1..(L - p) : s[p + i] \in HostKey
      BY <1>1
    <2>3. a = [i \in 1..(p - 1) |-> s[i]]
      BY <1>1
    <2>4. b = [i \in 1..(L - p) |-> s[p + i]]
      BY <1>1
    <2>5. p - 1 \in Nat /\ L - p \in Nat
      BY <1>1
    <2> HIDE DEF a, b, L
    <2>6. a \in [1..(p - 1) -> HostKey] /\ b \in [1..(L - p) -> HostKey]
      BY <2>1, <2>2, <2>3, <2>4
    <2>7. a \in Seq(HostKey) /\ b \in Seq(HostKey) /\ Len(a) = p - 1 /\ Len(b) = L - p
      BY <2>5, <2>6
    <2> QED BY <2>3, <2>4, <2>7
  <1>12. t = a \o b
    OBVIOUS
  <1> HIDE DEF a, b, t, L
  <1>2. t \in Seq(HostKey) /\ Len(t) = L - 1 /\ DOMAIN t = 1..(L - 1)
    <2>0. a \in Seq(HostKey) /\ b \in Seq(HostKey)
      BY <1>10
    <2>1. t \in Seq(HostKey) /\ Len(t) = Len(a) + Len(b)
      BY <2>0, <1>12
    <2>2. Len(a) + Len(b) = L - 1
      BY <1>1, <1>10
    <2>3. Len(t) = L - 1
      BY <2>1, <2>2
    <2> QED BY <2>1, <2>3
  <1>3. \A i \in 1..(L - 1) : t[i] = s[from(i)]
    <2> SUFFICES ASSUME NEW i \in 1..(L - 1) PROVE t[i] = s[from(i)]
      OBVIOUS
    <2>1. CASE i < p
      BY <1>1, <1>10, <1>12, <2>1
    <2>2. CASE i >= p
      <3>1. t[i] = b[i - (p - 1)] /\ i - (p - 1) \in 1..(L - p)
        BY <1>1, <1>10, <1>12, <2>2
      <3>2. p + (i - (p - 1)) = i + 1
        BY <1>1
      <3>3. b[i - (p - 1)] = s[p + (i - (p - 1))]
        BY <1>10, <3>1
      <3> QED BY <1>1, <2>2, <3>1, <3>2, <3>3
    <2> QED BY <1>1, <2>1, <2>2
  <1>4. \A i \in 1..(L - 1) : from(i) \in DOMAIN s /\ from(i) # p
    BY <1>1
  <1>5. \A i, j \in 1..(L - 1) : from(i) = from(j) => i = j
    BY <1>1
  <1>6. \A j \in DOMAIN s \ {p} : \E i \in 1..(L - 1) : from(i) = j
    <2> SUFFICES ASSUME NEW j \in DOMAIN s \ {p} PROVE \E i \in 1..(L - 1) : from(i) = j
      OBVIOUS
    <2>1. CASE j < p
      BY <1>1, <2>1
    <2>2. CASE j > p
      <3>1. j - 1 \in 1..(L - 1) /\ from(j - 1) = j
        BY <1>1, <2>2
      <3> QED BY <3>1
    <2> QED BY <1>1, <2>1, <2>2
  <1> HIDE DEF from
  <1>7. \A i, j \in DOMAIN t : t[i] = t[j] => i = j
    BY <1>2, <1>3, <1>4, <1>5
  <1>8. ASSUME NEW i \in DOMAIN t PROVE t[i] \in {s[j] : j \in DOMAIN s} \ {s[p]}
    BY <1>2, <1>3, <1>4
  <1>9. ASSUME NEW j \in DOMAIN s, s[j] # s[p] PROVE s[j] \in {t[i] : i \in DOMAIN t}
    <2>1. PICK i \in 1..(L - 1) : from(i) = j
      BY <1>6, <1>9
    <2>2. t[i] = s[j] /\ i \in DOMAIN t
      BY <1>2, <1>3, <2>1
    <2> QED BY <2>2
  <1>11. {t[i] : i \in DOMAIN t} = {s[i] : i \in DOMAIN s} \ {s[p]}
    BY <1>8, <1>9
  <1> QED BY <1>2, <1>7, <1>11 DEF t, a, b, L

-----------------------------------------------------------------------------
(* The parts of a pass. Most of them leave the keys alone.                 *)

ButtonFields == {"captured", "buttons", "suppressClick", "game"}

\* A part that changes no more than the fields given, none of them of keys.
Leaves(w, v, changed) ==
    \A f \in (WindowFields \cup {"buttons", "events"}) \ changed : v[f] = w[f]

\* What the player follows are the keys, the queue and Pause.
LEMMA FollowsStill ==
  ASSUME NEW w, NEW v, WindowOK(w), v.keys = w.keys, v.events = w.events, v.pause = w.pause
  PROVE  PlayerFollows(v)
  BY DEF WindowOK, PlayerFollows, Held

\* The mouse concerns the buttons alone.
LEMMA MouseKeeps ==
  ASSUME NEW w, WindowOK(w), NEW v,
         DOMAIN v = DOMAIN w, Leaves(w, v, ButtonFields),
         v.captured \in BOOLEAN, v.buttons \subseteq CdiButton, v.game \subseteq CdiButton
  PROVE  WindowOK(v)
  <1>1. PlayerFollows(v)
    BY FollowsStill DEF Leaves, WindowFields, ButtonFields
  <1> QED BY <1>1 DEF WindowOK, Leaves, WindowFields, ButtonFields

\* What the player is given are buttons.
LEMMA GivenKeeps ==
  ASSUME NEW w, WindowOK(w)
  PROVE  WindowOK(Given(w)) /\ Leaves(w, Given(w), {"buttons"})
  <1> DEFINE v == Given(w)
  <1>1. Leaves(w, v, {"buttons"}) /\ DOMAIN v = DOMAIN w
        /\ v.captured \in BOOLEAN /\ v.buttons \subseteq CdiButton /\ v.game \subseteq CdiButton
    BY DEF WindowOK, Given, Leaves, WindowFields
  <1> HIDE DEF v
  <1>2. WindowOK(v)
    BY <1>1, MouseKeeps DEF Leaves, ButtonFields
  <1> QED BY <1>1, <1>2 DEF v

\* Nor does capturing the mouse touch the keys.
LEMMA SetCaptureKeeps ==
  ASSUME NEW w, WindowOK(w), NEW captured \in BOOLEAN
  PROVE  WindowOK(SetCapture(w, captured)) /\ Leaves(w, SetCapture(w, captured), ButtonFields)
  <1> DEFINE v == SetCapture(w, captured)
  <1>1. Leaves(w, v, ButtonFields) /\ DOMAIN v = DOMAIN w /\ v.captured \in BOOLEAN
        /\ v.buttons \subseteq CdiButton /\ v.game \subseteq CdiButton
    BY DEF WindowOK, SetCapture, Leaves, WindowFields, ButtonFields
  <1> HIDE DEF v
  <1>2. WindowOK(v)
    BY <1>1, MouseKeeps
  <1> QED BY <1>1, <1>2 DEF v

\* Nor does giving it back.
LEMMA ReleasedCaptureKeeps ==
  ASSUME NEW w, WindowOK(w), NEW in
  PROVE  WindowOK(ReleasedCapture(w, in)) /\ Leaves(w, ReleasedCapture(w, in), ButtonFields)
  BY SetCaptureKeeps DEF ReleasedCapture, Leaves

\* Every key of the player goes up with those of the window.
LEMMA ReleaseKeeps ==
  ASSUME NEW w, WindowOK(w), guest \in GuestType
  PROVE  LET v == ReleaseGuestKeyboard(w) IN
         WindowOK(v) /\ v.keys = <<>> /\ Leaves(w, v, {"keys", "events"})
  <1> DEFINE v == ReleaseGuestKeyboard(w)
             all == w.events \o Releases(w.keys, Len(w.keys))
  <1>1. w.events \in Seq(GuestEvent) /\ w.keys \in Seq(HostKey)
        /\ Replayed(guest, w.events).keys \subseteq Code(Held(w))
        /\ Replayed(guest, w.events).pause = w.pause
    BY DEF WindowOK, PlayerFollows
  <1>2. Code(Held(w)) \subseteq {KeyCode[w.keys[i]] : i \in DOMAIN w.keys}
    BY DEF Code, Held
  <1>3. all \in Seq(GuestEvent) /\ Replayed(guest, all).keys = {} /\ Replayed(guest, all).pause = w.pause
    BY <1>1, <1>2, ReleasesApplied
  <1>4. v = [w EXCEPT !.keys = <<>>, !.events = all]
    BY DEF ReleaseGuestKeyboard, Releases
  <1> HIDE DEF v, all
  <1>5. /\ Leaves(w, v, {"keys", "events"}) /\ v.keys = <<>> /\ v.events = all
        /\ DOMAIN v = WindowFields \cup {"buttons", "events"}
    BY <1>4 DEF WindowOK, Leaves, WindowFields
  <1>6. v.pause = w.pause
    BY <1>5 DEF Leaves, WindowFields
  <1>7. PlayerFollows(v)
    BY <1>3, <1>5, <1>6 DEF PlayerFollows
  <1>8. v.keys \in Seq(HostKey) /\ DOMAIN v.keys = {}
    BY <1>5
  <1>9. WindowOK(v)
    BY <1>3, <1>5, <1>7, <1>8 DEF WindowOK, Leaves, WindowFields
  <1> QED BY <1>5, <1>9 DEF v

\* The window between the status bar and the keyboard.
Entered(w) ==
    /\ WindowOK(w)
    /\ w.suppressed = win.suppressed /\ w.padButtons \subseteq win.padButtons
    /\ Held(w) \subseteq pressedKeys \cup skipped
    /\ ~w.passthrough => w.keys = <<>>

\* Buttons and views are nothing to it.
LEMMA EnteredStill ==
  ASSUME NEW w, Entered(w), NEW v, WindowOK(v),
         Leaves(w, v, ButtonFields \cup {"library", "menu", "selection"})
  PROVE  Entered(v) /\ v.keys = w.keys
  <1>1. v.keys = w.keys /\ v.suppressed = w.suppressed /\ v.padButtons = w.padButtons
        /\ v.passthrough = w.passthrough
    BY DEF Leaves, WindowFields, ButtonFields
  <1> QED BY <1>1 DEF Entered, Held

\* What may be switched about the views without an effect on the player.
LEMMA ViewsKeep ==
  ASSUME NEW w, WindowOK(w), NEW v,
         DOMAIN v = DOMAIN w, Leaves(w, v, {"library", "menu", "selection"}),
         v.library \in BOOLEAN, v.menu \in BOOLEAN
  PROVE  WindowOK(v)
  <1>1. PlayerFollows(v)
    BY FollowsStill DEF Leaves, WindowFields
  <1> QED BY <1>1 DEF WindowOK, Leaves, WindowFields

\* The library opens with every key up.
LEMMA ToggleLibraryKeeps ==
  ASSUME NEW w, Entered(w), guest \in GuestType, w.library => w.keys = <<>>
  PROVE  LET v == ToggleLibrary(w) IN Entered(v) /\ (v.library => v.keys = <<>>)
  <1> DEFINE v == ToggleLibrary(w)
  <1>0. WindowOK(w) /\ w.library \in BOOLEAN
    BY DEF Entered, WindowOK
  <1>1. CASE w.library
    <2> DEFINE u == [w EXCEPT !.library = FALSE]
    <2>1. v = u
      BY <1>1 DEF ToggleLibrary
    <2>2. /\ DOMAIN u = DOMAIN w /\ Leaves(w, u, {"library", "menu", "selection"})
          /\ u.library \in BOOLEAN /\ u.menu \in BOOLEAN /\ ~u.library
      BY <1>0 DEF WindowOK, WindowFields, Leaves
    <2> HIDE DEF u, v
    <2>3. WindowOK(u)
      BY <1>0, <2>2, ViewsKeep
    <2>4. Entered(u)
      BY <2>2, <2>3, EnteredStill DEF Leaves
    <2> QED BY <2>1, <2>2, <2>4 DEF v
  <1>2. CASE ~w.library
    <2> DEFINE a == [w EXCEPT !.library = TRUE, !.padButtons = {}]
               r == ReleaseGuestKeyboard(a)
    <2>1. v = SetCapture(r, FALSE)
      BY <1>2 DEF ToggleLibrary
    <2>2. /\ DOMAIN a = DOMAIN w /\ Leaves(w, a, {"library", "padButtons"})
          /\ a.library /\ a.library \in BOOLEAN /\ a.padButtons = {}
      BY <1>0 DEF WindowOK, WindowFields, Leaves
    <2> HIDE DEF a, v
    <2>3. WindowOK(a)
      <3>1. PlayerFollows(a)
        BY <1>0, <2>2, FollowsStill DEF Leaves, WindowFields
      <3> QED BY <1>0, <2>2, <3>1 DEF WindowOK, Leaves, WindowFields
    <2>4. WindowOK(r) /\ r.keys = <<>> /\ Leaves(a, r, {"keys", "events"})
      BY <2>3, ReleaseKeeps
    <2> HIDE DEF r
    <2>5. WindowOK(v) /\ Leaves(r, v, ButtonFields)
      BY <2>1, <2>4, SetCaptureKeeps
    <2>6. v.keys = <<>> /\ v.suppressed = w.suppressed /\ v.padButtons = {}
      BY <2>2, <2>4, <2>5 DEF Leaves, WindowFields, ButtonFields
    <2>7. Held(v) = {}
      BY <2>6 DEF Held
    <2> QED BY <2>5, <2>6, <2>7 DEF Entered, v
  <1> QED BY <1>0, <1>1, <1>2

\* The status bar comes first in a pass.
LEMMA StatusBarKeeps ==
  ASSUME HostIInv, NEW in
  PROVE  LET s == StatusBar(in) IN Entered(s) /\ (s.library => s.keys = <<>>)
  <1> DEFINE w == ReleasedCapture(Before, in)
             s == StatusBar(in)
  <1>1. WindowOK(Before) /\ guest \in GuestType /\ DOMAIN win = WindowFields
    BY DEF HostIInv
  <1>2. \A f \in WindowFields : Before[f] = win[f]
    BY <1>1 DEF Before, WindowFields
  <1>3. Entered(Before) /\ (Before.library => Before.keys = <<>>)
    <2>1. /\ Before.keys = win.keys /\ Before.suppressed = win.suppressed /\ Before.library = win.library
          /\ Before.padButtons = win.padButtons /\ Before.passthrough = win.passthrough
      BY <1>2 DEF WindowFields
    <2> HIDE DEF Before
    <2> QED BY <1>1, <2>1 DEF Entered, HostIInv, Held
  <1>4. WindowOK(w) /\ Leaves(Before, w, ButtonFields)
    BY <1>1, ReleasedCaptureKeeps
  <1>5. Entered(w) /\ (w.library => w.keys = <<>>)
    <2>1. w.library = Before.library
      BY <1>4 DEF Leaves, WindowFields, ButtonFields
    <2>2. Leaves(Before, w, ButtonFields \cup {"library", "menu", "selection"})
      BY <1>4 DEF Leaves
    <2> HIDE DEF w
    <2> QED BY <1>3, <1>4, <2>1, <2>2, EnteredStill
  <1>6. s = IF in.clicked = "library" THEN ToggleLibrary(w) ELSE w
    BY DEF StatusBar
  <1> HIDE DEF w, s
  <1>7. Entered(s) /\ (s.library => s.keys = <<>>)
    BY <1>1, <1>5, <1>6, ToggleLibraryKeeps
  <1> QED BY <1>7 DEF s

\* The picture takes the mouse only.
LEMMA PictureKeeps ==
  ASSUME NEW w, Entered(w), NEW in \in HostInputs
  PROVE  LET v == Picture(w, in) IN Entered(v) /\ v.library = w.library
  <1> DEFINE pressed == in.mouse \ mouse
             w1 == IF Capturing(w, in) THEN [SetCapture(w, TRUE) EXCEPT !.suppressClick = TRUE] ELSE w
             kept == [w1 EXCEPT !.game = w1.game \ (mouse \ in.mouse),
                                !.suppressClick = w1.suppressClick /\ SelectButton \notin mouse \ in.mouse]
             taken == IF kept.captured
                      THEN pressed \ (IF kept.suppressClick THEN {SelectButton} ELSE {})
                      ELSE IF ~w.enabled /\ in.hover THEN pressed ELSE {}
             w2 == [kept EXCEPT !.game = kept.game \cup taken]
             v == Picture(w, in)
  <1>1. in.mouse \subseteq CdiButton
    BY DEF HostInputs
  <1>2. WindowOK(w)
    BY DEF Entered
  <1>3. v = IF in.viewing THEN w
            ELSE IF w2.captured \/ (~w.enabled /\ in.moved /\ in.hover) THEN Given(w2) ELSE w2
    BY DEF Picture
  <1>4. WindowOK(w1) /\ Leaves(w, w1, ButtonFields)
    <2> DEFINE c == SetCapture(w, TRUE)
               d == [c EXCEPT !.suppressClick = TRUE]
    <2>1. WindowOK(c) /\ Leaves(w, c, ButtonFields)
      BY <1>2, SetCaptureKeeps
    <2> HIDE DEF c
    <2>2. /\ DOMAIN d = DOMAIN c /\ Leaves(c, d, ButtonFields)
          /\ d.captured \in BOOLEAN /\ d.buttons \subseteq CdiButton /\ d.game \subseteq CdiButton
      BY <2>1 DEF WindowOK, WindowFields, Leaves, ButtonFields
    <2>3. w1 = IF Capturing(w, in) THEN d ELSE w
      BY DEF c
    <2> HIDE DEF d, w1
    <2>4. WindowOK(d)
      BY <2>1, <2>2, MouseKeeps
    <2> QED BY <1>2, <2>1, <2>2, <2>3, <2>4 DEF Leaves
  <1> HIDE DEF w1, v
  <1>5. /\ DOMAIN w2 = DOMAIN w1 /\ Leaves(w1, w2, ButtonFields)
        /\ w2.captured \in BOOLEAN /\ w2.buttons \subseteq CdiButton /\ w2.game \subseteq CdiButton
    <2>1. /\ DOMAIN kept = DOMAIN w1 /\ Leaves(w1, kept, {"game", "suppressClick"})
          /\ kept.game \subseteq CdiButton
      BY <1>4 DEF WindowOK, WindowFields, Leaves
    <2>2. taken \subseteq CdiButton
      BY <1>1
    <2> HIDE DEF kept, taken
    <2>3. DOMAIN w2 = DOMAIN kept /\ Leaves(kept, w2, {"game"}) /\ w2.game \subseteq CdiButton
      BY <1>4, <2>1, <2>2 DEF WindowOK, WindowFields, Leaves
    <2> HIDE DEF w2
    <2>4. w2.captured = w1.captured /\ w2.buttons = w1.buttons
      BY <2>1, <2>3 DEF Leaves, WindowFields
    <2> QED BY <1>4, <2>1, <2>3, <2>4 DEF WindowOK, Leaves, ButtonFields
  <1> HIDE DEF w2
  <1>6. WindowOK(w2)
    BY <1>4, <1>5, MouseKeeps
  <1>7. WindowOK(Given(w2)) /\ Leaves(w2, Given(w2), {"buttons"})
    BY <1>6, GivenKeeps
  <1>8. WindowOK(v) /\ Leaves(w, v, ButtonFields)
    BY <1>2, <1>3, <1>4, <1>5, <1>6, <1>7 DEF Leaves, ButtonFields
  <1>9. v.library = w.library /\ Leaves(w, v, ButtonFields \cup {"library", "menu", "selection"})
    BY <1>8 DEF Leaves, WindowFields, ButtonFields
  <1>10. Entered(v)
    BY <1>8, <1>9, EnteredStill
  <1> QED BY <1>9, <1>10 DEF v

\* Menu and library are opened and closed without a word to the player.
LEMMA PaintKeeps ==
  ASSUME NEW w, Entered(w), NEW in
  PROVE  Entered(PaintQuickMenu(w, in))
  <1> DEFINE v == PaintQuickMenu(w, in)
  <1>1. WindowOK(w)
    BY DEF Entered
  <1>2. /\ DOMAIN v = DOMAIN w /\ Leaves(w, v, {"library", "menu", "selection"})
        /\ v.library \in BOOLEAN /\ v.menu \in BOOLEAN
    BY <1>1 DEF WindowOK, WindowFields, Leaves, PaintQuickMenu, EnterLibrary, CloseQuickMenu
  <1> HIDE DEF v
  <1>3. WindowOK(v)
    BY <1>1, <1>2, ViewsKeep
  <1>4. Leaves(w, v, ButtonFields \cup {"library", "menu", "selection"})
    BY <1>2 DEF Leaves
  <1> QED BY <1>3, <1>4, EnteredStill DEF v

\* What is held down on the host when a pass is over.
Pressed(in) == IF in.key = NoKey THEN pressedKeys
               ELSE IF in.key.down THEN pressedKeys \cup {in.key.key}
                                   ELSE pressedKeys \ {in.key.key}

\* The keys whose release has been skipped by then, if they are still held.
Skipped(in) == IF in.key = NoKey THEN skipped
               ELSE IF in.command /\ ~in.key.down THEN skipped \cup {in.key.key}
                                                  ELSE skipped \ {in.key.key}

Accounted(in) == Pressed(in) \cup Skipped(in)

\* A key goes down or up for the window and the player alike, and where the
\* player is not looked at, all go up.
LEMMA PollGuestKeyboardKeeps ==
  ASSUME NEW w, Entered(w), guest \in GuestType, NEW in \in HostInputs
  PROVE  LET v == PollGuestKeyboard(w, in) IN
         /\ WindowOK(v) /\ Leaves(w, v, {"keys", "events"})
         /\ Held(v) \subseteq Accounted(in)
         /\ (w.library \/ w.menu) => v.keys = <<>>
  <1> DEFINE k == in.key.key
             v == PollGuestKeyboard(w, in)
             apart == ~in.focus \/ in.typing \/ in.viewing \/ w.library \/ w.menu
  <1> SUFFICES /\ WindowOK(v) /\ Leaves(w, v, {"keys", "events"})
               /\ Held(v) \subseteq Accounted(in)
               /\ apart => v.keys = <<>>
    OBVIOUS
  <1>1. WindowOK(w) /\ Held(w) \subseteq pressedKeys \cup skipped
    BY DEF Entered
  <1>2. in.key = NoKey \/ (in.key \in [key : HostKey, down : BOOLEAN])
    BY DEF HostInputs
  <1>3. /\ w.keys \in Seq(HostKey) /\ w.events \in Seq(GuestEvent) /\ PlayerFollows(w)
        /\ \A i, j \in DOMAIN w.keys : w.keys[i] = w.keys[j] => i = j
    BY <1>1 DEF WindowOK
  <1>4. CASE apart
    <2>1. v = ReleaseGuestKeyboard(w)
      BY <1>4 DEF PollGuestKeyboard
    <2> HIDE DEF v
    <2>2. WindowOK(v) /\ v.keys = <<>> /\ Leaves(w, v, {"keys", "events"})
      BY <1>1, <2>1, ReleaseKeeps
    <2>3. Held(v) = {}
      BY <2>2 DEF Held
    <2> QED BY <2>2, <2>3
  <1>5. ASSUME ~apart, ~in.command, NEW keys \in Seq(HostKey), NEW down \in BOOLEAN, k \in HostKey,
               in.key # NoKey, in.key.down = down,
               \A i, j \in DOMAIN keys : keys[i] = keys[j] => i = j,
               {keys[i] : i \in DOMAIN keys} = IF down THEN Held(w) \cup {k} ELSE Held(w) \ {k},
               v = [w EXCEPT !.keys = keys, !.events = Append(w.events, KeyEvent(k, down))]
        PROVE  WindowOK(v) /\ Leaves(w, v, {"keys", "events"}) /\ Held(v) \subseteq Accounted(in)
    <2> DEFINE e == KeyEvent(k, down)
               queue == Append(w.events, e)
    <2>1. e \in GuestEvent /\ e.kind = "key" /\ e.code = KeyCode[k] /\ e.down = down
      BY <1>5 DEF KeyEvent, GuestEvent, Code
    <2>2. /\ DOMAIN v = DOMAIN w /\ Leaves(w, v, {"keys", "events"})
          /\ v.keys = keys /\ v.events = queue /\ v.pause = w.pause
      BY <1>1, <1>5 DEF WindowOK, WindowFields, Leaves
    <2> HIDE DEF v, e, k
    <2>3. Held(v) = IF down THEN Held(w) \cup {k} ELSE Held(w) \ {k}
      BY <1>5, <2>2 DEF Held
    <2>4. Replayed(guest, queue) = Apply(Replayed(guest, w.events), e)
      BY <1>3, <2>1, ReplayedAppend
    <2>5. Replayed(guest, w.events) \in GuestType
      BY <1>3, ReplayedTyped
    <2> DEFINE g == Replayed(guest, w.events)
               h == Replayed(guest, queue)
    <2>6. g.keys \subseteq Code(Held(w)) /\ g.pause = w.pause
      BY <1>3 DEF PlayerFollows
    <2>7. /\ h.pause = g.pause
          /\ h.keys = IF down THEN g.keys \cup {KeyCode[k]} ELSE g.keys \ {KeyCode[k]}
      BY <2>1, <2>4, <2>5 DEF Apply, GuestType
    <2>8. h.keys \subseteq Code(Held(v))
      <3>1. CASE down
        BY <2>3, <2>6, <2>7, <3>1 DEF Code
      <3>2. CASE ~down
        BY <2>3, <2>6, <2>7, <3>2 DEF Code
      <3> QED BY <3>1, <3>2
    <2>9. queue \in Seq(GuestEvent)
      BY <1>3, <2>1
    <2> HIDE DEF queue
    <2>10. PlayerFollows(v)
      BY <2>2, <2>6, <2>7, <2>8 DEF PlayerFollows
    <2>11. WindowOK(v)
      BY <1>1, <1>5, <2>2, <2>9, <2>10 DEF WindowOK, Leaves, WindowFields
    <2>12. Held(v) \subseteq Accounted(in)
      BY <1>1, <1>5, <2>3 DEF Accounted, Pressed, Skipped, k
    <2> QED BY <2>2, <2>11, <2>12
  <1>6. CASE ~apart /\ ~in.command /\ in.key # NoKey /\ in.key.down /\ k \notin Held(w)
    <2> DEFINE keys == Append(w.keys, k)
    <2>1. k \in HostKey /\ in.key.down = TRUE
      BY <1>2, <1>6
    <2>2. v = [w EXCEPT !.keys = keys, !.events = Append(w.events, KeyEvent(k, TRUE))]
      BY <1>6 DEF PollGuestKeyboard
    <2> HIDE DEF v, k
    <2>3. /\ keys \in Seq(HostKey) /\ DOMAIN keys = 1..(Len(w.keys) + 1)
          /\ keys[Len(w.keys) + 1] = k
          /\ \A i \in 1..Len(w.keys) : keys[i] = w.keys[i]
      BY <1>3, <2>1
    <2> HIDE DEF keys
    <2>4. \A i \in 1..Len(w.keys) : w.keys[i] # k
      BY <1>3, <1>6 DEF Held
    <2>5. \A i, j \in DOMAIN keys : keys[i] = keys[j] => i = j
      BY <1>3, <2>3, <2>4
    <2>6. {keys[i] : i \in DOMAIN keys} = Held(w) \cup {k}
      <3>1. DOMAIN w.keys = 1..Len(w.keys) /\ Len(w.keys) \in Nat
        BY <1>3
      <3>2. ASSUME NEW i \in DOMAIN keys PROVE keys[i] \in Held(w) \cup {k}
        BY <2>3, <3>1 DEF Held
      <3>3. ASSUME NEW i \in DOMAIN w.keys PROVE w.keys[i] \in {keys[j] : j \in DOMAIN keys}
        BY <2>3, <3>1
      <3>4. k \in {keys[j] : j \in DOMAIN keys}
        BY <2>3, <3>1
      <3> QED BY <3>2, <3>3, <3>4 DEF Held
    <2>7. WindowOK(v) /\ Leaves(w, v, {"keys", "events"}) /\ Held(v) \subseteq Accounted(in)
      BY <1>5, <1>6, <2>1, <2>2, <2>3, <2>5, <2>6
    <2> QED BY <1>6, <2>7
  <1>7. CASE ~apart /\ ~in.command /\ in.key # NoKey /\ ~in.key.down /\ k \in Held(w)
    <2> DEFINE p == Position(w, k)
               keys == SubSeq(w.keys, 1, p - 1) \o SubSeq(w.keys, p + 1, Len(w.keys))
    <2>1. k \in HostKey /\ in.key.down = FALSE
      BY <1>2, <1>7
    <2>2. v = [w EXCEPT !.keys = keys, !.events = Append(w.events, KeyEvent(k, FALSE))]
      BY <1>7 DEF PollGuestKeyboard
    <2> HIDE DEF v, k
    <2>3. p \in DOMAIN w.keys /\ w.keys[p] = k
      <3>1. \E i \in DOMAIN w.keys : w.keys[i] = k
        BY <1>7 DEF Held
      <3> QED BY <3>1 DEF Position
    <2> HIDE DEF p
    <2>4. /\ keys \in Seq(HostKey)
          /\ \A i, j \in DOMAIN keys : keys[i] = keys[j] => i = j
          /\ {keys[i] : i \in DOMAIN keys} = {w.keys[i] : i \in DOMAIN w.keys} \ {w.keys[p]}
      BY <1>3, <2>3, Without
    <2> HIDE DEF keys
    <2>5. {keys[i] : i \in DOMAIN keys} = Held(w) \ {k}
      BY <2>3, <2>4 DEF Held
    <2>6. WindowOK(v) /\ Leaves(w, v, {"keys", "events"}) /\ Held(v) \subseteq Accounted(in)
      BY <1>5, <1>7, <2>1, <2>2, <2>4, <2>5
    <2> QED BY <1>7, <2>6
  <1>8. CASE ~apart /\ ~(~in.command /\ in.key # NoKey /\ in.key.down /\ k \notin Held(w))
             /\ ~(~in.command /\ in.key # NoKey /\ ~in.key.down /\ k \in Held(w))
    <2>1. v = w
      BY <1>8 DEF PollGuestKeyboard
    <2>2. Held(w) \subseteq Accounted(in)
      <3>1. CASE in.key = NoKey
        BY <1>1, <3>1 DEF Accounted, Pressed, Skipped
      <3>2. CASE in.key # NoKey /\ in.command
        BY <1>1, <3>2 DEF Accounted, Pressed, Skipped
      <3>3. CASE in.key # NoKey /\ ~in.command
        BY <1>1, <1>8, <3>3 DEF Accounted, Pressed, Skipped
      <3> QED BY <3>1, <3>2, <3>3
    <2> HIDE DEF v
    <2> QED BY <1>1, <1>8, <2>1, <2>2 DEF Leaves
  <1> QED BY <1>4, <1>6, <1>7, <1>8

\* The window behind the keyboard: a view of the host leaves it no key.
Polled(w, in) ==
    /\ WindowOK(w)
    /\ w.suppressed = win.suppressed /\ w.padButtons \subseteq win.padButtons
    /\ Held(w) \subseteq Accounted(in)
    /\ (w.library \/ w.menu \/ ~w.passthrough) => w.keys = <<>>

\* The keyboard, whichever it is for: with a view of the host open all keys are up.
LEMMA PollKeyboardKeeps ==
  ASSUME NEW w, Entered(w), guest \in GuestType, NEW in \in HostInputs
  PROVE  Polled(PollKeyboard(w, in), in)
  <1> DEFINE v == PollKeyboard(w, in)
             Result(x) == /\ WindowOK(x) /\ Leaves(w, x, {"keys", "events", "kb", "buttons"})
                          /\ Held(x) \subseteq Accounted(in)
                          /\ (w.library \/ w.menu \/ ~w.passthrough) => x.keys = <<>>
  <1> SUFFICES Result(v)
    <2> HIDE DEF v
    <2>1. /\ v.suppressed = w.suppressed /\ v.padButtons = w.padButtons /\ v.library = w.library
          /\ v.menu = w.menu /\ v.passthrough = w.passthrough
      BY DEF Leaves, WindowFields
    <2> QED BY <2>1 DEF Polled, Entered, v
  <1>1. WindowOK(w)
    BY DEF Entered
  <1>2. {w.menu, w.passthrough} \subseteq BOOLEAN /\ w.kb \subseteq CdiButton
    BY <1>1 DEF WindowOK
  <1>3. CASE w.menu
    <2> DEFINE r == ReleaseGuestKeyboard(w)
    <2>1. v = [r EXCEPT !.kb = {}]
      BY <1>3 DEF PollKeyboard
    <2>2. WindowOK(r) /\ r.keys = <<>> /\ Leaves(w, r, {"keys", "events"})
      BY <1>1, ReleaseKeeps
    <2> HIDE DEF r, v
    <2>3. DOMAIN v = DOMAIN r /\ Leaves(r, v, {"kb"}) /\ v.kb = {}
      BY <2>1, <2>2 DEF WindowOK, WindowFields, Leaves
    <2>4. v.keys = r.keys /\ v.events = r.events /\ v.pause = r.pause
      BY <2>3 DEF Leaves, WindowFields
    <2>5. PlayerFollows(v)
      BY <2>2, <2>4, FollowsStill
    <2>6. WindowOK(v)
      BY <2>2, <2>3, <2>5 DEF WindowOK, Leaves, WindowFields
    <2>7. Held(v) = {}
      BY <2>2, <2>4 DEF Held
    <2> QED BY <2>2, <2>3, <2>4, <2>6, <2>7 DEF Leaves
  <1>4. CASE ~w.menu /\ w.passthrough
    <2> DEFINE u == PollGuestKeyboard(w, in)
    <2>1. v = IF u.kb = {} THEN u ELSE [u EXCEPT !.kb = {}, !.buttons = u.game \cup u.padButtons]
      BY <1>4 DEF PollKeyboard
    <2>2. /\ WindowOK(u) /\ Leaves(w, u, {"keys", "events"})
          /\ Held(u) \subseteq Accounted(in)
          /\ (w.library \/ w.menu) => u.keys = <<>>
      BY PollGuestKeyboardKeeps
    <2> HIDE DEF u, v
    <2>3. CASE u.kb = {}
      <3>1. v = u
        BY <2>1, <2>3
      <3> QED BY <1>4, <2>2, <3>1 DEF Leaves
    <2>4. CASE u.kb # {}
      <3>1. /\ DOMAIN v = DOMAIN u /\ Leaves(u, v, {"kb", "buttons"})
            /\ v.kb = {} /\ v.buttons = u.game \cup u.padButtons
        BY <2>1, <2>2, <2>4 DEF WindowOK, WindowFields, Leaves
      <3>2. v.keys = u.keys /\ v.events = u.events /\ v.pause = u.pause
        BY <3>1 DEF Leaves, WindowFields
      <3>3. PlayerFollows(v)
        BY <2>2, <3>2, FollowsStill
      <3>4. WindowOK(v)
        BY <2>2, <3>1, <3>3 DEF WindowOK, Leaves, WindowFields
      <3>5. Held(v) = Held(u)
        BY <3>2 DEF Held
      <3> QED BY <1>4, <2>2, <3>1, <3>2, <3>4, <3>5 DEF Leaves
    <2> QED BY <2>3, <2>4
  <1>5. CASE ~w.menu /\ ~w.passthrough
    <2> DEFINE a == [w EXCEPT !.kb = in.kb]
    <2>1. v = w \/ v = Given(a)
      BY <1>5 DEF PollKeyboard
    <2>2. w.keys = <<>>
      BY <1>5 DEF Entered
    <2>3. Result(w)
      <3>1. Held(w) = {}
        BY <2>2 DEF Held
      <3> QED BY <1>1, <2>2, <3>1 DEF Leaves
    <2>4. Result(Given(a))
      <3>1. in.kb \subseteq CdiButton
        BY DEF HostInputs
      <3>2. DOMAIN a = DOMAIN w /\ Leaves(w, a, {"kb"}) /\ a.kb = in.kb
        BY <1>1 DEF WindowOK, WindowFields, Leaves
      <3> HIDE DEF a
      <3>3. PlayerFollows(a)
        BY <1>1, <3>2, FollowsStill DEF Leaves, WindowFields
      <3>4. WindowOK(a)
        BY <1>1, <3>1, <3>2, <3>3 DEF WindowOK, Leaves, WindowFields
      <3>5. WindowOK(Given(a)) /\ Leaves(a, Given(a), {"buttons"})
        BY <3>4, GivenKeeps
      <3>6. Given(a).keys = <<>>
        BY <2>2, <3>2, <3>5 DEF Leaves, WindowFields
      <3>7. Held(Given(a)) = {}
        BY <3>6 DEF Held
      <3>8. Leaves(w, Given(a), {"keys", "events", "kb", "buttons"})
        BY <3>2, <3>5 DEF Leaves
      <3> QED BY <3>5, <3>6, <3>7, <3>8
    <2> HIDE DEF Result
    <2> QED BY <2>1, <2>3, <2>4
  <1> QED BY <1>2, <1>3, <1>4, <1>5

\* The menu's own use of the pad: it opens the library only where it was open.
LEMMA MenuPadKeeps ==
  ASSUME NEW w, WindowOK(w), NEW in
  PROVE  LET v == MenuPad(w, in) IN
         /\ WindowOK(v)
         /\ Leaves(w, v, ButtonFields \cup {"library", "menu", "selection"})
         /\ v.library => w.library \/ w.menu
  <1> DEFINE v == MenuPad(w, in)
             turned == IF in.dpad THEN [w EXCEPT !.selection = 1 - w.selection] ELSE w
             open == [w EXCEPT !.menu = TRUE, !.selection = 0, !.buttons = {}]
             Free == {"library", "menu", "selection"}
             Result(x) == WindowOK(x) /\ Leaves(w, x, ButtonFields \cup Free) /\ (x.library => w.library \/ w.menu)
  <1>0. {w.menu, w.library} \subseteq BOOLEAN
    BY DEF WindowOK
  <1>1. Result(w)
    BY DEF Leaves
  <1>2. ASSUME NEW x, DOMAIN x = DOMAIN w, Leaves(w, x, Free), x.library \in BOOLEAN, x.menu \in BOOLEAN,
               x.library => w.library \/ w.menu
        PROVE  Result(x)
    <2>1. WindowOK(x)
      BY <1>2, ViewsKeep
    <2> QED BY <1>2, <2>1 DEF Leaves
  <1>3. /\ DOMAIN turned = DOMAIN w /\ Leaves(w, turned, {"selection"})
        /\ turned.library = w.library /\ turned.menu = w.menu
    BY DEF WindowOK, WindowFields, Leaves
  <1> HIDE DEF turned
  <1>4. Result(turned)
    <2>1. Leaves(w, turned, Free)
      BY <1>3 DEF Leaves
    <2> HIDE DEF Result
    <2> QED BY <1>0, <1>2, <1>3, <2>1
  <1>5. \A x \in {w, turned} : Result(CloseQuickMenu(x))
    <2> SUFFICES ASSUME NEW x \in {w, turned} PROVE Result(CloseQuickMenu(x))
      OBVIOUS
    <2>1. DOMAIN x = DOMAIN w /\ Leaves(w, x, {"selection"}) /\ x.library = w.library
      BY <1>3 DEF Leaves
    <2> DEFINE c == CloseQuickMenu(x)
    <2>2. DOMAIN c = DOMAIN w /\ Leaves(w, c, Free) /\ c.library = w.library /\ c.menu = FALSE
      BY <2>1 DEF CloseQuickMenu, WindowOK, WindowFields, Leaves
    <2> HIDE DEF Result, c
    <2> QED BY <1>0, <1>2, <2>2 DEF c
  <1>6. w.menu => Result(EnterLibrary(turned))
    <2> SUFFICES ASSUME w.menu PROVE Result(EnterLibrary(turned))
      OBVIOUS
    <2> DEFINE c == EnterLibrary(turned)
    <2>1. DOMAIN c = DOMAIN w /\ Leaves(w, c, Free) /\ c.library = TRUE /\ c.menu = FALSE
      BY <1>3 DEF EnterLibrary, WindowOK, WindowFields, Leaves
    <2> HIDE DEF Result, c
    <2> QED BY <1>0, <1>2, <2>1 DEF c
  <1>7. Result(OpenQuickMenu(w))
    <2> DEFINE m == [w EXCEPT !.menu = TRUE, !.selection = 0]
    <2>1. /\ DOMAIN m = DOMAIN w /\ Leaves(w, m, Free) /\ m.menu = TRUE /\ m.library = w.library
      BY DEF WindowOK, WindowFields, Leaves
    <2>2. WindowOK(m)
      <3> HIDE DEF m
      <3> QED BY <1>0, <2>1, ViewsKeep
    <2>3. /\ DOMAIN open = DOMAIN m /\ Leaves(m, open, ButtonFields)
          /\ open.captured \in BOOLEAN /\ open.buttons \subseteq CdiButton /\ open.game \subseteq CdiButton
      BY DEF WindowOK, WindowFields, Leaves, ButtonFields
    <2> HIDE DEF m, open
    <2>4. WindowOK(open)
      BY <2>2, <2>3, MouseKeeps
    <2>5. WindowOK(SetCapture(open, FALSE)) /\ Leaves(open, SetCapture(open, FALSE), ButtonFields)
      BY <2>4, SetCaptureKeeps
    <2>6. OpenQuickMenu(w) = SetCapture(open, FALSE)
      BY DEF OpenQuickMenu, open
    <2>7. OpenQuickMenu(w).library = w.library
      BY <2>1, <2>3, <2>5, <2>6 DEF Leaves, WindowFields, ButtonFields
    <2> QED BY <2>1, <2>3, <2>5, <2>6, <2>7 DEF Leaves
  <1>8. v \in {w, turned} \/ v = OpenQuickMenu(w) \/ (w.menu /\ v = EnterLibrary(turned))
        \/ \E x \in {w, turned} : v = CloseQuickMenu(x)
    BY DEF MenuPad, turned
  <1> HIDE DEF Result, v
  <1>9. Result(v)
    BY <1>1, <1>4, <1>5, <1>6, <1>7, <1>8
  <1> QED BY <1>9 DEF Result, v

-----------------------------------------------------------------------------
(* The passes and the frames.                                              *)

\* The window when a pass is over.
PassDone(v, in) ==
    /\ WindowOK(v)
    /\ Held(v) \subseteq Accounted(in)
    /\ (v.library \/ ~v.passthrough) => v.keys = <<>>

\* A button that the menu used is kept from the player until it is released.
LEMMA PollGamepadKeeps ==
  ASSUME HostIInv, NEW in \in HostInputs, NEW w, Polled(w, in)
  PROVE  LET v == PollGamepad(w, in) IN
         /\ PassDone(v, in)
         /\ v.suppressed = IF MenuConsumes(w, in) THEN win.suppressed \cup in.pad
                                                  ELSE win.suppressed \cap in.pad
         /\ v.padButtons \cap v.suppressed = {}
  <1> DEFINE stopped == IF in.start = w.pause THEN w
                       ELSE [w EXCEPT !.pause = in.start, !.events = Append(w.events, PauseEvent(in.start))]
             m == MenuPad(stopped, in)
             held == [m EXCEPT !.suppressed = Suppressed(stopped, in)]
             free == in.pad \ held.suppressed
             consumed == [held EXCEPT !.padButtons = {}, !.buttons = {}]
             taken == [held EXCEPT !.padButtons = free]
             v == PollGamepad(w, in)
             S == IF MenuConsumes(w, in) THEN win.suppressed \cup in.pad ELSE win.suppressed \cap in.pad
  <1>1. WindowOK(w) /\ guest \in GuestType /\ in.pad \subseteq CdiButton /\ in.start \in BOOLEAN
    BY DEF Polled, HostIInv, HostInputs
  <1>2. /\ WindowOK(stopped) /\ Leaves(w, stopped, {"pause", "events"})
    <2>1. CASE in.start = w.pause
      <3>1. stopped = w
        BY <2>1
      <3> QED BY <1>1, <3>1 DEF Leaves
    <2>2. CASE in.start # w.pause
      <3> DEFINE e == PauseEvent(in.start)
                 queue == Append(w.events, e)
      <3>1. /\ DOMAIN stopped = DOMAIN w /\ Leaves(w, stopped, {"pause", "events"})
            /\ stopped.events = queue /\ stopped.pause = in.start /\ stopped.keys = w.keys
        BY <1>1, <2>2 DEF WindowOK, WindowFields, Leaves
      <3>2. e \in GuestEvent /\ e.kind = "pause" /\ e.down = in.start
        BY <1>1 DEF PauseEvent, GuestEvent
      <3>3. w.events \in Seq(GuestEvent) /\ PlayerFollows(w)
        BY <1>1 DEF WindowOK
      <3> HIDE DEF stopped, e
      <3>4. Replayed(guest, queue) = Apply(Replayed(guest, w.events), e)
        BY <3>2, <3>3, ReplayedAppend
      <3>5. Replayed(guest, w.events) \in GuestType
        BY <1>1, <3>3, ReplayedTyped
      <3>6. Replayed(guest, queue).pause = in.start
            /\ Replayed(guest, queue).keys = Replayed(guest, w.events).keys
        BY <3>2, <3>4, <3>5 DEF Apply, GuestType
      <3>7. queue \in Seq(GuestEvent)
        BY <3>2, <3>3
      <3> HIDE DEF queue
      <3>8. PlayerFollows(stopped)
        BY <3>1, <3>3, <3>6 DEF PlayerFollows, Held
      <3>9. WindowOK(stopped)
        BY <1>1, <3>1, <3>7, <3>8 DEF WindowOK, Leaves, WindowFields
      <3> QED BY <3>1, <3>9
    <2> QED BY <2>1, <2>2
  <1>3. /\ stopped.library = w.library /\ stopped.menu = w.menu /\ stopped.suppressed = w.suppressed
        /\ stopped.padButtons = w.padButtons /\ stopped.keys = w.keys /\ stopped.passthrough = w.passthrough
    BY <1>2 DEF Leaves, WindowFields
  <1> HIDE DEF stopped
  <1>4. (MenuConsumes(stopped, in) <=> MenuConsumes(w, in)) /\ Suppressed(stopped, in) = S
    BY <1>3 DEF MenuConsumes, Suppressed, Polled
  <1>5. /\ WindowOK(m) /\ Leaves(stopped, m, ButtonFields \cup {"library", "menu", "selection"})
        /\ m.library => w.library \/ w.menu
    BY <1>2, <1>3, MenuPadKeeps
  <1>6. m.keys = w.keys /\ m.passthrough = w.passthrough /\ m.padButtons = w.padButtons
    BY <1>3, <1>5 DEF Leaves, WindowFields, ButtonFields
  <1>7. win.suppressed \subseteq CdiButton /\ S \subseteq CdiButton
    <2>1. w.suppressed \subseteq CdiButton
      BY <1>1 DEF WindowOK
    <2> QED BY <1>1, <2>1 DEF Polled
  <1> HIDE DEF m, S
  \* What is behind the menu concerns the buttons of the pad alone.
  <1> DEFINE Pad == {"suppressed", "padButtons", "buttons"}
  <1>8. ASSUME NEW x, DOMAIN x = DOMAIN m, Leaves(m, x, Pad), x.suppressed \subseteq CdiButton,
               x.padButtons \subseteq CdiButton, x.buttons \subseteq CdiButton
        PROVE  PassDone(x, in)
    <2>1. PlayerFollows(x)
      BY <1>5, <1>8, FollowsStill DEF Leaves, WindowFields
    <2>2. WindowOK(x)
      BY <1>5, <1>8, <2>1 DEF WindowOK, Leaves, WindowFields
    <2>3. x.keys = w.keys /\ x.library = m.library /\ x.passthrough = w.passthrough
      BY <1>6, <1>8 DEF Leaves, WindowFields
    <2>4. Held(x) = Held(w)
      BY <2>3 DEF Held
    <2> QED BY <1>5, <2>2, <2>3, <2>4 DEF PassDone, Polled
  <1>9. held = [m EXCEPT !.suppressed = S]
    BY <1>4
  <1>10. /\ DOMAIN held = DOMAIN m /\ Leaves(m, held, {"suppressed"}) /\ held.suppressed = S
         /\ held.padButtons = w.padButtons /\ held.padButtons \subseteq CdiButton
         /\ held.game \subseteq CdiButton /\ held.kb \subseteq CdiButton /\ held.buttons \subseteq CdiButton
    BY <1>5, <1>6, <1>9 DEF WindowOK, WindowFields, Leaves
  <1> HIDE DEF held
  <1>11. v = IF MenuConsumes(w, in) THEN consumed
             ELSE IF free = w.padButtons /\ ~in.dpad THEN held ELSE Given(taken)
    BY <1>3, <1>4 DEF PollGamepad, held, m, stopped
  <1> HIDE DEF v
  <1>12. CASE MenuConsumes(w, in)
    <2>1. /\ DOMAIN consumed = DOMAIN m /\ Leaves(m, consumed, Pad) /\ consumed.suppressed = S
          /\ consumed.padButtons = {} /\ consumed.buttons = {}
      BY <1>5, <1>10 DEF WindowOK, WindowFields, Leaves
    <2> HIDE DEF consumed, Pad
    <2>2. PassDone(consumed, in)
      BY <1>7, <1>8, <2>1
    <2> QED BY <1>11, <1>12, <2>1, <2>2 DEF S, v
  <1>13. CASE ~MenuConsumes(w, in) /\ free = w.padButtons /\ ~in.dpad
    <2>1. v = held
      BY <1>11, <1>13
    <2>2. PassDone(held, in)
      <3>1. Leaves(m, held, Pad)
        BY <1>10 DEF Leaves
      <3> HIDE DEF Pad
      <3> QED BY <1>7, <1>8, <1>10, <3>1
    <2>3. held.padButtons \cap held.suppressed = {}
      BY <1>10, <1>13
    <2> QED BY <1>10, <1>13, <2>1, <2>2, <2>3 DEF S, v
  <1>14. CASE ~MenuConsumes(w, in) /\ ~(free = w.padButtons /\ ~in.dpad)
    <2> DEFINE x == Given(taken)
    <2>1. v = x
      BY <1>11, <1>14
    <2>2. /\ DOMAIN x = DOMAIN m /\ Leaves(m, x, Pad) /\ x.suppressed = S /\ x.padButtons = free
          /\ x.buttons \subseteq CdiButton
      BY <1>1, <1>5, <1>10 DEF WindowOK, WindowFields, Leaves, Given
    <2>3. free \subseteq CdiButton /\ free \cap S = {}
      BY <1>1, <1>10
    <2> HIDE DEF x, Pad, free
    <2>4. PassDone(x, in)
      BY <1>7, <1>8, <2>2, <2>3
    <2> QED BY <1>14, <2>1, <2>2, <2>3, <2>4 DEF S, v
  <1> QED BY <1>12, <1>13, <1>14

\* While the library is open the player has no key and no pad.
LEMMA PollLibraryKeeps ==
  ASSUME HostIInv, NEW in \in HostInputs, NEW w, Entered(w), w.keys = <<>>
  PROVE  LET v == PollLibrary(w, in) IN
         PassDone(v, in) /\ v.suppressed = win.suppressed /\ v.padButtons = {}
  <1> DEFINE v == PollLibrary(w, in)
  <1>1. WindowOK(w) /\ w.suppressed = win.suppressed
    BY DEF Entered
  <1>2. /\ DOMAIN v = DOMAIN w /\ Leaves(w, v, {"padButtons", "library"})
        /\ v.padButtons = {} /\ v.library \in BOOLEAN
    BY <1>1 DEF WindowOK, WindowFields, Leaves, PollLibrary
  <1> HIDE DEF v
  <1>3. v.keys = <<>> /\ v.suppressed = w.suppressed
    BY <1>2 DEF Leaves, WindowFields
  <1>4. PlayerFollows(v)
    BY <1>1, <1>2, FollowsStill DEF Leaves, WindowFields
  <1>5. WindowOK(v)
    BY <1>1, <1>2, <1>4 DEF WindowOK, Leaves, WindowFields
  <1>6. Held(v) = {}
    BY <1>3 DEF Held
  <1>7. PassDone(v, in)
    BY <1>3, <1>5, <1>6 DEF PassDone
  <1> QED BY <1>1, <1>2, <1>3, <1>7 DEF v

\* The window that is kept between passes is the one a pass ends with.
LEMMA KeptWindow ==
  ASSUME NEW v, WindowOK(v), DOMAIN win = WindowFields,
         win' = [f \in DOMAIN win |-> v[f]], buttons' = v.buttons, events' = v.events,
         guest' = guest
  PROVE  WindowOK(Before)'
  <1> DEFINE b == Before'
  <1>1. b = [f \in DOMAIN win' \cup {"buttons", "events"} |->
               IF f = "buttons" THEN buttons' ELSE IF f = "events" THEN events' ELSE win'[f]]
    BY DEF Before
  <1>2. DOMAIN b = WindowFields \cup {"buttons", "events"} /\ Leaves(v, b, {})
    BY <1>1 DEF WindowFields, Leaves
  <1> HIDE DEF b
  <1>4. PlayerFollows(b)
    BY <1>2, FollowsStill DEF Leaves, WindowFields
  <1>5. WindowOK(b)
    BY <1>2, <1>4 DEF WindowOK, Leaves, WindowFields
  <1> QED BY <1>5 DEF b, WindowOK, PlayerFollows, Held

\* One pass of the window.
LEMMA LookKeeps ==
  ASSUME HostIInv, NEW in \in HostInputs, Look(in)
  PROVE  HostIInv'
  <1> DEFINE v == Pass(in)
             s == StatusBar(in)
             b == BeforePad(in)
             used == IF ~s.library /\ MenuConsumes(b, in) THEN in.pad ELSE {}
  <1>1. /\ win' = [f \in DOMAIN win |-> v[f]] /\ buttons' = v.buttons /\ events' = v.events
        /\ guest' = guest /\ pressedKeys' = Pressed(in) /\ skipped' = Held(v) \cap Skipped(in)
        /\ usedInMenu' = (usedInMenu \cap StillHeld(in)) \cup used
    BY DEF Look, Pressed, Skipped
  <1>2. /\ guest \in GuestType /\ DOMAIN win = WindowFields
        /\ usedInMenu \subseteq win.suppressed
    BY DEF HostIInv
  <1>3. Entered(s) /\ (s.library => s.keys = <<>>)
    BY StatusBarKeeps
  <1>4. /\ PassDone(v, in)
        /\ (usedInMenu \cap StillHeld(in)) \cup used \subseteq v.suppressed
        /\ v.padButtons \cap v.suppressed = {}
    <2>1. CASE s.library
      <3>1. v = PollLibrary(s, in)
        BY <2>1 DEF Pass
      <3> HIDE DEF s, v, b
      <3>2. PassDone(v, in) /\ v.suppressed = win.suppressed /\ v.padButtons = {}
        BY <1>3, <2>1, <3>1, PollLibraryKeeps
      <3> QED BY <1>2, <2>1, <3>2
    <2>2. CASE ~s.library
      <3>1. v = PollGamepad(b, in)
        BY <2>2 DEF Pass
      <3>2. b = PollKeyboard(PaintQuickMenu(Picture(s, in), in), in)
        BY DEF BeforePad
      <3> HIDE DEF s, v, b
      <3>3. Entered(Picture(s, in))
        BY <1>3, PictureKeeps
      <3>4. Entered(PaintQuickMenu(Picture(s, in), in))
        BY <3>3, PaintKeeps
      <3>5. Polled(b, in)
        BY <1>2, <3>2, <3>4, PollKeyboardKeeps
      <3>6. /\ PassDone(v, in)
            /\ v.suppressed = IF MenuConsumes(b, in) THEN win.suppressed \cup in.pad
                                                     ELSE win.suppressed \cap in.pad
            /\ v.padButtons \cap v.suppressed = {}
        BY <3>1, <3>5, PollGamepadKeeps
      <3>7. StillHeld(in) \subseteq in.pad
        BY DEF StillHeld
      <3> QED BY <1>2, <3>6, <3>7
    <2> QED BY <2>1, <2>2
  <1> HIDE DEF v, s, b, used
  <1>5. WindowOK(v)
    BY <1>4 DEF PassDone
  <1>6. WindowOK(Before)'
    BY <1>1, <1>2, <1>5, KeptWindow
  <1>7. /\ DOMAIN win' = WindowFields /\ win'.keys = v.keys /\ win'.suppressed = v.suppressed
        /\ win'.padButtons = v.padButtons /\ win'.library = v.library
        /\ win'.passthrough = v.passthrough
    BY <1>1, <1>2 DEF WindowFields
  <1>8. Held(win)' = Held(v)
    BY <1>7 DEF Held
  <1>9. Held(win)' \subseteq (pressedKeys \cup skipped)' /\ skipped' \subseteq Held(win)'
    BY <1>1, <1>4, <1>8 DEF PassDone, Accounted
  <1> QED BY <1>1, <1>2, <1>4, <1>6, <1>7, <1>9 DEF HostIInv, PassDone

\* The keyboard changes hands with every key up.
LEMMA TogglePassthroughKeeps ==
  ASSUME HostIInv, TogglePassthrough
  PROVE  HostIInv'
  <1> DEFINE r == ReleaseGuestKeyboard(Before)
             v == [r EXCEPT !.passthrough = ~win.passthrough]
  <1>1. WindowOK(Before) /\ guest \in GuestType /\ DOMAIN win = WindowFields
    BY DEF HostIInv
  <1>2. \A f \in WindowFields : Before[f] = win[f]
    BY <1>1 DEF Before, WindowFields
  <1>3. Before.buttons = buttons
    BY DEF Before
  <1>4. WindowOK(r) /\ r.keys = <<>> /\ Leaves(Before, r, {"keys", "events"})
    BY <1>1, ReleaseKeeps
  <1>5. /\ win' = [f \in DOMAIN win |-> IF f = "passthrough" THEN ~win.passthrough ELSE r[f]]
        /\ events' = r.events
        /\ UNCHANGED <<buttons, guest, pressedKeys, usedInMenu>> /\ skipped' = {}
    BY DEF TogglePassthrough
  <1> HIDE DEF r
  <1>6. /\ DOMAIN v = DOMAIN r /\ Leaves(r, v, {"passthrough"}) /\ v.passthrough \in BOOLEAN
    BY <1>4 DEF WindowOK, WindowFields, Leaves
  <1>7. WindowOK(v)
    <2> HIDE DEF v
    <2>1. PlayerFollows(v)
      BY <1>4, <1>6, FollowsStill DEF Leaves, WindowFields
    <2> QED BY <1>4, <1>6, <2>1 DEF WindowOK, Leaves, WindowFields
  <1>8. win' = [f \in DOMAIN win |-> v[f]]
    BY <1>1, <1>4, <1>5 DEF WindowOK
  <1>9. buttons' = v.buttons /\ events' = v.events
    BY <1>3, <1>4, <1>5, <1>6 DEF Leaves, WindowFields
  <1> HIDE DEF v
  <1>10. WindowOK(Before)'
    BY <1>1, <1>5, <1>7, <1>8, <1>9, KeptWindow
  <1>11. v.keys = <<>> /\ v.suppressed = win.suppressed /\ v.padButtons = win.padButtons
    BY <1>2, <1>4, <1>6 DEF Leaves, WindowFields
  <1>12. DOMAIN win' = WindowFields /\ win'.keys = <<>> /\ win'.suppressed = win.suppressed
         /\ win'.padButtons = win.padButtons
    BY <1>1, <1>8, <1>11 DEF WindowFields
  <1>13. Held(win)' = {}
    BY <1>12 DEF Held
  <1> QED BY <1>1, <1>5, <1>10, <1>12, <1>13 DEF HostIInv

\* A setting of the mouse.
LEMMA ToggleCaptureKeeps ==
  ASSUME HostIInv, ToggleCapture
  PROVE  HostIInv'
  <1> DEFINE v == [Before EXCEPT !.enabled = ~win.enabled]
  <1>1. WindowOK(Before) /\ guest \in GuestType /\ DOMAIN win = WindowFields
    BY DEF HostIInv
  <1>2. /\ \A f \in WindowFields : Before[f] = win[f]
        /\ Before.buttons = buttons /\ Before.events = events
    BY <1>1 DEF Before, WindowFields
  <1>3. /\ win' = [win EXCEPT !.enabled = ~win.enabled]
        /\ UNCHANGED <<buttons, events, guest, pressedKeys, skipped, usedInMenu>>
    BY DEF ToggleCapture
  <1> HIDE DEF Before
  <1>4. DOMAIN v = DOMAIN Before /\ Leaves(Before, v, {"enabled"}) /\ v.enabled \in BOOLEAN
        /\ v.enabled = ~win.enabled
    BY <1>1 DEF WindowOK, WindowFields, Leaves
  <1> HIDE DEF v
  <1>5. WindowOK(v)
    <2>1. PlayerFollows(v)
      BY <1>1, <1>4, FollowsStill DEF Leaves, WindowFields
    <2> QED BY <1>1, <1>4, <2>1 DEF WindowOK, Leaves, WindowFields
  <1>6. win' = [f \in DOMAIN win |-> v[f]]
    BY <1>1, <1>2, <1>3, <1>4 DEF Leaves, WindowFields
  <1>7. buttons' = v.buttons /\ events' = v.events
    BY <1>2, <1>3, <1>4 DEF Leaves, WindowFields
  <1>8. WindowOK(Before)'
    BY <1>1, <1>3, <1>5, <1>6, <1>7, KeptWindow
  <1>9. DOMAIN win' = WindowFields /\ win'.keys = win.keys /\ win'.suppressed = win.suppressed
        /\ win'.padButtons = win.padButtons /\ win'.library = win.library
        /\ win'.passthrough = win.passthrough
    BY <1>1, <1>3 DEF WindowFields
  <1>10. Held(win)' = Held(win)
    BY <1>9 DEF Held
  <1> QED BY <1>1, <1>3, <1>8, <1>9, <1>10 DEF HostIInv

\* The emulation thread empties the queue into the player.
LEMMA EmulateFrameKeeps ==
  ASSUME HostIInv, EmulateFrame
  PROVE  HostIInv'
  <1> DEFINE g == Replayed(guest, events)
             b == Before'
  <1>1. WindowOK(Before) /\ guest \in GuestType /\ DOMAIN win = WindowFields
    BY DEF HostIInv
  <1>2. /\ \A f \in WindowFields : Before[f] = win[f]
        /\ Before.buttons = buttons /\ Before.events = events
    BY <1>1 DEF Before, WindowFields
  <1>3. events \in Seq(GuestEvent) /\ PlayerFollows(Before) /\ buttons \subseteq CdiButton
    BY <1>1, <1>2 DEF WindowOK
  <1>4. g \in GuestType
    BY <1>1, <1>3, ReplayedTyped
  <1>5. /\ guest' = [g EXCEPT !.buttons = buttons] /\ events' = <<>>
        /\ UNCHANGED <<win, buttons, pressedKeys, skipped, usedInMenu>>
    BY DEF EmulateFrame
  <1>6. g.keys \subseteq Code(Held(Before)) /\ g.pause = Before.pause
    BY <1>2, <1>3 DEF PlayerFollows
  <1> HIDE DEF g
  <1>7. guest' \in GuestType /\ guest'.keys = g.keys /\ guest'.pause = g.pause
    BY <1>3, <1>4, <1>5 DEF GuestType
  <1>8. DOMAIN b = DOMAIN Before /\ Leaves(Before, b, {"events"}) /\ b.events = <<>>
    BY <1>1, <1>5 DEF Before, WindowFields, Leaves
  <1> HIDE DEF b, Before
  <1>9. b.keys = Before.keys /\ b.pause = Before.pause
    BY <1>8 DEF Leaves, WindowFields
  <1>10. Replayed(guest', b.events) = guest'
    BY <1>8, ReplayedNothing
  <1>11. /\ Replayed(guest', b.events).keys \subseteq Code(Held(b))
         /\ Replayed(guest', b.events).pause = b.pause
    BY <1>6, <1>7, <1>9, <1>10 DEF Held
  <1>12. b.events \in Seq(GuestEvent)
    BY <1>8
  <1>13. WindowOK(Before)'
    <2>1. /\ DOMAIN b = WindowFields \cup {"buttons", "events"}
          /\ b.buttons \subseteq CdiButton /\ b.game \subseteq CdiButton /\ b.padButtons \subseteq CdiButton
          /\ b.kb \subseteq CdiButton /\ b.suppressed \subseteq CdiButton
          /\ {b.library, b.menu, b.captured, b.enabled, b.pause, b.passthrough} \subseteq BOOLEAN
          /\ b.keys \in Seq(HostKey)
          /\ \A i, j \in DOMAIN b.keys : b.keys[i] = b.keys[j] => i = j
      BY <1>1, <1>8 DEF WindowOK, Leaves, WindowFields
    <2> QED BY <1>11, <1>12, <2>1 DEF b, WindowOK, PlayerFollows, Held
  <1> QED BY <1>1, <1>5, <1>7, <1>13 DEF HostIInv, Held

\* It starts with nothing held.
LEMMA HostStarts == HostInit => HostIInv
  <1> SUFFICES ASSUME HostInit PROVE HostIInv
    OBVIOUS
  <1>1. /\ DOMAIN win = WindowFields /\ win.keys = <<>> /\ buttons = {} /\ events = <<>>
        /\ {win.game, win.padButtons, win.suppressed, win.kb} = {{}} /\ usedInMenu = {} /\ skipped = {}
        /\ {win.library, win.menu, win.captured, win.enabled, win.pause, win.passthrough} \subseteq BOOLEAN
        /\ guest = [buttons |-> {}, keys |-> {}, pause |-> FALSE] /\ win.pause = FALSE
    BY DEF HostInit, WindowFields
  <1>2. guest \in GuestType /\ guest.keys = {} /\ guest.pause = FALSE
    BY <1>1 DEF GuestType
  <1>3. /\ DOMAIN Before = WindowFields \cup {"buttons", "events"}
        /\ Before.buttons = {} /\ Before.events = <<>>
        /\ \A f \in WindowFields : Before[f] = win[f]
    BY <1>1 DEF Before, WindowFields
  <1> HIDE DEF Before
  <1>4. Replayed(guest, Before.events) = guest
    BY <1>3, ReplayedNothing
  <1>5. PlayerFollows(Before)
    BY <1>1, <1>2, <1>3, <1>4 DEF PlayerFollows, WindowFields
  <1>6. Before.keys = <<>> /\ <<>> \in Seq(HostKey) /\ <<>> \in Seq(GuestEvent) /\ DOMAIN <<>> = {}
    BY <1>1, <1>3 DEF WindowFields
  <1>7. WindowOK(Before)
    BY <1>1, <1>3, <1>5, <1>6 DEF WindowOK, WindowFields
  <1> QED BY <1>1, <1>2, <1>7 DEF HostIInv, Held

\* The host's input, for all buttons, keys and key codes, and any number of
\* passes and frames: no key stays down in the player that is up on the host, but
\* for keys let go of while Command was down, and no key at all in the library or
\* without the passthrough; a press the menu used is not given to the player
\* (main.rs:3778, 3832, 4001).
THEOREM HostInvariant == HostSpec => []HostInv
  <1>1. HostInit => HostIInv
    BY HostStarts
  <1>2. HostIInv /\ [HostNext]_hostVars => HostIInv'
    <2> SUFFICES ASSUME HostIInv, [HostNext]_hostVars PROVE HostIInv'
      OBVIOUS
    <2>1. ASSUME NEW in \in HostInputs, Look(in) PROVE HostIInv'
      BY <2>1, LookKeeps
    <2>2. CASE TogglePassthrough
      BY <2>2, TogglePassthroughKeeps
    <2>3. CASE ToggleCapture
      BY <2>3, ToggleCaptureKeeps
    <2>4. CASE EmulateFrame
      BY <2>4, EmulateFrameKeeps
    <2>5. CASE UNCHANGED hostVars
      <3>1. UNCHANGED <<win, buttons, events, guest, pressedKeys, skipped, usedInMenu>>
        BY <2>5 DEF hostVars
      <3>2. Before' = Before
        BY <3>1 DEF Before
      <3> HIDE DEF Before
      <3>3. WindowOK(Before)'
        BY <3>1, <3>2 DEF HostIInv, WindowOK, PlayerFollows, Held
      <3> QED BY <3>1, <3>3 DEF HostIInv, Held
    <2> QED BY <2>1, <2>2, <2>3, <2>4, <2>5 DEF HostNext
  <1>3. HostIInv => HostInv
    <2> SUFFICES ASSUME HostIInv PROVE HostInv
      OBVIOUS
    <2>1. /\ WindowOK(Before) /\ guest \in GuestType /\ DOMAIN win = WindowFields
          /\ Held(win) \subseteq pressedKeys \cup skipped /\ skipped \subseteq Held(win)
          /\ (win.library \/ ~win.passthrough) => win.keys = <<>>
          /\ usedInMenu \subseteq win.suppressed /\ win.padButtons \cap win.suppressed = {}
      BY DEF HostIInv
    <2>2. /\ \A f \in WindowFields : Before[f] = win[f]
          /\ Before.buttons = buttons /\ Before.events = events
      BY <2>1 DEF Before, WindowFields
    <2>3. Before.keys = win.keys /\ Before.pause = win.pause
      BY <2>2 DEF WindowFields
    <2> HIDE DEF Before
    <2>4. HostTypeOK
      <3>1. Held(win) \subseteq HostKey
        BY <2>1, <2>3 DEF WindowOK, Held
      <3>2. guest.keys \subseteq Code(HostKey)
        BY <2>1 DEF GuestType
      <3> QED BY <2>1, <2>2, <3>1, <3>2 DEF HostTypeOK, WindowOK, WindowFields
    <2>5. NoStuckKey
      BY <2>1, <2>2, <2>3 DEF NoStuckKey, WindowOK, PlayerFollows, Held
    <2>6. MenuPressStaysWithHost
      BY <2>1 DEF MenuPressStaysWithHost
    <2> QED BY <2>4, <2>5, <2>6 DEF HostInv
  <1> QED BY <1>1, <1>2, <1>3, PTL DEF HostSpec

-----------------------------------------------------------------------------
(* The library.                                                            *)

FoldersOK ==
    /\ onDisk \in [Format -> SUBSET Title] /\ configured \in [Format -> BOOLEAN]
    /\ \A f \in Format : IsFiniteSet(onDisk[f])

IsListing(list) == list \in [Format -> Seq(Title)] /\ \A f \in Format : Increasing(list[f])

\* The cursor `c` among the lists.
IsPlaced(c, list) ==
    /\ c.tab \in Format /\ c.focus \in {c.tab, OpenFocus} /\ c.selection \in Nat
    /\ list[c.tab] # <<>> => c.selection < Len(list[c.tab])

Cursor == [tab |-> tab, focus |-> focus, selection |-> selection]

LibraryInv == FoldersOK /\ IsListing(entries) /\ IsPlaced(Cursor, entries)

\* What is scanned lists each folder in order.
LEMMA ScannedIs ==
    ASSUME FoldersOK
    PROVE  IsListing(Scanned)
<1> USE LibraryAssumption
<1>1. ASSUME NEW f \in Format PROVE Scanned[f] \in Seq(Title) /\ Increasing(Scanned[f])
  <2>1. onDisk[f] \subseteq Title /\ onDisk[f] \subseteq Nat /\ IsFiniteSet(onDisk[f])
    BY DEF FoldersOK, LibraryAssumption
  <2>2. Ascending(onDisk[f]) \in Seq(onDisk[f]) /\ Increasing(Ascending(onDisk[f]))
    BY <2>1, AscendingIs
  <2>3. Ascending(onDisk[f]) \in Seq(Title)
    BY <2>1, <2>2
  <2>4. <<>> \in Seq(Title) /\ Increasing(<<>>)
    BY DEF Increasing
  <2>5. Scanned[f] = IF configured[f] THEN Ascending(onDisk[f]) ELSE <<>>
    BY DEF Scanned
  <2> HIDE DEF Ascending, Increasing, Scanned
  <2> QED BY <2>2, <2>3, <2>4, <2>5
<1>2. Scanned = [f \in Format |-> Scanned[f]]
  BY DEF Scanned
<1> HIDE DEF Scanned
<1>3. Scanned \in [Format -> Seq(Title)]
  BY <1>1, <1>2
<1> QED BY <1>1, <1>3 DEF IsListing

\* A row is brought into the list.
LEMMA ClampedIs ==
    ASSUME NEW row \in Nat, NEW list \in Seq(Title)
    PROVE  Clamped(row, list) \in Nat /\ (list # <<>> => Clamped(row, list) < Len(list))
BY DEF Clamped

\* Of lists that are not all empty there is a first one.
LEMMA FirstPopulatedIs ==
    ASSUME NEW list, Populated(list) # {}
    PROVE  FirstPopulated(list) \in Format /\ list[FirstPopulated(list)] # <<>>
<1>1. Populated(list) \subseteq Nat /\ Populated(list) \subseteq Format
  BY LibraryAssumption DEF Populated, Format, LibraryAssumption
<1>2. PICK first \in Populated(list) : \A g \in Populated(list) : first <= g
  BY <1>1, LeastOf
<1>3. FirstPopulated(list) \in Populated(list)
  BY <1>2 DEF FirstPopulated
<1> QED BY <1>1, <1>3 DEF Populated

\* A scan leaves the cursor on an entry.
LEMMA AfterScanIs ==
    ASSUME NEW list, IsListing(list), NEW f, NEW row \in Nat, tab \in Format, f \in {tab, OpenFocus}
    PROVE  /\ IsPlaced(AfterScan(list, f, row), list)
           /\ AfterScan(list, f, row) =
                [tab |-> AfterScan(list, f, row).tab, focus |-> AfterScan(list, f, row).focus,
                 selection |-> AfterScan(list, f, row).selection]
<1>1. CASE list[tab] = <<>> /\ Populated(list) # {}
  <2> DEFINE first == FirstPopulated(list)
  <2>1. first \in Format /\ list[first] # <<>> /\ list[first] \in Seq(Title)
    BY <1>1, FirstPopulatedIs DEF IsListing
  <2>2. AfterScan(list, f, row) = [tab |-> first, focus |-> first, selection |-> Clamped(row, list[first])]
    BY <1>1 DEF AfterScan
  <2> HIDE DEF first
  <2>3. Clamped(row, list[first]) \in Nat /\ Clamped(row, list[first]) < Len(list[first])
    BY <2>1, ClampedIs
  <2> HIDE DEF Clamped
  <2> QED BY <2>1, <2>2, <2>3 DEF IsPlaced
<1>2. CASE ~(list[tab] = <<>> /\ Populated(list) # {})
  <2>1. AfterScan(list, f, row) = [tab |-> tab, focus |-> f, selection |-> Clamped(row, list[tab])]
    BY <1>2 DEF AfterScan
  <2>2. list[tab] \in Seq(Title)
    BY DEF IsListing
  <2>3. Clamped(row, list[tab]) \in Nat /\ (list[tab] # <<>> => Clamped(row, list[tab]) < Len(list[tab]))
    BY <2>2, ClampedIs
  <2> HIDE DEF Clamped
  <2> QED BY <2>1, <2>3 DEF IsPlaced
<1> QED BY <1>1, <1>2

\* The list that is there, or the one before, with a cursor placed in it.
LEMMA PlaceKeeps ==
    ASSUME NEW c, IsPlaced(c, entries'), PlaceAt(c), IsListing(entries'), FoldersOK'
    PROVE  LibraryInv'
BY DEF PlaceAt, LibraryInv, Cursor, IsPlaced, FoldersOK, IsListing

\* A disc that is listed is found in its row, whatever has been sorted before it.
LEMMA RefreshedIs ==
    ASSUME LibraryInv
    PROVE  /\ IsPlaced(Refreshed, Scanned)
           /\ \A i \in DOMAIN Scanned[tab] :
                Under = <<tab, Scanned[tab][i]>> =>
                    /\ Refreshed.tab = tab
                    /\ Refreshed.selection < Len(Scanned[tab])
                    /\ Under = <<tab, Scanned[tab][Refreshed.selection + 1]>>
<1> DEFINE list == Scanned[tab]
           rows == {i \in DOMAIN list : Under = <<tab, list[i]>>}
           c == AfterScan(Scanned, focus, selection)
           row == IF rows # {} THEN (CHOOSE i \in rows : TRUE) - 1 ELSE Clamped(selection, list)
           kept == IF list = <<>> THEN c
                   ELSE [tab |-> tab, focus |-> IF focus < Slots THEN tab ELSE focus, selection |-> row]
<1>1. /\ tab \in Format /\ focus \in {tab, OpenFocus} /\ selection \in Nat
      /\ IsListing(Scanned)
  BY ScannedIs DEF LibraryInv, IsPlaced, Cursor
<1>2. Refreshed = [kept EXCEPT !.focus = IF focus = OpenFocus THEN OpenFocus ELSE kept.focus]
  BY DEF Refreshed
<1>3. list \in Seq(Title)
  BY <1>1 DEF IsListing
<1>4. c = [tab |-> c.tab, focus |-> c.focus, selection |-> c.selection] /\ IsPlaced(c, Scanned)
  BY <1>1, AfterScanIs
<1>5. CASE list = <<>>
  <2>1. kept = c
    BY <1>5
  <2> HIDE DEF c, kept
  <2>2. Refreshed = [tab |-> c.tab, focus |-> IF focus = OpenFocus THEN OpenFocus ELSE c.focus,
                     selection |-> c.selection]
    BY <1>2, <1>4, <2>1
  <2>3. IsPlaced(Refreshed, Scanned)
    BY <1>4, <2>2 DEF IsPlaced
  <2>4. DOMAIN Scanned[tab] = {}
    BY <1>5
  <2> QED BY <2>3, <2>4
<1>6. CASE list # <<>>
  <2>1. row \in 0..(Len(list) - 1) /\ (rows # {} => row + 1 \in rows)
    <3>1. CASE rows # {}
      <4>1. PICK i \in rows : row = i - 1
        BY <3>1
      <4>2. i \in 1..Len(list)
        BY <1>3, <4>1
      <4> QED BY <4>1, <4>2
    <3>2. CASE rows = {}
      <4>1. row = Clamped(selection, list)
        BY <3>2
      <4>2. Clamped(selection, list) \in Nat /\ Clamped(selection, list) < Len(list)
        BY <1>1, <1>3, <1>6, ClampedIs
      <4>3. Len(list) \in Nat
        BY <1>3
      <4> HIDE DEF Clamped, row, list
      <4> QED BY <3>2, <4>1, <4>2, <4>3
    <3> QED BY <3>1, <3>2
  <2>2. kept = [tab |-> tab, focus |-> IF focus < Slots THEN tab ELSE focus, selection |-> row]
    BY <1>6
  <2> HIDE DEF row, kept
  <2>3. Refreshed = [tab |-> tab,
                     focus |-> IF focus = OpenFocus THEN OpenFocus
                               ELSE IF focus < Slots THEN tab ELSE focus,
                     selection |-> row]
    BY <1>2, <2>2
  <2>4. Len(list) \in Nat
    BY <1>3
  <2>5. IsPlaced(Refreshed, Scanned)
    BY <1>1, <2>1, <2>3, <2>4 DEF IsPlaced
  <2>6. ASSUME NEW i \in DOMAIN list, Under = <<tab, list[i]>>
        PROVE  Refreshed.tab = tab /\ Refreshed.selection < Len(list)
               /\ Under = <<tab, list[Refreshed.selection + 1]>>
    <3>1. row + 1 \in rows
      BY <2>1, <2>6
    <3> QED BY <2>1, <2>3, <2>4, <3>1
  <2> QED BY <2>5, <2>6
<1> QED BY <1>5, <1>6

LEMMA RefreshKeeps ==
    ASSUME LibraryInv, Refresh
    PROVE  /\ LibraryInv'
           /\ \A i \in DOMAIN entries'[tab] : Under = <<tab, entries'[tab][i]>> => Under' = Under
<1> DEFINE r == Refreshed
           placed == IF r.tab = tab THEN r ELSE [tab |-> tab, focus |-> tab, selection |-> 0]
<1>1. /\ IsPlaced(r, Scanned)
      /\ \A i \in DOMAIN Scanned[tab] :
            Under = <<tab, Scanned[tab][i]>> =>
                /\ r.tab = tab /\ r.selection < Len(Scanned[tab])
                /\ Under = <<tab, Scanned[tab][r.selection + 1]>>
  BY RefreshedIs
<1>2. entries' = Scanned /\ PlaceAt(placed) /\ UNCHANGED <<onDisk, configured>>
  BY DEF Refresh
<1>3. IsListing(Scanned) /\ FoldersOK /\ tab \in Format
  BY ScannedIs DEF LibraryInv, IsPlaced, Cursor
<1> HIDE DEF r
<1>4. IsPlaced(placed, Scanned)
  <2>1. CASE r.tab = tab
    BY <1>1, <2>1
  <2>2. CASE r.tab # tab
    <3>1. placed = [tab |-> tab, focus |-> tab, selection |-> 0]
      BY <2>2
    <3>2. Scanned[tab] \in Seq(Title)
      BY <1>3 DEF IsListing
    <3>3. Scanned[tab] # <<>> => 0 < Len(Scanned[tab])
      BY <3>2
    <3> HIDE DEF placed, Scanned
    <3> QED BY <1>3, <3>1, <3>3 DEF IsPlaced
  <2> QED BY <2>1, <2>2
<1>5. FoldersOK'
  BY <1>2, <1>3 DEF FoldersOK
<1>6. IsPlaced(placed, entries') /\ IsListing(entries')
  BY <1>2, <1>3, <1>4
<1>7. LibraryInv'
  <2> HIDE DEF placed
  <2> QED BY <1>2, <1>5, <1>6, PlaceKeeps
<1>8. ASSUME NEW i \in DOMAIN entries'[tab], Under = <<tab, entries'[tab][i]>> PROVE Under' = Under
  <2>1. r.tab = tab /\ r.selection < Len(Scanned[tab]) /\ Under = <<tab, Scanned[tab][r.selection + 1]>>
    BY <1>1, <1>2, <1>8
  <2>2. placed = r
    BY <2>1
  <2>3. tab' = tab /\ selection' = r.selection /\ entries' = Scanned
    BY <1>2, <2>1, <2>2 DEF PlaceAt
  <2>4. Under' = <<tab, Scanned[tab][r.selection + 1]>>
    BY <2>1, <2>3 DEF Under
  <2> QED BY <2>1, <2>4
<1> QED BY <1>7, <1>8

\* The folders are typed, whatever the host does with them.
LEMMA DiskChangesKeeps ==
    ASSUME FoldersOK, DiskChanges
    PROVE  FoldersOK'
<1>1. PICK f \in Format, t \in Title : onDisk' = [onDisk EXCEPT ![f] = IF t \in @ THEN @ \ {t} ELSE @ \cup {t}]
  BY DEF DiskChanges
<1>2. IsFiniteSet(onDisk[f] \ {t}) /\ IsFiniteSet(onDisk[f] \cup {t})
  BY FS_RemoveElement, FS_AddElement DEF FoldersOK
<1>3. \A g \in Format : onDisk'[g] \in {onDisk[g], onDisk[f] \ {t}, onDisk[f] \cup {t}}
  BY <1>1 DEF FoldersOK
<1>4. \A g \in Format : IsFiniteSet(onDisk'[g])
  BY <1>2, <1>3 DEF FoldersOK
<1>5. onDisk' \in [Format -> SUBSET Title]
  BY <1>1 DEF FoldersOK
<1> QED BY <1>4, <1>5 DEF FoldersOK, DiskChanges

LEMMA LibraryStepKeeps ==
    ASSUME LibraryInv, LibraryNext
    PROVE  LibraryInv'
<1> DEFINE here == entries[tab]
<1>1. /\ tab \in Format /\ focus \in {tab, OpenFocus} /\ selection \in Nat
      /\ FoldersOK /\ IsListing(entries) /\ here \in Seq(Title)
      /\ (here # <<>> => selection < Len(here)) /\ Slots \in Nat \ {0} /\ Format = 0..(Slots - 1)
  BY LibraryAssumption DEF LibraryInv, IsPlaced, Cursor, IsListing, LibraryAssumption, Format
<1>2. IsListing(Scanned)
  BY <1>1, ScannedIs
<1>3. \A f \in Format : entries[f] \in Seq(Title) /\ (entries[f] # <<>> => 0 < Len(entries[f]))
  BY <1>1 DEF IsListing
<1>4. ASSUME UNCHANGED <<onDisk, configured>> PROVE FoldersOK'
  BY <1>1, <1>4 DEF FoldersOK
<1>5. CASE Rescan
  <2>1. IsPlaced(AfterScan(Scanned, focus, selection), Scanned)
    BY <1>1, <1>2, AfterScanIs
  <2> QED BY <1>2, <1>4, <1>5, <2>1, PlaceKeeps DEF Rescan
<1>6. CASE Enter
  <2> DEFINE c == AfterScan(Scanned, focus, selection)
             placed == [tab |-> c.tab, focus |-> c.tab, selection |-> 0]
  <2>1. IsPlaced(c, Scanned)
    BY <1>1, <1>2, AfterScanIs
  <2>2. entries' = Scanned /\ PlaceAt(placed) /\ UNCHANGED <<onDisk, configured>>
    BY <1>6 DEF Enter
  <2> HIDE DEF c
  <2>3. Scanned[c.tab] \in Seq(Title) /\ (Scanned[c.tab] # <<>> => 0 < Len(Scanned[c.tab]))
    BY <1>2, <2>1 DEF IsListing, IsPlaced
  <2>4. IsPlaced(placed, Scanned)
    <3> HIDE DEF Scanned
    <3> QED BY <2>1, <2>3 DEF IsPlaced
  <2> HIDE DEF placed
  <2> QED BY <1>2, <1>4, <2>2, <2>4, PlaceKeeps
<1>7. CASE Refresh
  BY <1>7, RefreshKeeps
<1>8. CASE DiskChanges
  <2>1. FoldersOK'
    BY <1>1, <1>8, DiskChangesKeeps
  <2>2. UNCHANGED <<entries, cursor>>
    BY <1>8 DEF DiskChanges
  <2> QED BY <2>1, <2>2 DEF LibraryInv, IsListing, IsPlaced, Cursor, cursor
<1>9. ASSUME NEW f \in Format, NEW is \in BOOLEAN, SetFolder(f, is) PROVE LibraryInv'
  <2>1. FoldersOK'
    BY <1>1, <1>9 DEF FoldersOK, SetFolder
  <2>2. UNCHANGED <<entries, cursor>>
    BY <1>9 DEF SetFolder
  <2> QED BY <2>1, <2>2 DEF LibraryInv, IsListing, IsPlaced, Cursor, cursor
<1>10. ASSUME NEW f \in Format, NEW row \in Nat, NEW to \in {f, OpenFocus},
              tab' = f, focus' = to, selection' = row, entries[f] # <<>> => row < Len(entries[f]),
              UNCHANGED <<onDisk, configured, entries>>
       PROVE  LibraryInv'
  BY <1>1, <1>4, <1>10 DEF LibraryInv, IsListing, IsPlaced, Cursor
<1>11. ASSUME NEW f \in Format, SelectTab(f) PROVE LibraryInv'
  BY <1>3, <1>10, <1>11 DEF SelectTab, PlaceAt
<1>12. CASE FocusOpen
  BY <1>1, <1>10, <1>12 DEF FocusOpen
<1>13. ASSUME NEW row \in 0..(Len(entries[tab]) - 1), ClickRow(row) PROVE LibraryInv'
  BY <1>1, <1>10, <1>13 DEF ClickRow, PlaceAt
<1>14. CASE PadTab
  <2>1. PICK by \in {-1, 1} : PlaceAt(Cycle(by)) /\ UNCHANGED <<onDisk, configured, entries>>
    BY <1>14 DEF PadTab
  <2> DEFINE f == (focus + by + Slots + 1) % (Slots + 1)
  <2>2. focus + by + Slots + 1 \in Int /\ Slots + 1 \in Nat \ {0}
    BY <1>1 DEF OpenFocus
  <2>3. f \in 0..Slots
    <3> DEFINE x == focus + by + Slots + 1
               n == Slots + 1
    <3>1. x \in Int /\ n \in Nat \ {0} /\ f = x % n
      BY <2>2
    <3> HIDE DEF x, n, f
    <3>2. x % n \in 0..(n - 1)
      BY <3>1
    <3>3. n - 1 = Slots
      BY <1>1 DEF n
    <3> QED BY <3>1, <3>2, <3>3
  <2>4. Cycle(by) = [tab |-> IF f < Slots THEN f ELSE tab, focus |-> f, selection |-> 0]
    BY DEF Cycle
  <2> HIDE DEF f
  <2>5. tab' = (IF f < Slots THEN f ELSE tab) /\ focus' = f /\ selection' = 0
    BY <2>1, <2>4 DEF PlaceAt
  <2>6. tab' \in Format /\ focus' \in {tab', OpenFocus}
    BY <1>1, <2>3, <2>5 DEF OpenFocus
  <2> QED BY <1>3, <1>10, <2>1, <2>5, <2>6
<1>15. CASE PadRow
  <2>1. selection' \in (IF Len(here) = 0 THEN {0}
                        ELSE {(selection + 1) % Len(here), (selection + Len(here) - 1) % Len(here)})
        /\ UNCHANGED <<onDisk, configured, entries, tab, focus>>
    BY <1>15 DEF PadRow
  <2>2. Len(here) \in Nat /\ (here = <<>> <=> Len(here) = 0)
    BY <1>1
  <2>3. selection' \in Nat /\ (Len(here) # 0 => selection' < Len(here))
    <3> HIDE DEF here
    <3>1. CASE Len(here) = 0
      BY <2>1, <3>1
    <3>2. CASE Len(here) # 0
      <4>1. selection + 1 \in Nat /\ selection + Len(here) - 1 \in Nat /\ Len(here) \in Nat \ {0}
        BY <1>1, <2>2, <3>2
      <4> QED BY <2>1, <3>2, <4>1
    <3> QED BY <3>1, <3>2
  <2> QED BY <1>1, <1>10, <2>1, <2>2, <2>3
<1>16. CASE PadActivate
  <2>1. UNCHANGED <<onDisk, configured, entries, cursor>>
    BY <1>16 DEF PadActivate
  <2> QED BY <1>1, <1>4, <2>1 DEF LibraryInv, IsListing, IsPlaced, Cursor, cursor
<1> QED BY <1>5, <1>6, <1>7, <1>8, <1>9, <1>11, <1>12, <1>13, <1>14, <1>15, <1>16 DEF LibraryNext

\* The cursor is always on an entry, in a list that has each title once in its
\* order, and a refresh leaves it on its disc (library.rs:275, 293).
THEOREM SelectionKeptHolds == LibrarySpec => SelectionKept
<1> USE LibraryAssumption
<1>1. LibraryInit => LibraryInv
  <2> SUFFICES ASSUME LibraryInit PROVE LibraryInv
    OBVIOUS
  <2>1. 0 \in Format
    BY DEF Format, LibraryAssumption
  <2>2. FoldersOK
    BY FS_EmptySet DEF LibraryInit, FoldersOK
  <2> QED BY <2>1, <2>2 DEF LibraryInit, LibraryInv, IsListing, IsPlaced, Cursor, Increasing
<1>2. LibraryInv /\ [LibraryNext]_libraryVars => LibraryInv'
  <2> SUFFICES ASSUME LibraryInv, UNCHANGED libraryVars PROVE LibraryInv'
    BY LibraryStepKeeps
  <2> QED BY DEF LibraryInv, FoldersOK, IsListing, IsPlaced, Cursor, libraryVars
<1>3. LibraryInv => CursorOnAnEntry
  <2> SUFFICES ASSUME LibraryInv PROVE CursorOnAnEntry
    OBVIOUS
  <2>1. tab \in Format /\ focus \in {tab, OpenFocus} /\ entries[tab] \in Seq(Title)
        /\ (entries[tab] # <<>> => selection \in 0..(Len(entries[tab]) - 1))
    BY DEF LibraryInv, IsPlaced, IsListing, Cursor
  <2>2. ASSUME NEW f \in Format, NEW i \in DOMAIN entries[f], NEW j \in DOMAIN entries[f]
        PROVE  entries[f][i] \in Title /\ (i < j => entries[f][i] < entries[f][j])
    BY DEF LibraryInv, IsListing, Increasing
  <2> QED BY <2>1, <2>2 DEF CursorOnAnEntry
<1>4. LibraryInv /\ [LibraryNext]_libraryVars =>
        [Refresh /\ Under # NoTitle /\ (\E i \in DOMAIN entries'[tab] : Under = <<tab, entries'[tab][i]>>)
            => Under' = Under]_libraryVars
  BY RefreshKeeps
<1> QED BY <1>1, <1>2, <1>3, <1>4, PTL DEF LibrarySpec, SelectionKept, RefreshKeepsSelection
=============================================================================
