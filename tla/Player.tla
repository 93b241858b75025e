------------------------------- MODULE Player -------------------------------
(***************************************************************************)
(* The player of the desktop frontend: the emulation thread (`emu_loop`),  *)
(* the window thread that posts commands to it through a slot holding one  *)
(* command, and the battery-backed storage (NVRAM) the emulation thread    *)
(* keeps in one host file per hardware configuration.                      *)
(*                                                                         *)
(* What is in the storage is a save: who made it and how recent it is.     *)
(***************************************************************************)
EXTENDS Integers, FiniteSets

CONSTANTS
    Disc,           \* paths of disc images
    Profile,        \* Disc -> Standard or Unknown: the tracked profile of the pressing
    Hint,           \* Disc -> Standard, "mixed" or Unknown: the region in its file name
    MixedPreference,\* Standard or Unknown: the user's choice for mixed names
    Rom,            \* the system ROMs the user may select
    BoardOf,        \* Rom -> board, or NoBoard for a ROM of a board not emulated
    RomStandard,    \* Rom -> Standard, the default of its market
    FirstRom,       \* the ROM the program starts with
    MaxSaves        \* bound: saves the guest makes

None == "none"
Unknown == "unknown"
NoBoard == "no board"
Standard == {"pal", "ntsc"}

Board == {BoardOf[r] : r \in Rom} \ {NoBoard}

\* A configuration of the hardware has a file of its own.
Config == [board : Board, standard : Standard, dvc : BOOLEAN]

NoConfig == [board |-> None, standard |-> None, dvc |-> FALSE]

Blank == [made |-> NoConfig, n |-> 0]
Save == [made : Config, n : 1..MaxSaves] \cup {Blank}

Command ==
    [kind : {"LoadDisc"}, disc : Disc] \cup
    [kind : {"EjectDisc", "AttachDvc", "DetachDvc", "ResetNvram", "Reset"}] \cup
    [kind : {"SetVideoStandard"}, standard : Standard] \cup
    [kind : {"SetKeyboardAttached"}, attached : BOOLEAN] \cup
    [kind : {"SetSystemRom"}, rom : Rom]

NoCommand == [kind |-> None]

ASSUME PlayerAssumption ==
    /\ MaxSaves \in Nat
    /\ None \notin Disc
    /\ Profile \in [Disc -> Standard \cup {Unknown}]
    /\ Hint \in [Disc -> Standard \cup {"mixed", Unknown}]
    /\ MixedPreference \in Standard \cup {Unknown}
    /\ RomStandard \in [Rom -> Standard]
    /\ DOMAIN BoardOf = Rom
    /\ FirstRom \in Rom
    /\ BoardOf[FirstRom] # NoBoard

VARIABLES
    \* The machine, owned by the emulation thread.
    machine,        \* hardware, mounted disc, storage, and the title that runs
    \* Shared between the threads.
    slot,           \* `Shared::command`
    discPath,       \* `Shared::disc_path`
    identity,       \* `Shared::disc_identity`, by its fingerprint
    pal,            \* `Shared::pal`, as a standard
    dvcInserted,    \* `Shared::dvc_inserted`
    keyboardAttached, \* `Shared::keyboard_attached`
    overrides,      \* `Shared::disc_standard_overrides`
    paused,         \* `Shared::quick_menu_paused`
    \* Locals of `emu_loop`.
    emu,            \* Running, Exited, or the load whose disc is being hashed
    nvramPath,      \* the configuration whose file is in use
    nvramMirror,    \* last contents written, or taken for written
    \* The host.
    files,          \* Config -> Save: the storage files
    backups,        \* saves kept by ResetNvram
    \* History.
    saves,          \* saves made so far
    lapses,         \* why a save may miss from its file: Lapse
    unread,         \* whether the file in use holds a save that was not read
    choosing        \* the ROM picked in the settings, its command not yet posted

window == <<identity, overrides, paused, choosing>>
store == <<nvramPath, nvramMirror, files, lapses, unread>>
playerVars == <<machine, slot, discPath, identity, pal, dvcInserted, keyboardAttached,
                overrides, paused, emu, nvramPath, nvramMirror, files, backups,
                saves, lapses, unread, choosing>>

Running == [load |-> None]
Exited == [load |-> "exited"]

Lapse == {"write failed", "reload kept a dirty mirror"}

-----------------------------------------------------------------------------
(* The storage.                                                            *)

\* `write_nvram` replaces the file as a whole or fails and leaves it alone.
WriteNvram(ok, path, data) ==
    /\ files' = IF ok THEN [files EXCEPT ![path] = data] ELSE files
    /\ lapses' = IF ok THEN lapses ELSE lapses \cup {"write failed"}

\* The file in use is written: it holds what the loop knows of.
Overwrite(ok, data) == WriteNvram(ok, nvramPath, data) /\ unread' = (unread /\ ~ok)

\* `load_nvram`: a file that is not there is blank, and so is one that cannot be
\* read or is of another size. What was loaded is taken for what the file holds.
LoadNvram(read, path) == IF read THEN files[path] ELSE Blank
UseStore(read, path) ==
    /\ nvramPath' = path
    /\ nvramMirror' = LoadNvram(read, path)
    /\ unread' = (LoadNvram(read, path) # files[path])

\* Mutant: the new file is read without writing what the old one misses.
SwitchForgets(ok, read, path) ==
    IF path = nvramPath THEN UNCHANGED store
    ELSE /\ UNCHANGED <<files, lapses>>
         /\ UseStore(read, path)

\* Mutant: the old contents are written under the new path.
SwitchMixes(ok, read, path) ==
    IF path = nvramPath THEN UNCHANGED store
    ELSE /\ IF machine.nvram # nvramMirror THEN WriteNvram(ok, path, machine.nvram)
                                           ELSE UNCHANGED <<files, lapses>>
         /\ UseStore(read, path)

\* `switch_nvram_store`: write what the old file misses, then read the new.
SwitchNvramStore(ok, read, path) ==
    IF path = nvramPath THEN UNCHANGED store
    ELSE /\ IF machine.nvram # nvramMirror THEN WriteNvram(ok, nvramPath, machine.nvram)
                                           ELSE UNCHANGED <<files, lapses>>
         /\ UseStore(read, path)

\* The storage of the machine after such a switch.
StoreAfter(read, path) ==
    IF path = nvramPath THEN machine.nvram ELSE LoadNvram(read, path)

\* A reset boots the player shell: no title of the disc runs any more.
Rebooted(m) == [m EXCEPT !.title = None]

-----------------------------------------------------------------------------
(* The commands, as `emu_loop` takes them from the slot.                   *)

Take(kind) ==
    /\ emu = Running
    /\ slot.kind = kind
    /\ slot' = NoCommand

\* The standard a disc asks for: the user's choice for this exact disc, then
\* its profile, then the region in its name.
StandardFor(d, identified) ==
    LET hint == IF Hint[d] = "mixed" THEN MixedPreference ELSE Hint[d]
    IN  IF identified /\ overrides[d] # Unknown THEN overrides[d]
        ELSE IF identified /\ Profile[d] # Unknown THEN Profile[d]
        ELSE hint

\* A disc image that does not open leaves the player as it is.
LoadDiscFails ==
    /\ Take("LoadDisc")
    /\ UNCHANGED <<machine, discPath, pal, dvcInserted, keyboardAttached, emu,
                   backups, saves, window, store>>

\* The image opens and is hashed, which takes seconds: whether it replaces a
\* disc has been decided, everything else is read when the hash is known.
LoadDiscOpens ==
    /\ Take("LoadDisc")
    /\ emu' = [load |-> slot.disc, replaces |-> discPath # None]
    /\ UNCHANGED <<machine, discPath, pal, dvcInserted, keyboardAttached,
                   backups, saves, window, store>>

\* Mutant: a disc always goes in as into an empty drive.
MountLive(m, replaces, d) == [m EXCEPT !.disc = d]

\* A first disc goes into the running player; another one is present at power-on.
Mount(m, replaces, d) ==
    IF replaces THEN Rebooted([m EXCEPT !.disc = d]) ELSE [m EXCEPT !.disc = d]

LoadDiscIdentified ==
    \E identified, ok, read \in BOOLEAN :
        LET d == emu.load
            asked == StandardFor(d, identified)
            path == [board |-> machine.board, standard |-> asked, dvc |-> dvcInserted]
        IN  /\ emu \notin {Running, Exited}
            /\ emu' = Running
            /\ IF asked # Unknown /\ asked # pal
               THEN /\ SwitchNvramStore(ok, read, path)
                    /\ machine' = Mount(Rebooted([machine EXCEPT
                                      !.standard = asked, !.nvram = StoreAfter(read, path)]),
                                      emu.replaces, d)
                    /\ pal' = asked
               ELSE /\ machine' = Mount(machine, emu.replaces, d)
                    /\ UNCHANGED <<pal, store>>
            /\ discPath' = d
            /\ identity' = IF identified THEN d ELSE None
            /\ UNCHANGED <<slot, dvcInserted, keyboardAttached, overrides, paused,
                           backups, saves, choosing>>

\* Mutant: the title of the ejected disc runs on.
EjectKeepsRunning ==
    /\ Take("EjectDisc")
    /\ machine' = [machine EXCEPT !.disc = None]
    /\ discPath' = None
    /\ identity' = None
    /\ UNCHANGED <<pal, dvcInserted, keyboardAttached, overrides, paused, emu,
                   backups, saves, choosing, store>>

EjectDisc ==
    /\ Take("EjectDisc")
    /\ machine' = Rebooted([machine EXCEPT !.disc = None])
    /\ discPath' = None
    /\ identity' = None
    /\ UNCHANGED <<pal, dvcInserted, keyboardAttached, overrides, paused, emu,
                   backups, saves, choosing, store>>

\* A ROM of a board that is not emulated, or one no machine can be built from,
\* only sets the status line.
SetSystemRomRefused ==
    /\ Take("SetSystemRom")
    /\ UNCHANGED <<machine, discPath, pal, dvcInserted, keyboardAttached, emu,
                   backups, saves, window, store>>

\* The machine is rebuilt around the new ROM, with the cartridge (whose
\* firmware may not be readable any more) and the disc (which may not open).
\* The serial keyboard gets what the keyboard of the SLAVE had. The mirror
\* becomes what the storage holds, written or not.
SetSystemRom ==
    \E reopened, readable, ok, read \in BOOLEAN :
        LET built == [board |-> BoardOf[slot.rom], standard |-> pal, dvc |-> dvcInserted]
            dirty == machine.nvram # nvramMirror
        IN  /\ Take("SetSystemRom")
            /\ BoardOf[slot.rom] # NoBoard
            /\ machine' = [board |-> built.board, standard |-> pal,
                           dvc |-> dvcInserted /\ readable,
                           keyboard |-> FALSE, serial |-> keyboardAttached,
                           disc |-> IF reopened THEN discPath ELSE None,
                           title |-> None, nvram |-> StoreAfter(read, built)]
            /\ IF built = nvramPath
               THEN /\ nvramMirror' = machine.nvram
                    /\ lapses' = IF dirty THEN lapses \cup {"reload kept a dirty mirror"} ELSE lapses
                    /\ UNCHANGED <<nvramPath, files, unread>>
               ELSE SwitchNvramStore(ok, read, built)
            /\ UNCHANGED <<discPath, pal, dvcInserted, keyboardAttached, emu,
                           backups, saves, window>>

\* `AttachDvc`, `AttachBundledDvc` and `DetachDvc`: the storage follows the
\* cartridge, then the player boots.
ChangeDvc(kind, inserted) ==
    \E ok, read \in BOOLEAN :
        LET path == [board |-> machine.board, standard |-> pal, dvc |-> inserted]
        IN  /\ Take(kind)
            /\ SwitchNvramStore(ok, read, path)
            /\ machine' = Rebooted([machine EXCEPT !.dvc = inserted,
                                                   !.nvram = StoreAfter(read, path)])
            /\ dvcInserted' = inserted
            /\ UNCHANGED <<discPath, pal, keyboardAttached, emu, backups, saves, window>>

\* A firmware that is refused changes nothing.
AttachDvcRefused ==
    /\ Take("AttachDvc")
    /\ UNCHANGED <<machine, discPath, pal, dvcInserted, keyboardAttached, emu,
                   backups, saves, window, store>>

SetVideoStandard ==
    \E ok, read \in BOOLEAN :
        LET path == [board |-> machine.board, standard |-> slot.standard, dvc |-> dvcInserted]
        IN  /\ Take("SetVideoStandard")
            /\ SwitchNvramStore(ok, read, path)
            /\ machine' = Rebooted([machine EXCEPT !.standard = slot.standard,
                                                   !.nvram = StoreAfter(read, path)])
            /\ pal' = slot.standard
            /\ UNCHANGED <<discPath, dvcInserted, keyboardAttached, emu, backups,
                           saves, window>>

\* A keyboard that is there already is not attached again: no reset.
SetKeyboardAttached ==
    /\ Take("SetKeyboardAttached")
    /\ machine' = IF machine.keyboard = slot.attached THEN machine
                  ELSE Rebooted([machine EXCEPT !.keyboard = slot.attached])
    /\ keyboardAttached' = slot.attached
    /\ UNCHANGED <<discPath, pal, dvcInserted, emu, backups, saves, window, store>>

\* Mutant: the storage is cleared although the backup failed.
ResetNvramAnyway ==
    \E ok \in BOOLEAN :
        /\ Take("ResetNvram")
        /\ machine' = Rebooted([machine EXCEPT !.nvram = Blank])
        /\ nvramMirror' = Blank
        /\ Overwrite(ok, Blank)
        /\ UNCHANGED <<discPath, pal, dvcInserted, keyboardAttached, emu, nvramPath,
                       backups, saves, window>>

\* The storage is cleared only when a backup of it has been written. An empty
\* storage needs none.
ResetNvram ==
    \E backedUp, ok \in BOOLEAN :
        /\ Take("ResetNvram")
        /\ IF machine.nvram # Blank /\ ~backedUp
           THEN UNCHANGED <<machine, backups, store>>
           ELSE /\ backups' = backups \cup ({machine.nvram} \ {Blank})
                /\ machine' = Rebooted([machine EXCEPT !.nvram = Blank])
                /\ nvramMirror' = Blank
                /\ Overwrite(ok, Blank)
                /\ UNCHANGED nvramPath
        /\ UNCHANGED <<discPath, pal, dvcInserted, keyboardAttached, emu, saves, window>>

Reset ==
    /\ Take("Reset")
    /\ machine' = Rebooted(machine)
    /\ UNCHANGED <<discPath, pal, dvcInserted, keyboardAttached, emu, backups,
                   saves, window, store>>

Commands ==
    \/ LoadDiscFails \/ LoadDiscOpens \/ EjectDisc
    \/ SetSystemRomRefused \/ SetSystemRom
    \/ ChangeDvc("AttachDvc", TRUE) \/ AttachDvcRefused \/ ChangeDvc("DetachDvc", FALSE)
    \/ SetVideoStandard \/ SetKeyboardAttached \/ ResetNvram \/ Reset

-----------------------------------------------------------------------------
(* A pass of the loop without a command.                                   *)

\* The guest runs a frame: it may write its storage, or start the disc. While
\* the quick menu is open it does not run and the storage is not flushed.
Frame ==
    /\ emu = Running
    /\ ~paused
    /\ \/ /\ saves < MaxSaves
          /\ saves' = saves + 1
          /\ machine' = [machine EXCEPT !.nvram = [made |-> nvramPath, n |-> saves + 1]]
       \/ /\ machine.disc # None
          /\ machine' = [machine EXCEPT !.title = machine.disc]
          /\ UNCHANGED saves
    /\ UNCHANGED <<slot, discPath, pal, dvcInserted, keyboardAttached, emu, backups,
                   window, store>>

\* Mutant: the mirror is not brought up to date.
FlushLate ==
    \E ok \in BOOLEAN :
        /\ emu = Running
        /\ ~paused
        /\ machine.nvram # nvramMirror
        /\ Overwrite(ok, nvramMirror)
        /\ nvramMirror' = machine.nvram
        /\ UNCHANGED <<machine, slot, discPath, pal, dvcInserted, keyboardAttached,
                       emu, nvramPath, backups, saves, window>>

\* Every five seconds: the mirror is brought up to date and written. A write
\* that fails is not tried again until the guest changes the storage.
Flush ==
    \E ok \in BOOLEAN :
        /\ emu = Running
        /\ ~paused
        /\ machine.nvram # nvramMirror
        /\ Overwrite(ok, machine.nvram)
        /\ nvramMirror' = machine.nvram
        /\ UNCHANGED <<machine, slot, discPath, pal, dvcInserted, keyboardAttached,
                       emu, nvramPath, backups, saves, window>>

\* The window closes: the loop ends with a last write.
Quit ==
    \E ok \in BOOLEAN :
        /\ emu = Running
        /\ emu' = Exited
        /\ IF machine.nvram # nvramMirror THEN Overwrite(ok, machine.nvram)
                                          ELSE UNCHANGED <<files, lapses, unread>>
        /\ UNCHANGED <<machine, slot, discPath, pal, dvcInserted, keyboardAttached,
                       nvramPath, nvramMirror, backups, saves, window>>

\* The process ends anywhere, its files stay.
Crash ==
    /\ emu # Exited
    /\ emu' = Exited
    /\ UNCHANGED <<machine, slot, discPath, pal, dvcInserted, keyboardAttached,
                   backups, saves, window, store>>

\* `main`: the default ROM with the bundled cartridge, no disc, and the storage
\* of that configuration.
FirstConfig == [board |-> BoardOf[FirstRom], standard |-> RomStandard[FirstRom], dvc |-> TRUE]

FirstMachine(saved) ==
    [board |-> FirstConfig.board, standard |-> FirstConfig.standard, dvc |-> TRUE,
     keyboard |-> FALSE, serial |-> FALSE, disc |-> None, title |-> None, nvram |-> saved]

Start ==
    /\ emu = Exited
    /\ emu' = Running
    /\ \E read \in BOOLEAN :
        machine' = FirstMachine(LoadNvram(read, FirstConfig)) /\ UseStore(read, FirstConfig)
    /\ slot' = NoCommand
    /\ discPath' = None
    /\ identity' = None
    /\ pal' = FirstConfig.standard
    /\ dvcInserted' = TRUE
    /\ keyboardAttached' = FALSE
    /\ paused' = FALSE
    /\ choosing' = None
    /\ lapses' = {}
    /\ UNCHANGED <<files, overrides, backups, saves>>

-----------------------------------------------------------------------------
(* The window. A command replaces the one the slot still holds.            *)

Post(command) ==
    /\ emu # Exited
    /\ choosing = None
    /\ slot' = command
    /\ UNCHANGED <<machine, discPath, dvcInserted, keyboardAttached, paused, emu,
                   backups, saves, choosing, store>>

\* `load_disc_path` and `eject_disc` forget the identity at once.
PostDisc(command) == Post(command) /\ identity' = None /\ UNCHANGED <<pal, overrides>>

PostOther(command) == Post(command) /\ UNCHANGED <<identity, pal, overrides>>

\* The radio buttons: the choice is remembered for the exact disc, if known.
PostStandard(s) ==
    /\ s # pal
    /\ Post([kind |-> "SetVideoStandard", standard |-> s])
    /\ overrides' = IF identity = None THEN overrides
                                       ELSE [overrides EXCEPT ![identity] = s]
    /\ UNCHANGED <<identity, pal>>

\* "Use detected default": the choice is forgotten; the profile, if there is
\* one, is applied.
UseDetectedDefault ==
    /\ emu # Exited
    /\ choosing = None
    /\ identity # None
    /\ overrides[identity] # Unknown
    /\ overrides' = [overrides EXCEPT ![identity] = Unknown]
    /\ slot' = IF Profile[identity] \in Standard \ {pal}
               THEN [kind |-> "SetVideoStandard", standard |-> Profile[identity]] ELSE slot
    /\ UNCHANGED <<machine, discPath, identity, pal, dvcInserted, keyboardAttached,
                   paused, emu, backups, saves, choosing, store>>

\* A bundled ROM: the standard of its market is stored first, the command is
\* posted in a second step, and the emulation thread may run in between.
PickSystemRom(r) ==
    /\ emu # Exited
    /\ choosing = None
    /\ choosing' = r
    /\ pal' = RomStandard[r]
    /\ UNCHANGED <<machine, slot, discPath, identity, dvcInserted, keyboardAttached,
                   overrides, paused, emu, backups, saves, store>>

PostSystemRom ==
    /\ emu # Exited
    /\ choosing # None
    /\ slot' = [kind |-> "SetSystemRom", rom |-> choosing]
    /\ choosing' = None
    /\ UNCHANGED <<machine, discPath, identity, pal, dvcInserted, keyboardAttached,
                   overrides, paused, emu, backups, saves, store>>

\* The quick menu opens or closes.
TogglePause ==
    /\ emu # Exited
    /\ choosing = None
    /\ paused' = ~paused
    /\ UNCHANGED <<machine, slot, discPath, identity, pal, dvcInserted,
                   keyboardAttached, overrides, emu, backups, saves, choosing, store>>

Window ==
    \/ \E d \in Disc : PostDisc([kind |-> "LoadDisc", disc |-> d])
    \/ PostDisc([kind |-> "EjectDisc"])
    \/ \E k \in {"AttachDvc", "DetachDvc", "ResetNvram", "Reset"} : PostOther([kind |-> k])
    \/ \E a \in BOOLEAN : PostOther([kind |-> "SetKeyboardAttached", attached |-> a])
    \* "Choose ROM..." leaves the standard alone.
    \/ \E r \in Rom : PostOther([kind |-> "SetSystemRom", rom |-> r])
    \/ \E s \in Standard : PostStandard(s)
    \/ UseDetectedDefault
    \/ \E r \in Rom : PickSystemRom(r)
    \/ PostSystemRom
    \/ TogglePause

-----------------------------------------------------------------------------
PlayerInit ==
    /\ machine = FirstMachine(Blank)
    /\ slot = NoCommand
    /\ discPath = None /\ identity = None
    /\ pal = FirstConfig.standard
    /\ dvcInserted = TRUE /\ keyboardAttached = FALSE
    /\ overrides = [d \in Disc |-> Unknown]
    /\ paused = FALSE
    /\ emu = Running
    /\ nvramPath = FirstConfig
    /\ nvramMirror = Blank
    /\ files = [c \in Config |-> Blank]
    /\ backups = {}
    /\ saves = 0
    /\ lapses = {} /\ unread = FALSE
    /\ choosing = None

EmuStep == Commands \/ LoadDiscIdentified \/ Frame \/ Flush

PlayerNext == EmuStep \/ Quit \/ Crash \/ Start \/ Window

\* The loop runs as long as the process does: it takes what is in the slot and
\* finishes a load. Every pass that is not paused ends with a look at the clock
\* and, five seconds after the last flush, at the storage: loads in between
\* only delay it.
PlayerFairness ==
    /\ WF_playerVars(Commands)
    /\ WF_playerVars(LoadDiscIdentified)
    /\ SF_playerVars(Flush)

PlayerSpec == PlayerInit /\ [][PlayerNext]_playerVars

-----------------------------------------------------------------------------
(* Properties.                                                             *)

MachineType ==
    [board : Board, standard : Standard, dvc : BOOLEAN, keyboard : BOOLEAN,
     serial : BOOLEAN, disc : Disc \cup {None}, title : Disc \cup {None}, nvram : Save]

PlayerTypeOK ==
    /\ machine \in MachineType
    /\ slot \in Command \cup {NoCommand}
    /\ discPath \in Disc \cup {None}
    /\ identity \in Disc \cup {None}
    /\ pal \in Standard
    /\ dvcInserted \in BOOLEAN
    /\ keyboardAttached \in BOOLEAN
    /\ overrides \in [Disc -> Standard \cup {Unknown}]
    /\ paused \in BOOLEAN
    /\ emu \in {Running, Exited} \cup [load : Disc, replaces : BOOLEAN]
    /\ nvramPath \in Config
    /\ nvramMirror \in Save
    /\ files \in [Config -> Save]
    /\ backups \in SUBSET Save
    /\ saves \in 0..MaxSaves
    /\ lapses \in SUBSET Lapse /\ unread \in BOOLEAN
    /\ choosing \in Rom \cup {None}

\* A title that runs has its disc in the drive: a disc is never exchanged
\* under a running title, whatever order loads, ejects, ROM reloads and failed
\* loads come in (`disc_load_action` looks at the path, not at the drive).
TitleHasItsDisc ==
    /\ machine.title \in {None, machine.disc}
    /\ machine.disc \in {None, discPath}
    /\ emu \notin {Running, Exited} /\ ~emu.replaces => machine.disc = None

\* The storage of one hardware configuration never gets into the file of
\* another, nor into a machine that runs on another file, although path,
\* mirror, machine and file change in separate steps of every command.
StorageBelongs ==
    /\ \A c \in Config : files[c].made \in {c, NoConfig}
    /\ machine.nvram.made \in {nvramPath, NoConfig}
    /\ nvramMirror.made \in {nvramPath, NoConfig}


\* What the loop takes for written is in the file, unless a write failed or a
\* reload of the ROM took a dirty mirror for written. Of a file that could not be
\* read it takes a blank for written until its next write, whichever disc, ROM or
\* standard put the file in use (storage.rs:48).
MirrorIsInFile ==
    emu # Exited /\ lapses = {} =>
        nvramMirror = IF unread THEN Blank ELSE files[nvramPath]

PlayerInv == PlayerTypeOK /\ TitleHasItsDisc /\ StorageBelongs /\ MirrorIsInFile

\* `let mut nvram_mirror`, "Mirror of the last NVRAM contents written": as long
\* as writes succeed the mirror is what the file holds. A reload of the system
\* ROM in the same configuration keeps the newer storage and calls it written; a
\* file that cannot be read is called blank.
MirrorIsLastWritten ==
    emu # Exited /\ "write failed" \notin lapses => nvramMirror = files[nvramPath]

\* A file changes to something newer, or to a blank when the storage it held
\* has been backed up in the state of that time or a later one: no crash,
\* switch or reset takes a save back. The exception is a file in use that could
\* not be read: its storage is blank, so the next save of the guest replaces it
\* as something newer, and a reset clears the file without the backup the user
\* was told of (storage.rs:48, 97, main.rs:3513).
NoSaveTakenBack ==
    [][\A c \in Config :
         \/ files'[c].n >= files[c].n
         \/ \E b \in backups' : b.made = c /\ b.n >= files[c].n
         \/ unread /\ c = nvramPath /\ machine.nvram = Blank /\ files'[c] = Blank]_playerVars

\* A save reaches a file or a backup, or the guest saves again first; unless
\* the process ends, the quick menu stops the flushes, or a lapse is recorded.
SaveReachesDisk ==
    \A n \in 1..MaxSaves :
        (machine.nvram.n = n) ~>
            \/ \E s \in {files[c] : c \in Config} \cup backups : s.n = n
            \/ machine.nvram.n > n
            \/ emu = Exited \/ paused \/ lapses # {}
=============================================================================
