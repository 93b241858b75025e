----------------------------- MODULE Inventory -----------------------------
(***************************************************************************)
(* The inventory of a disc (cdi-disc: inventory.rs): its volume labels,    *)
(* the walks of their directories, which a damaged disc may link in a      *)
(* ring, the scan of its files for real-time sectors, what kind of disc it *)
(* is, and the lists a Video CD is navigated by.                           *)
(*                                                                         *)
(* A file is known by its name, which stands for its path; its sectors are *)
(* of a few kinds. Directories are of one sector.                          *)
(***************************************************************************)
EXTENDS Integers, Sequences, Lists

CONSTANTS
    Discs,      \* discs to look at, see IsDisc
    MaxDepth,   \* MAX_DIRECTORY_DEPTH
    Unused,     \* $FFFF, a list that is not used
    Multiplier  \* the offset multipliers a disc may have

\* An entry of a directory. A volume: whether it names a root directory, and
\* which, and the entries of the directories that can be read.
DirectoryEntry == [name : STRING, dir : BOOLEAN, lba : Nat]
IsVolume(v) ==
    /\ v.rooted \in BOOLEAN /\ v.root \in Nat
    /\ IsFiniteSet(DOMAIN v.dirs)
    /\ \A l \in DOMAIN v.dirs : v.dirs[l] \in Seq(DirectoryEntry)

\* A disc: the volumes it has a label of, whether it bears the marks of a Bridge
\* disc, the sectors of files, and the tables of Video CD navigation: LOT gives
\* offsets of lists, PSD what is at an offset. Both kinds of directories are in
\* the same sectors, and the root of a CD-i volume is not 0.
IsDisc(d) ==
    /\ DOMAIN d.volumes \subseteq {"cdi", "iso"} /\ d.bridge \in BOOLEAN
    /\ \A v \in DOMAIN d.volumes :
        /\ IsVolume(d.volumes[v])
        /\ v = "cdi" => (d.volumes[v].rooted <=> d.volumes[v].root # 0)
        /\ \A w \in DOMAIN d.volumes : DOMAIN d.volumes[v].dirs = DOMAIN d.volumes[w].dirs
        /\ \A l \in DOMAIN d.volumes[v].dirs : \A i \in DOMAIN d.volumes[v].dirs[l] :
            ~d.volumes[v].dirs[l][i].dir => d.volumes[v].dirs[l][i].name \in DOMAIN d.sectors
    /\ d.maximum \in Nat /\ d.lot \in Seq(Nat) /\ d.multiplier \in Multiplier

ASSUME InventoryAssumption ==
    /\ MaxDepth \in Nat /\ \A d \in Discs : IsDisc(d)
    /\ Multiplier \subseteq Nat /\ Unused \in Nat

VARIABLES
    cd,         \* the disc
    phase,
    volume,     \* the kind of volume looked for, or walked
    queue,      \* directories to read: [lba, depth]
    visited,    \* and read
    entries,    \* of each volume, its files and directories; their order by path is left out
    warnings,
    realtime,   \* the files with real-time sectors, and how much was scanned
    dvc,        \* `requires_dvc`
    profile,    \* `profile` of the disc
    lists       \* the lists navigated by

inventoryVars == <<cd, phase, volume, queue, visited, entries, warnings, realtime, dvc, profile, lists>>

Warn(what) == warnings' = Append(warnings, what)

-----------------------------------------------------------------------------
(* The volumes. One sector bears the label of one kind, or of both: the    *)
(* CD-i volume is inspected first, then that of ISO, whatever was found.   *)

Labelled(v) == v \in DOMAIN cd.volumes
Volume == cd.volumes[volume]

\* What is looked at once a volume is done with: its queue is forgotten.
AfterVolume == IF volume = "cdi" THEN "volume" ELSE "scan"
NextVolume == phase' = AfterVolume /\ volume' = "iso" /\ queue' = <<>> /\ visited' = {}

\* A CD-i volume may have no root; the root record of an ISO volume must be
\* valid, or the disc has no inventory.
InspectVolume ==
    /\ phase = "volume"
    /\ \/ ~Labelled(volume) /\ NextVolume /\ UNCHANGED warnings
       \/ Labelled(volume) /\ ~Volume.rooted /\ volume = "cdi" /\ NextVolume /\ Warn("no root")
       \/ /\ Labelled(volume) /\ ~Volume.rooted /\ volume = "iso"
          /\ phase' = "failed" /\ UNCHANGED <<volume, queue, visited, warnings>>
       \/ /\ Labelled(volume) /\ Volume.rooted
          /\ phase' = "walk" /\ queue' = <<[lba |-> Volume.root, depth |-> 0]>>
          /\ UNCHANGED <<volume, visited, warnings>>
    /\ UNCHANGED <<cd, entries, realtime, dvc, profile, lists>>

\* Mutant: a directory is read before those found earlier.
EnqueueFirst(found) == found \o Tail(queue)

\* Directories are read in the order they are found.
Enqueue(found) == Tail(queue) \o found

Skipped(d) == d.depth > MaxDepth \/ d.lba \in visited

\* `walk_cdi_directories` and `walk_iso_directories`. The first cannot do
\* without a directory, the second reads what there is.
WalkDirectory ==
    /\ phase = "walk" /\ queue # <<>>
    /\ LET d == Head(queue)
           readable == d.lba \in DOMAIN Volume.dirs
           got == IF readable THEN Volume.dirs[d.lba] ELSE <<>>
           below == Retained(got, {i \in DOMAIN got : got[i].dir})
       IN IF Skipped(d)
          THEN queue' = Tail(queue) /\ UNCHANGED <<phase, visited, entries, warnings>>
          ELSE /\ visited' = visited \cup {d.lba}
               /\ entries' = [entries EXCEPT ![volume] = @ \o got]
               /\ queue' = Enqueue([i \in DOMAIN below |->
                                        [lba |-> below[i].lba, depth |-> d.depth + 1]])
               /\ phase' = IF ~readable /\ volume = "cdi" THEN "failed" ELSE phase
               /\ IF readable THEN UNCHANGED warnings ELSE Warn("short directory")
    /\ UNCHANGED <<cd, volume, realtime, dvc, profile, lists>>

EndWalk ==
    /\ phase = "walk" /\ queue = <<>>
    /\ NextVolume
    /\ UNCHANGED <<cd, entries, warnings, realtime, dvc, profile, lists>>

-----------------------------------------------------------------------------
\* `inspect_realtime_file`: sectors are looked at up to one that is unreadable.
\* A file of MPEG sectors needs the cartridge. The files are those of the CD-i
\* volume, and only if there is none those of ISO.
Files == IF Labelled("cdi") THEN entries["cdi"] ELSE entries["iso"]
Names == {Files[i].name : i \in {j \in DOMAIN Files : ~Files[j].dir}}

ReadableOf(name) ==
    LET s == cd.sectors[name]  bad == LeastIn({i \in DOMAIN s : s[i] = "unreadable"}) IN
    IF bad = 0 THEN s ELSE SubSeq(s, 1, bad - 1)

IsRealtime(s) == \E i \in DOMAIN s : s[i] \in {"realtime", "mpeg"}

ScanFiles ==
    /\ phase = "scan"
    /\ LET found == {n \in Names : IsRealtime(ReadableOf(n))}
           short == Retained(Files, {i \in DOMAIN Files :
               ~Files[i].dir /\ ReadableOf(Files[i].name) # cd.sectors[Files[i].name]})
       IN /\ realtime' = {[name |-> n, scanned |-> Len(ReadableOf(n))] : n \in found}
          /\ dvc' = \E n \in found : \E i \in DOMAIN ReadableOf(n) : ReadableOf(n)[i] = "mpeg"
          /\ warnings' = warnings \o [i \in DOMAIN short |-> <<"stopped", short[i].name>>]
    /\ phase' = "classify"
    /\ UNCHANGED <<cd, volume, queue, visited, entries, profile, lists>>

\* `classify_disc_content`, from the names of files.
Has(name) == name \in Names
IsPhotoCd == Has("PHOTO_CD/INFO.PCD") /\ Has("PHOTO_CD/IMAGES")
IsVideoCd ==
    /\ Has("MPEGAV/AVSEQ01.DAT")
    /\ (Has("VCD/INFO.VCD") /\ Has("VCD/ENTRIES.VCD")) \/ Has("CDI/CDI_VCD.APP")

Classify ==
    /\ phase = "classify"
    /\ profile' = CASE cd.bridge /\ IsPhotoCd -> "photo-cd"
                 [] cd.bridge /\ ~IsPhotoCd /\ IsVideoCd -> "video-cd"
                 [] OTHER -> IF Labelled("cdi") THEN "native-cdi"
                             ELSE IF cd.bridge THEN "cd-rom-xa-bridge" ELSE "unknown"
    /\ phase' = IF profile' = "video-cd" /\ Has("VCD/INFO.VCD") /\ Has("VCD/ENTRIES.VCD")
                THEN "navigation" ELSE "done"
    /\ UNCHANGED <<cd, volume, queue, visited, entries, warnings, realtime, dvc, lists>>

-----------------------------------------------------------------------------
(* `parse_vcd_lists`: one list after the other.                            *)

NextId == Len(lists.seen) + 1

\* What a list is: nothing if its offset is past the end, or cut short.
ListAt(id) ==
    LET at == cd.lot[id] * cd.multiplier IN
    IF at \in DOMAIN cd.psd THEN cd.psd[at] ELSE [kind |-> "none", id |-> 0]

See(what, listed) ==
    lists' = [seen |-> Append(lists.seen, what),
              listed |-> IF listed THEN Append(lists.listed, NextId) ELSE lists.listed]

Navigates == phase = "navigation" /\ cd.multiplier # 0
             /\ NextId <= cd.maximum /\ NextId <= Len(cd.lot)

SkipList ==
    /\ Navigates /\ cd.lot[NextId] = Unused
    /\ See("unused", FALSE)
    /\ UNCHANGED <<phase, warnings>>

BrokenList ==
    /\ Navigates /\ cd.lot[NextId] # Unused /\ ListAt(NextId).kind = "none"
    /\ See("broken", FALSE) /\ Warn("broken list")
    /\ UNCHANGED phase

\* The end list has no number of its own; one of another number is told of.
ReadList ==
    /\ Navigates /\ cd.lot[NextId] # Unused /\ ListAt(NextId).kind # "none"
    /\ See("read", TRUE)
    /\ IF ListAt(NextId).kind # "end" /\ ListAt(NextId).id # NextId
       THEN Warn("another list") ELSE UNCHANGED warnings
    /\ UNCHANGED phase

EndNavigation ==
    /\ phase = "navigation" /\ ~Navigates
    /\ phase' = "done"
    /\ IF cd.multiplier = 0 \/ NextId <= cd.maximum THEN Warn("navigation cut short")
       ELSE UNCHANGED warnings
    /\ UNCHANGED lists

Navigate ==
    /\ SkipList \/ BrokenList \/ ReadList \/ EndNavigation
    /\ UNCHANGED <<cd, volume, queue, visited, entries, realtime, dvc, profile>>

NothingFound == [v \in {"cdi", "iso"} |-> <<>>]

\* The next disc, or the same.
InspectAgain(next) ==
    /\ phase \in {"done", "failed"}
    /\ phase' = "volume" /\ volume' = "cdi" /\ queue' = <<>> /\ visited' = {}
    /\ entries' = NothingFound
    /\ warnings' = <<>> /\ realtime' = {} /\ dvc' = FALSE /\ profile' = "unknown"
    /\ lists' = [seen |-> <<>>, listed |-> <<>>]
    /\ cd' = next

InventoryInit ==
    /\ cd \in Discs /\ phase = "volume" /\ volume = "cdi"
    /\ queue = <<>> /\ visited = {} /\ entries = NothingFound /\ warnings = <<>>
    /\ realtime = {} /\ dvc = FALSE /\ profile = "unknown"
    /\ lists = [seen |-> <<>>, listed |-> <<>>]

Inspect == InspectVolume \/ WalkDirectory \/ EndWalk \/ ScanFiles \/ Classify \/ Navigate

InventoryNext == Inspect \/ \E d \in Discs : InspectAgain(d)

InventorySpec == InventoryInit /\ [][InventoryNext]_inventoryVars

-----------------------------------------------------------------------------
Phases == {"volume", "walk", "scan", "classify", "navigation", "done", "failed"}

InventoryTypeOK ==
    /\ IsDisc(cd) /\ phase \in Phases /\ volume \in {"cdi", "iso"} /\ dvc \in BOOLEAN
    /\ profile \in {"photo-cd", "video-cd", "native-cdi", "cd-rom-xa-bridge", "unknown"}
    /\ \A i \in DOMAIN queue : queue[i].depth \in 0..(MaxDepth + 1)

\* The directories of a volume at a distance from the root, over those that can
\* be read.
Subdirectories(v, l) ==
    IF l \in DOMAIN v.dirs
    THEN {v.dirs[l][i].lba : i \in {j \in DOMAIN v.dirs[l] : v.dirs[l][j].dir}}
    ELSE {}
WithBelow(v, dirs) == dirs \cup UNION {Subdirectories(v, l) : l \in dirs}
Within(v, depth) ==
    LET reach[n \in 0..MaxDepth] == IF n = 0 THEN {v.root} ELSE WithBelow(v, reach[n - 1])
    IN reach[depth]

\* The rows of directories: <<directory, row>>.
Rows(v, dirs) == UNION {{l} \X DOMAIN v.dirs[l] : l \in dirs}
RowAt(v, p) == v.dirs[p[1]][p[2]]

\* Whatever ring the directories are linked in, each is read once and the walk
\* ends: no more is ever queued than there are entries (inventory.rs:467).
WalkEnds ==
    phase = "walk" =>
        Cardinality(visited) + Len(queue) <= 1 + Cardinality(Rows(Volume, DOMAIN Volume.dirs))

\* A list has what is in the directories of a volume within the depth limit by
\* the shortest way, each entry once, and nothing else.
ListsVolume(list, v) ==
    LET rows == Rows(v, Within(v, MaxDepth) \cap DOMAIN v.dirs)
    IN \A e \in {RowAt(v, p) : p \in rows} \cup {list[j] : j \in DOMAIN list} :
           Cardinality({j \in DOMAIN list : list[j] = e}) = Cardinality({p \in rows : RowAt(v, p) = e})

LacksSome(v) == ~(Within(v, MaxDepth) \subseteq DOMAIN v.dirs)

\* An inventory lists what is in both volumes of a disc and, without a label or
\* a root, nothing. There is none exactly when a directory of the CD-i volume
\* cannot be read or the root record of the ISO volume is invalid, even if its
\* files are not the ones used; directories of an ISO volume may be missing
\* (inventory.rs:338, 450, 467, 520).
ListsWhatIsThere ==
    /\ phase \in {"scan", "classify", "navigation", "done"} =>
        \A v \in {"cdi", "iso"} :
            IF Labelled(v) /\ cd.volumes[v].rooted THEN ListsVolume(entries[v], cd.volumes[v])
                                                  ELSE entries[v] = <<>>
    /\ phase \in {"failed", "done"} =>
        (phase = "failed" <=>
            \/ Labelled("cdi") /\ cd.volumes["cdi"].rooted /\ LacksSome(cd.volumes["cdi"])
            \/ Labelled("iso") /\ ~cd.volumes["iso"].rooted)

\* Every list that is used and can be read is listed, in the order of their
\* numbers, whatever is wrong with the ones before it (inventory.rs:829).
ListsNavigable ==
    phase = "done" /\ profile = "video-cd" /\ lists.seen # <<>> =>
        lists.listed = Ascending({i \in DOMAIN cd.lot :
            i <= cd.maximum /\ cd.lot[i] # Unused /\ ListAt(i).kind # "none"})

InventoryInv == InventoryTypeOK /\ WalkEnds /\ ListsWhatIsThere /\ ListsNavigable
=============================================================================
