----------------------------- MODULE DiscLayout -----------------------------
(***************************************************************************)
(* How a disc image is laid out (cdi-disc: cuesheet.rs, image.rs): a CUE   *)
(* sheet is read line by line, whatever order its lines are in, and its    *)
(* files are laid end to end in absolute time with their tracks in them.   *)
(***************************************************************************)
EXTENDS Integers, Sequences, Lists

CONSTANTS
    FileSizes,      \* sectors of the files a sheet names
    Offsets,    \* offsets of an INDEX, in sectors of its file
    Gap,        \* 150: the pregap of the first track, when it is not stored
    MaxLines    \* bound: lines of a sheet

\* Files that cannot be opened, and of a size no whole number of sectors makes.
Missing == -1
Ragged == -2

ASSUME LayoutAssumption == FileSizes \cup Offsets \subseteq Nat /\ Gap \in Nat \ {0} /\ MaxLines \in Nat

VARIABLES
    cue,        \* the files read so far: [size, tracks], a track its indexes
    lines,
    disc        \* [status], and when loaded its regions, tracks and lead-out

layoutVars == <<cue, lines, disc>>

Reading == [status |-> "reading"]
Refused == [status |-> "refused"]
LineRead == disc = Reading /\ lines < MaxLines /\ lines' = lines + 1

-----------------------------------------------------------------------------
(* `parse_cue`.                                                            *)

FileLine(size, binary) ==
    /\ LineRead
    /\ IF binary THEN cue' = Append(cue, [size |-> size, tracks |-> <<>>]) /\ UNCHANGED disc
                 ELSE disc' = Refused /\ UNCHANGED cue

TrackLine(supported) ==
    /\ LineRead
    /\ IF cue # <<>> /\ supported
       THEN cue' = [cue EXCEPT ![Len(cue)].tracks = Append(@, <<>>)] /\ UNCHANGED disc
       ELSE disc' = Refused /\ UNCHANGED cue

IndexLine(n, offset) ==
    /\ LineRead
    /\ LET f == Len(cue)  t == IF f = 0 THEN 0 ELSE Len(cue[f].tracks) IN
       IF t # 0 THEN /\ cue' = [cue EXCEPT ![f].tracks[t] = Append(@, [n |-> n, offset |-> offset])]
                     /\ UNCHANGED disc
                ELSE disc' = Refused /\ UNCHANGED cue

-----------------------------------------------------------------------------
(* `load`.                                                                 *)

AllTracks == EndToEnd([f \in DOMAIN cue |-> cue[f].tracks])
Stores(track, n) == \E i \in DOMAIN track : track[i].n = n

\* Where the first file starts.
FirstFrame == IF AllTracks # <<>> /\ Stores(AllTracks[1], 0) THEN 0 ELSE Gap

FileSectors == [f \in DOMAIN cue |-> cue[f].size]
FileStart(f) == FirstFrame + SumTo(FileSectors, f - 1)

FirstOffset(track) == IF track = <<>> THEN 0 ELSE track[1].offset
StartOffset(track) == track[LeastIn({i \in DOMAIN track : track[i].n = 1})].offset

\* A track ends where the next of its file begins; one without an INDEX has no
\* beginning.
RegionEnd(f, t) ==
    LET tracks == cue[f].tracks IN
    IF t < Len(tracks) /\ tracks[t + 1] # <<>> THEN FirstOffset(tracks[t + 1]) ELSE cue[f].size

Track(f, t) ==
    LET track == cue[f].tracks[t]  at == FileStart(f) IN
    [regionStart |-> at + FirstOffset(track), start |-> at + StartOffset(track),
     end |-> at + RegionEnd(f, t)]

Loadable ==
    /\ AllTracks # <<>>
    /\ \A f \in DOMAIN cue : cue[f].size \notin {Missing, Ragged}
    /\ \A i \in DOMAIN AllTracks : Stores(AllTracks[i], 1)

Loaded ==
    [status |-> "loaded",
     regions |-> [f \in DOMAIN cue |-> [start |-> FileStart(f), sectors |-> cue[f].size]],
     tracks |-> EndToEnd([f \in DOMAIN cue |-> [t \in DOMAIN cue[f].tracks |-> Track(f, t)]]),
     leadout |-> FileStart(Len(cue) + 1)]

LoadDisc ==
    /\ disc = Reading
    /\ disc' = IF Loadable THEN Loaded ELSE Refused
    /\ UNCHANGED <<cue, lines>>

\* The player is given another sheet.
NextSheet ==
    /\ disc # Reading
    /\ cue' = <<>> /\ lines' = 0 /\ disc' = Reading

LayoutInit == cue = <<>> /\ lines = 0 /\ disc = Reading

LayoutNext ==
    \/ \E size \in FileSizes \cup {Missing, Ragged}, binary \in BOOLEAN : FileLine(size, binary)
    \/ \E supported \in BOOLEAN : TrackLine(supported)
    \/ \E n \in {0, 1}, offset \in Offsets : IndexLine(n, offset)
    \/ LoadDisc \/ NextSheet

LayoutSpec == LayoutInit /\ [][LayoutNext]_layoutVars

-----------------------------------------------------------------------------
(* What a loaded disc answers.                                             *)

InRegion(r, abs) == abs >= r.start /\ abs < r.start + r.sectors
InTrack(t, abs) == abs >= t.regionStart /\ abs < t.end

\* `track_at`, 0 for none, and `read_sector_raw`: nothing past the lead-out,
\* zeros in the gap no file stores.
TrackAt(abs) == LeastIn({t \in DOMAIN disc.tracks : InTrack(disc.tracks[t], abs)})
ReadSectorRaw(abs) ==
    LET f == LeastIn({r \in DOMAIN disc.regions : InRegion(disc.regions[r], abs)}) IN
    CASE abs >= disc.leadout -> <<>>
      [] abs < disc.leadout /\ f = 0 -> <<0, 0>>
      [] OTHER -> <<f, abs - disc.regions[f].start>>

\* Where LBA 0 is (inventory.rs, image.rs).
LbaBase == IF disc.tracks[1].regionStart = 0 THEN 0 ELSE Gap

-----------------------------------------------------------------------------
LayoutTypeOK ==
    /\ disc.status \in {"reading", "refused", "loaded"}
    /\ \A f \in DOMAIN cue : cue[f].size \in FileSizes \cup {Missing, Ragged}
    /\ disc.status = "loaded" => Len(disc.tracks) = Len(AllTracks) /\ disc.leadout \in Nat

\* Each sector of each file is read at one frame, in their order, and nothing
\* but these between the first file and the lead-out, of any sheet
\* (image.rs:191).
SectorsOnce ==
    disc.status = "loaded" =>
        LET stored == disc.regions[1].start..(disc.leadout - 1)
            sectors == Total(FileSectors)
        IN /\ Cardinality({ReadSectorRaw(a) : a \in stored}) = sectors
           /\ Cardinality(stored) = sectors
           /\ \A a \in stored : ReadSectorRaw(a)[1] # 0
           /\ \A a \in 0..(disc.regions[1].start - 1) :
                a < disc.leadout => ReadSectorRaw(a) = <<0, 0>>

\* A sheet as rips are made: the indexes of each file begin with its first
\* sector and only go up, 00 before 01.
WellFormed ==
    \A f \in DOMAIN cue :
        LET tracks == cue[f].tracks IN
        /\ tracks # <<>> /\ tracks[1] # <<>> /\ tracks[1][1].offset = 0
        /\ \A t \in DOMAIN tracks :
            /\ \A i \in DOMAIN tracks[t] : tracks[t][i].offset < cue[f].size
            /\ \A i, j \in DOMAIN tracks[t] :
                i < j => tracks[t][i].n < tracks[t][j].n /\ tracks[t][i].offset < tracks[t][j].offset
            /\ \A u \in DOMAIN tracks : \A i \in DOMAIN tracks[t], j \in DOMAIN tracks[u] :
                t < u => tracks[t][i].offset < tracks[u][j].offset

\* Then every stored frame is of exactly one track, its own INDEX 01 of each,
\* and LBA 0 is the first sector of the first file, whether or not the pregap
\* is stored (image.rs:63).
TracksTile ==
    disc.status = "loaded" /\ WellFormed =>
        /\ \A a \in disc.regions[1].start..(disc.leadout - 1) :
            Cardinality({t \in DOMAIN disc.tracks : InTrack(disc.tracks[t], a)}) = 1
        /\ \A t \in DOMAIN disc.tracks : TrackAt(disc.tracks[t].start) = t
        /\ ReadSectorRaw(LbaBase) = <<1, 0>>

LayoutInv == LayoutTypeOK /\ SectorsOnce /\ TracksTile
=============================================================================
