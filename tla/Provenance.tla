----------------------------- MODULE Provenance -----------------------------
(***************************************************************************)
(* What the diagnostics tell of the way of a sector (machine.rs and        *)
(* diagnostics.rs): the capture on the bus, which remembers where CDIC DMA *)
(* put real-time sectors, whose bytes the guest changed since and what the *)
(* cartridge was fed, and the tracker of the guest's PCLs, the buffers of  *)
(* its CD-RTOS play commands, found from the DMA that fills them.          *)
(*                                                                         *)
(* Addresses count units of which a real-time payload takes RealTime; all  *)
(* buffers of PCLs are of one size, for a real-time submode that is known. *)
(* One PCB is all the guest has.                                           *)
(***************************************************************************)
EXTENDS Integers, Sequences, Lists

CONSTANTS
    Pcl,        \* addresses of PCLs
    Nil,        \* a `next` of 0
    Buffers,    \* where a buffer of a PCL may be; not all of it may be memory
    BufferSize, \* `pcl_buffer_capacity`
    Memory,     \* addresses of guest memory
    Payload,    \* sizes of CDIC transfers
    RealTime,   \* the least size of one that is watched
    MaxRegions, \* MAX_WATCHED_CDIC_REGIONS
    Decoders,   \* what the cartridge can be fed
    MaxAccesses \* bound: accesses of an instruction

ASSUME ProvenanceAssumption ==
    /\ Pcl \subseteq Nat /\ IsFiniteSet(Pcl) /\ Nil \notin Pcl
    /\ Memory \subseteq Nat /\ Payload \subseteq Nat \ {0} /\ BufferSize \in Nat /\ RealTime \in Nat \ {0}
    /\ MaxRegions \in Nat \ {0} /\ MaxAccesses \in Nat \ {0}

VARIABLES
    pcl,        \* the PCLs in memory: [full, count, next, buffer]
    linked,     \* the PCLs a channel list of the PCB points to
    records,    \* `records_remaining` of the PCB
    watched,    \* PclOwnershipTracker: PCL -> [snapshot, context, retried]
    watchedPcb, \* the PCB's records when last looked at, -1 if unknown
    regions,    \* `watched_cdic_regions`, the oldest first
    writes,     \* `pending_guest_writes`
    transfers,  \* `pending`, the DMA observations
    inFlight,   \* `dvc_in_flight`; nothing if it has no words
    dma1,       \* the channel feeding the cartridge: [at, left]
    target,     \* what the cartridge is being fed
    accesses,   \* of this instruction
    told        \* history, see Silent

trackerVars == <<watched, watchedPcb>>
captureVars == <<regions, writes, transfers, inFlight>>
guestVars == <<pcl, linked, records>>
provenanceVars == <<guestVars, trackerVars, captureVars, dma1, target, accesses, told>>

\* States last reported of PCLs and the PCB, overwrite risks reported in the
\* last sample, the DMA seen in it, and since it the changed bytes of watched
\* regions and the words fed to the cartridge.
Silent == [states |-> <<>>, pcb |-> -1, risks |-> <<>>, dma |-> {}, bytes |-> 0, words |-> 0]

Span(at, n) == at..(at + n - 1)
Overlap(r, s) == Span(r.at, r.n) \cap Span(s.at, s.n) # {}
NoFlight == [at |-> 0, n |-> 0, target |-> CHOOSE t \in Decoders : TRUE]

AnotherAccess == accesses < MaxAccesses /\ accesses' = accesses + 1

-----------------------------------------------------------------------------
(* The capture (machine.rs).                                               *)

Apart(region) == Retained(regions, {i \in DOMAIN regions : ~Overlap(regions[i], region)})

\* `watch_cdic_region`.
Watch(region) ==
    LET kept == Apart(region) IN
    Append(IF Len(kept) = MaxRegions THEN Tail(kept) ELSE kept, region)

\* `cdic_dma` to memory. Bound: one in an instruction.
CdicDma(at, n) ==
    /\ AnotherAccess
    /\ Span(at, n) \subseteq Memory
    /\ ~\E i \in DOMAIN transfers : transfers[i].channel = 0
    /\ regions' = IF n >= RealTime THEN Watch([at |-> at, n |-> n]) ELSE regions
    /\ transfers' = Append(transfers, [channel |-> 0, at |-> at, n |-> n, completed |-> TRUE])
    /\ UNCHANGED <<guestVars, trackerVars, writes, inFlight, dma1, target, told>>

\* The last that covers it, 0 for none.
SourceOf(addr) ==
    LET covers == {i \in DOMAIN regions : addr \in Span(regions[i].at, regions[i].n)} IN
    IF covers = {} THEN 0 ELSE CHOOSE i \in covers : \A j \in covers : j <= i

\* `observe_guest_write` of a byte that changes: one behind the last joins it.
GuestWrite(addr) ==
    /\ AnotherAccess /\ addr \in Memory
    /\ LET i == SourceOf(addr)
           last == Len(writes)
           joins == last # 0 /\ writes[last].region = regions[i]
                    /\ writes[last].at + writes[last].n = addr
       IN /\ writes' = CASE i = 0 -> writes
                         [] i # 0 /\ joins -> [writes EXCEPT ![last].n = @ + 1]
                         [] OTHER -> Append(writes, [at |-> addr, n |-> 1, region |-> regions[i]])
          /\ told' = [told EXCEPT !.bytes = @ + IF i = 0 THEN 0 ELSE 1]
    /\ UNCHANGED <<guestVars, trackerVars, regions, transfers, inFlight, dma1, target>>

Observation(flight, completed) ==
    [channel |-> 1, at |-> flight.at, n |-> flight.n, completed |-> completed]

\* The words in flight become an observation.
Flush(flight, completed) ==
    IF flight.n = 0 THEN transfers ELSE Append(transfers, Observation(flight, completed))

Consumed(flight) == IF flight.n = 0 THEN regions ELSE Apart(flight)

\* One word of `service_dvc_dma` and `observe_dvc_dma_word`, and the end of the
\* transfer with the last one.
FeedWord ==
    /\ AnotherAccess /\ dma1.left > 0 /\ dma1.at \in Memory
    /\ LET jumps == inFlight.n # 0 /\ (inFlight.at + inFlight.n # dma1.at \/ inFlight.target # target)
           flight == IF jumps \/ inFlight.n = 0 THEN [at |-> dma1.at, n |-> 1, target |-> target]
                     ELSE [inFlight EXCEPT !.n = @ + 1]
           flushed == IF jumps THEN Flush(inFlight, FALSE) ELSE transfers
       IN IF dma1.left = 1
          THEN /\ inFlight' = NoFlight
               /\ transfers' = Append(flushed, Observation(flight, TRUE))
               /\ regions' = Consumed(flight)
          ELSE inFlight' = flight /\ transfers' = flushed /\ UNCHANGED regions
    /\ dma1' = [at |-> dma1.at + 1, left |-> dma1.left - 1]
    /\ told' = [told EXCEPT !.words = @ + 1]
    /\ UNCHANGED <<guestVars, trackerVars, writes, target>>

\* A channel found inactive ends what is in flight unfinished.
FindInactive ==
    /\ AnotherAccess /\ dma1.left = 0 /\ inFlight.n # 0
    /\ transfers' = Flush(inFlight, FALSE)
    /\ inFlight' = NoFlight
    /\ UNCHANGED <<guestVars, trackerVars, regions, writes, dma1, target, told>>

\* The guest writes the registers of the channel, also in the middle.
WriteDma1(at, left) ==
    /\ AnotherAccess
    /\ dma1' = [at |-> at, left |-> left]
    /\ UNCHANGED <<guestVars, trackerVars, captureVars, target, told>>

Retarget(t) ==
    /\ AnotherAccess /\ t # target /\ target' = t
    /\ UNCHANGED <<guestVars, trackerVars, captureVars, dma1, told>>

-----------------------------------------------------------------------------
(* The guest's PCLs. Bound: one access of an instruction is to a PCL.      *)

EditPcl(p, value) ==
    /\ accesses = 0 /\ accesses' = 1
    /\ value # pcl[p]
    /\ pcl' = [pcl EXCEPT ![p] = value]
    /\ UNCHANGED <<linked, records, trackerVars, captureVars, dma1, target, told>>

\* CDFM advances the count, marks the buffer full and turns to the next; the
\* application releases it; either may set it up anew.
Advance(p) == pcl[p].count < BufferSize /\ EditPcl(p, [pcl[p] EXCEPT !.count = @ + RealTime])
Fill(p) == EditPcl(p, [pcl[p] EXCEPT !.full = TRUE])
Release(p) == EditPcl(p, [pcl[p] EXCEPT !.full = FALSE, !.count = 0])
Relink(p, next) == EditPcl(p, [pcl[p] EXCEPT !.next = next])
Rebase(p, buffer) == EditPcl(p, [pcl[p] EXCEPT !.buffer = buffer])

\* A channel list is pointed at a PCL, a record is played.
LinkPcl(p) ==
    /\ accesses = 0 /\ accesses' = 1
    /\ p \notin linked /\ linked' = linked \cup {p}
    /\ UNCHANGED <<pcl, records, trackerVars, captureVars, dma1, target, told>>
PlayRecord ==
    /\ accesses = 0 /\ accesses' = 1
    /\ records > 0 /\ records' = records - 1
    /\ UNCHANGED <<pcl, linked, trackerVars, captureVars, dma1, target, told>>

-----------------------------------------------------------------------------
(* The tracker (diagnostics.rs).                                           *)

RangeContains(s, at, n) == at >= s.buffer /\ at + n <= s.buffer + BufferSize
Plausible(s) == s.count <= BufferSize /\ Span(s.buffer, BufferSize) \subseteq Memory

\* `discover_pcls`: by the count, before or behind the transfer.
Discoverable(s, at, n) ==
    /\ Plausible(s) /\ s.next # Nil
    /\ RangeContains(s, at, n)
    /\ \/ at = s.buffer + s.count
       \/ at + n = s.buffer + s.count
       \/ s.full /\ at = s.buffer

\* `watch_chain`: the PCLs that follow, up to one that is watched already.
ChainFrom(first, known) ==
    LET walk[i \in 0..Cardinality(Pcl)] ==
            IF i = 0 THEN [at |-> first, members |-> {}]
            ELSE LET w == walk[i - 1] IN
                 IF w.at = Nil \/ w.at \in known \cup w.members \/ ~Plausible(pcl[w.at]) THEN w
                 ELSE [at |-> pcl[w.at].next, members |-> w.members \cup {w.at}]
    IN walk[Cardinality(Pcl)].members

\* All of a chain gets the context of its first.
WatchChain(w, first) ==
    LET new == ChainFrom(first, DOMAIN w) IN
    [p \in DOMAIN w \cup new |->
        IF p \in DOMAIN w THEN w[p]
        ELSE [snapshot |-> pcl[p], context |-> first \in linked, retried |-> FALSE]]

\* `sample`: a PCL that changed without a context is looked up once more.
Sampled(w) ==
    [p \in DOMAIN w |->
        LET retry == pcl[p] # w[p].snapshot /\ ~w[p].context /\ ~w[p].retried IN
        [snapshot |-> pcl[p],
         context |-> w[p].context \/ (retry /\ p \in linked),
         retried |-> w[p].retried \/ retry]]

Matching(w, d) == {p \in DOMAIN w : RangeContains(w[p].snapshot, d.at, d.n)}
Full(w, matches) == {p \in matches : w[p].snapshot.full}

\* `observe_cdic_dma`: PCLs are looked for when none that is watched matches.
Observed(w, d) ==
    IF Matching(w, d) # {} THEN w
    ELSE LET found == Ascending({p \in Pcl : Discoverable(pcl[p], d.at, d.n)})
             upTo[i \in 0..Len(found)] == IF i = 0 THEN w ELSE WatchChain(upTo[i - 1], found[i])
         IN upTo[Len(found)]

\* Mutant: what was found full before the search is told again behind it.
RisksTwice(before, after, d) ==
    [p \in DOMAIN after |->
        (IF p \in DOMAIN before /\ p \in Full(before, Matching(before, d)) THEN 1 ELSE 0)
        + (IF p \in Full(after, Matching(after, d)) THEN 1 ELSE 0)]

\* Told of the watched, and then of the found that was not told of.
Risks(before, after, d) ==
    LET first == Full(before, Matching(before, d)) IN
    [p \in DOMAIN after |->
        (IF p \in first THEN 1 ELSE 0)
        + (IF p \in Full(after, Matching(after, d)) \ first THEN 1 ELSE 0)]

\* The sample at the end of an instruction.
SampleDmaAndPcl ==
    /\ accesses > 0 /\ accesses' = 0
    /\ LET dma == {transfers[i] : i \in {j \in DOMAIN transfers : transfers[j].channel = 0}}
           before == Sampled(watched)
           after == IF dma = {} THEN before ELSE Observed(before, CHOOSE d \in dma : TRUE)
           pcbKnown == watchedPcb # -1 \/ \E p \in DOMAIN after : after[p].context
           changed(p) == p \notin DOMAIN watched \/ watched[p].snapshot # after[p].snapshot
       IN /\ watched' = after
          /\ watchedPcb' = IF pcbKnown THEN records ELSE -1
          /\ told' = [states |-> [p \in DOMAIN after |->
                                    IF changed(p) THEN after[p].snapshot ELSE told.states[p]],
                      pcb |-> IF watchedPcb' # watchedPcb THEN records ELSE told.pcb,
                      risks |-> IF dma = {} THEN [p \in DOMAIN after |-> 0]
                                ELSE Risks(before, after, CHOOSE d \in dma : TRUE),
                      dma |-> dma,
                      bytes |-> 0,
                      words |-> inFlight.n]
    /\ writes' = <<>> /\ transfers' = <<>>
    /\ UNCHANGED <<guestVars, regions, inFlight, dma1, target>>

\* A reset of the host forgets the tracker and the capture with it.
ResetDiagnostics ==
    /\ watched' = <<>> /\ watchedPcb' = -1
    /\ regions' = <<>> /\ writes' = <<>> /\ transfers' = <<>> /\ inFlight' = NoFlight
    /\ dma1' = [at |-> 0, left |-> 0] /\ target' = NoFlight.target
    /\ accesses' = 0 /\ told' = Silent
    /\ UNCHANGED guestVars

ProvenanceInit ==
    /\ pcl \in [Pcl -> [full : {FALSE}, count : {0}, next : {Nil}, buffer : Buffers]]
    /\ linked = {} /\ records = 1
    /\ watched = <<>> /\ watchedPcb = -1
    /\ regions = <<>> /\ writes = <<>> /\ transfers = <<>> /\ inFlight = NoFlight
    /\ dma1 = [at |-> 0, left |-> 0] /\ target = NoFlight.target
    /\ accesses = 0 /\ told = Silent

ProvenanceNext ==
    \/ \E at \in Memory, n \in Payload : CdicDma(at, n)
    \/ \E addr \in Memory : GuestWrite(addr)
    \/ FeedWord \/ FindInactive
    \/ \E at \in Memory, left \in Nat : WriteDma1(at, left)
    \/ \E t \in Decoders : Retarget(t)
    \/ \E p \in Pcl : \/ Advance(p) \/ Fill(p) \/ Release(p) \/ LinkPcl(p)
                      \/ \E next \in Pcl \cup {Nil} : Relink(p, next)
                      \/ \E b \in Buffers : Rebase(p, b)
    \/ PlayRecord
    \/ SampleDmaAndPcl \/ ResetDiagnostics

ProvenanceSpec == ProvenanceInit /\ [][ProvenanceNext]_provenanceVars

-----------------------------------------------------------------------------
ProvenanceTypeOK ==
    /\ DOMAIN watched \subseteq Pcl /\ DOMAIN told.states = DOMAIN watched
    /\ watchedPcb \in -1..1
    /\ accesses \in 0..MaxAccesses
    /\ inFlight.n \in Nat

\* The watched sectors never overlap, so that a byte has one source
\* (machine.rs:111).
RegionsDisjoint ==
    /\ Len(regions) <= MaxRegions
    /\ \A i, j \in DOMAIN regions : i # j => ~Overlap(regions[i], regions[j])

WriteSizes == [i \in DOMAIN writes |-> writes[i].n]
FedSizes == [i \in DOMAIN transfers |-> IF transfers[i].channel = 1 THEN transfers[i].n ELSE 0]

\* Each changed byte of a watched sector is told of once, within the sector it
\* came in, and each word of the cartridge is in one observation or in flight
\* (machine.rs:124, 892).
NothingLost ==
    /\ Total(WriteSizes) = told.bytes
    /\ \A i \in DOMAIN writes :
        Span(writes[i].at, writes[i].n) \subseteq Span(writes[i].region.at, writes[i].region.n)
    /\ Total(FedSizes) + inFlight.n = told.words

\* After each instruction what was last told of a PCL and of the PCB is what is
\* in memory, whatever chain it was found in (diagnostics.rs:674).
TrackerCurrent ==
    accesses = 0 =>
        /\ \A p \in DOMAIN watched : told.states[p] = pcl[p] /\ watched[p].snapshot = pcl[p]
        /\ (\E p \in DOMAIN watched : watched[p].context) => told.pcb = records

\* Every sector that lands in a full buffer is told of, and once
\* (diagnostics.rs:601).
OverwritesTold ==
    accesses = 0 => \A p \in DOMAIN watched :
        told.risks[p] = Cardinality({d \in told.dma : RangeContains(pcl[p], d.at, d.n) /\ pcl[p].full})

ProvenanceInv ==
    ProvenanceTypeOK /\ RegionsDisjoint /\ NothingLost /\ TrackerCurrent /\ OverwritesTold
=============================================================================
