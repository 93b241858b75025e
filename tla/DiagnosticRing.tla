--------------------------- MODULE DiagnosticRing ---------------------------
(***************************************************************************)
(* The bounded capture of diagnostic events (machine.rs): after every      *)
(* instruction the machine is compared with the probe of the sample before *)
(* and each part that changed gives an event; a full ring gives up its     *)
(* oldest ordinary event and keeps the milestones of the cartridge.        *)
(***************************************************************************)
EXTENDS Integers, Sequences

CONSTANTS
    Ordinary,       \* the probed parts of the machine, in the order sampled
    Capacities,     \* capacities the host asks for
    MaxEvents,      \* bound: events pushed since the ring was last emptied
    MaxCards        \* bound: cartridges attached

Milestone == "DvcMilestone"
Card == "DvcState"
\* `DvcMilestone` and `DvcState` are sampled last.
Order == Ordinary \o <<Milestone, Card>>
EventKinds == {Order[i] : i \in DOMAIN Order}

ASSUME RingAssumption ==
    /\ Ordinary \in Seq(STRING) /\ \A i, j \in DOMAIN Order : i # j => Order[i] # Order[j]
    /\ EventKinds \cap {"HostReset", "DiagnosticRamPatch"} = {}
    /\ Capacities \subseteq Nat /\ MaxEvents \in Nat /\ MaxCards \in Nat

VARIABLES
    machine,    \* each part; the cartridge is <<>> or its state and its clocks
    card,       \* cartridges attached so far
    mode, capacity, events, previous,
    pushes,     \* history: events since the ring was last emptied, numbered from 1
    lost        \* history: the last of them it gave up, of either sort

ringVars == <<machine, card, mode, capacity, events, previous, pushes, lost>>

HasDvc(m) == m[Card] # <<>>

\* `diagnostic_probe`: the clocks and the periodic timer bit of the cartridge
\* are masked out of what is compared.
Steady(registers) == IF registers = <<>> THEN <<>> ELSE <<registers[1], 0>>
DiagnosticProbe(m) == [m EXCEPT ![Card] = Steady(@)]

-----------------------------------------------------------------------------
Ring == [events |-> events, pushes |-> pushes, lost |-> lost]
Empty == [ordinary |-> 0, milestone |-> 0]

IsMilestone(e) == e.kind = Milestone
Ordinaries(s) == {i \in DOMAIN s : ~IsMilestone(s[i])}
Oldest(set) == CHOOSE i \in set : \A j \in set : i <= j
Removed(s, i) == [j \in 1..(Len(s) - 1) |-> IF j < i THEN s[j] ELSE s[j + 1]]

Lose(r, e) == [r EXCEPT !.lost[IF IsMilestone(e) THEN "milestone" ELSE "ordinary"] = e.at]

\* Room for `e` in a full ring.
Evict(r, e) ==
    LET i == IF Ordinaries(r.events) # {} THEN Oldest(Ordinaries(r.events)) ELSE 1 IN
    IF Ordinaries(r.events) = {} /\ ~IsMilestone(e) THEN Lose(r, e)
    ELSE [Lose(r, r.events[i]) EXCEPT !.events = Append(Removed(@, i), e)]

PushEvent(r, kind, value) ==
    LET e == [kind |-> kind, value |-> value, card |-> card, at |-> r.pushes + 1]
        counted == [r EXCEPT !.pushes = @ + 1]
    IN CASE mode = "off" -> r
         [] mode # "off" /\ Len(r.events) = capacity -> Evict(counted, e)
         [] OTHER -> [counted EXCEPT !.events = Append(@, e)]

\* A part an event is pushed for. One of the cartridge is pushed only while
\* there is a cartridge.
Tells(now, k) ==
    /\ now[k] # previous[k]
    /\ mode = "full" \/ k = Milestone
    /\ k \in {Milestone, Card} => HasDvc(now)

\* `sample_diagnostics` of machine `m`, part by part; an event holds the live
\* value.
SampledRing(r, m) ==
    LET upTo[n \in 0..Len(Order)] ==
            IF n = 0 THEN r
            ELSE IF Tells(DiagnosticProbe(m), Order[n]) THEN PushEvent(upTo[n - 1], Order[n], m[Order[n]])
            ELSE upTo[n - 1]
    IN upTo[Len(Order)]

SampleDiagnostics(r, m) ==
    /\ previous' = IF mode = "off" THEN previous ELSE DiagnosticProbe(m)
    /\ events' = SampledRing(r, m).events /\ pushes' = SampledRing(r, m).pushes /\ lost' = SampledRing(r, m).lost

-----------------------------------------------------------------------------
\* A part has two values.
Stepped(changed, ticks) ==
    [k \in EventKinds |->
        IF k = Card
        THEN IF ~HasDvc(machine) THEN <<>>
             ELSE <<IF k \in changed THEN 3 - machine[k][1] ELSE machine[k][1], ticks>>
        ELSE IF k \in changed /\ (k = Milestone => HasDvc(machine)) THEN 3 - machine[k]
        ELSE machine[k]]

\* `step`: one instruction, which may be the one the SLAVE resets the host in.
\* The event of the reset comes before those of what the instruction changed.
Step(changed, ticks, hostReset) ==
    /\ pushes < MaxEvents
    /\ machine' = Stepped(changed, ticks)
    /\ LET first == IF hostReset THEN PushEvent(Ring, "HostReset", 0) ELSE Ring IN
       SampleDiagnostics(first, machine')
    /\ UNCHANGED <<card, mode, capacity>>

\* `apply_diagnostic_ram_patch` is refused while nothing is captured.
ApplyDiagnosticRamPatch ==
    /\ mode # "off" /\ pushes < MaxEvents
    /\ SampleDiagnostics(PushEvent(Ring, "DiagnosticRamPatch", 0), machine)
    /\ UNCHANGED <<machine, card, mode, capacity>>

Capture(new, c) ==
    /\ mode' = IF c = 0 THEN "off" ELSE new
    /\ capacity' = c
    /\ events' = <<>> /\ lost' = Empty /\ pushes' = 0
    /\ previous' = DiagnosticProbe(machine)
    /\ UNCHANGED <<machine, card>>

EnableDiagnostics(c) == Capture("full", c)
EnableDvcMilestoneDiagnostics(c) == Capture("milestones", c)

TakeDiagnosticEvents ==
    /\ events # <<>>
    /\ events' = <<>> /\ lost' = Empty /\ pushes' = 0
    /\ UNCHANGED <<machine, card, mode, capacity, previous>>

\* A new cartridge starts with its counters at 0, which is a probe without one:
\* here 1 stands for both.
AttachDvc ==
    /\ ~HasDvc(machine) /\ card < MaxCards
    /\ machine' = [machine EXCEPT ![Card] = <<1, 0>>, ![Milestone] = 1]
    /\ card' = card + 1
    /\ UNCHANGED <<mode, capacity, events, previous, pushes, lost>>

DetachDvc ==
    /\ HasDvc(machine)
    /\ machine' = [machine EXCEPT ![Card] = <<>>, ![Milestone] = 1]
    /\ UNCHANGED <<card, mode, capacity, events, previous, pushes, lost>>

RingInit ==
    /\ machine = [k \in EventKinds |-> IF k = Card THEN <<>> ELSE 1]
    /\ card = 0
    /\ mode = "off" /\ capacity = 0 /\ events = <<>> /\ pushes = 0 /\ lost = Empty
    /\ previous = DiagnosticProbe(machine)

RingNext ==
    \/ \E changed \in SUBSET EventKinds, ticks \in {0, 1}, hostReset \in BOOLEAN : Step(changed, ticks, hostReset)
    \/ \E c \in Capacities : EnableDiagnostics(c) \/ EnableDvcMilestoneDiagnostics(c)
    \/ ApplyDiagnosticRamPatch \/ TakeDiagnosticEvents \/ AttachDvc \/ DetachDvc

RingSpec == RingInit /\ [][RingNext]_ringVars

-----------------------------------------------------------------------------
RingTypeOK ==
    /\ mode \in {"off", "full", "milestones"}
    /\ Len(events) <= capacity
    /\ \A i \in DOMAIN events : events[i].at \in 1..pushes
    /\ DOMAIN previous = EventKinds

\* Events are handed over in the order they occurred, and what is missing is
\* older than what is there, events of either sort among themselves.
OldestGoFirst ==
    /\ \A i, j \in DOMAIN events : i < j => events[i].at < events[j].at
    /\ \A i \in DOMAIN events :
        events[i].at > lost[IF IsMilestone(events[i]) THEN "milestone" ELSE "ordinary"]

\* Milestones "must survive a long run even when per-frame and DMA evidence
\* fills the bounded ring" (machine.rs:1531): one is given up only while the
\* ring holds nothing else.
MilestonesSurvive ==
    lost.milestone # 0 => Len(events) = capacity /\ \A i \in DOMAIN events : IsMilestone(events[i])

\* Two events in a row about one part differ in what the probe compares: the
\* clocks and the timer bit of the cartridge, which change all the time, never
\* give an event of their own (machine.rs:1451).
NoNoise ==
    \A i, j \in DOMAIN events :
        LET a == events[i]  b == events[j] IN
        i < j /\ a.kind = b.kind /\ a.kind \in EventKinds
        /\ (\A m \in (i + 1)..(j - 1) : events[m].kind # a.kind)
            => a.card # b.card \/ (IF a.kind = Card THEN Steady(a.value) # Steady(b.value)
                                    ELSE a.value # b.value)

\* In a run of milestones only these and what the host did are captured.
OnlyMilestones ==
    mode = "milestones" => \A i \in DOMAIN events : events[i].kind \notin EventKinds \ {Milestone}

RingInv == RingTypeOK /\ OldestGoFirst /\ MilestonesSurvive /\ NoNoise /\ OnlyMilestones
=============================================================================
