# Formal verification of E-Di, the CD-i emulator

TLA+ models of the emulator's control logic, the TLC configurations that check
them on small instances, and proofs of their invariants for TLAPS. The models
are translated from the Rust sources; every definition that models code is
listed with its lines in `PROJECT.json` under `map`.

Contents: [the system](#the-system), [the plan](#the-plan),
[the modules](#the-modules), [runs and bounds](#runs-and-bounds),
[fairness](#fairness), [proofs](#proofs), [findings](#findings),
[what is not modelled](#what-is-not-modelled).

## The system

E-Di emulates a Philips CD-i player. One thread, the emulation thread of the
frontend, owns a `Machine` and calls `Machine::step` in a loop; a step runs one
instruction of the SCC68070 with all its bus accesses and then advances every
chip by the cycles it took, in slices that end at the next event of any chip.
So the chips are never concurrent with each other, but the guest's program, the
chips' timers and the user's keys and discs interleave at every step boundary,
and that is where this code is hard to test: a driver may read the first byte
of a reply, be interrupted, and read the second after the chip has changed its
mind.

| Component | Source | State | Operations | Interacts through | What makes it correct |
|---|---|---|---|---|---|
| SLAVE microcontroller | `cdi-core/src/slave.rs` | four reply channels, four queues, delays, one command buffer, keyboard, drive and pointer | guest reads and writes a byte; tick; keys, pointer, disc notices; reset | IN2; host reset and attenuation requests the machine takes | every query answered once and in order, nothing half read replaced, last report current, IN2 only with a cause |
| CDIC | `cdic.rs` | drive, mailbox, registers, ADPCM halves, sound map | register and mailbox accesses, DMA into a half, 75 Hz pump, disc change, resets | IN4 (shared), audio queue, sectors of the mounted image | no report without an interrupt, stops end reads and maps, the two halves play in the order received |
| SCC68070 peripherals | `cdi-scc68070/src/periph.rs` | interrupt latches and levels, timer, UART, two DMA channels | register accesses, tick, pins, acknowledge | pins set by the bus; `pending_ipl` sampled by the CPU | no edge lost, acknowledge finds the source, bytes neither lost nor repeated |
| SCC68070 CPU | `cpu.rs`, `exec.rs`, `ea.rs`, `bus.rs` | registers, mask, stopped, two stacks | step: interrupt, instruction, exception | bus trait | the program runs in its order, each instruction once, whatever interrupts, traces or faults it; the flags are those of the numbers; stacks are left as they were |
| Machine and bus | `machine.rs`, `board.rs`, `boards.rs` | RAM, page table, owner of IN4, DMA credit, the chips | step, slices, iack, bus accesses, host reset, power cycle, disc change | owns all chips | one order of chips per slice, lines follow requests, vector of the chip that asks; an address reaches what the board's list says |
| DVC / VMPEG | `dvc.rs` | FMA/FMV registers, inputs, demultiplexers, decoders, presentation clock | register accesses, DMA words, tick, VSYNC notice | IN4, DMA request, external video into the MCD212 | end-of-ISO and underflow reported once per play, old input not carried into a new play, pictures in order |
| MPEG-1 video decoder | `mpeg1_video.rs`, `mpeg1_tables.rs` | reference pictures, bit buffer | decode a picture | called by the DVC | display order from coded order |
| MCD212 | `mcd212.rs` | registers, CLUT, mattes, line counter, IT1/IT2 | register accesses, ICA/DCA programs, tick | INT1, reads RAM | the pin follows status and masks, one slot a line, fields weave, path A's mattes stay |
| Diagnostics | `diagnostics.rs` | event ring, DMA capture, tracker of the play-control lists | sample after each instruction, observe accesses and DMA | called by the machine | milestones survive, every byte and every overwritten buffer told of once |
| Keyboard | `keyboard.rs` | key state, packet queue, RTS timing | keys, RTS, tick, reset | UART of the peripherals | packets whole, the guest knows the keys, the ID first |
| Scheduler | `sched.rs` | heap of events | schedule, cancel, pop | tests only | FIFO at equal times |
| Disc images and inventory | `cdi-disc` | track layout, inventory | read a sheet, read a sector, inspect | CDIC, frontend | every stored sector at one frame, every directory read once |
| Desktop frontend | `cdi-frontend` | command slot, machine and storage, library, Photo CD viewer, input, sound ring | UI commands, emulation loop, flushes, scans, polls, audio callback | mutexes, queues and atomics between threads | a save is never taken back nor put into another file, late answers do not stay, no key sticks, left stays left |
| Photo CD reader | `cdi-photocd` | file system, playlist position | open, decode, step the playlist | worker of the frontend | playlist ends, jumps stay inside |
| OS-9 modules | `cdi-os9` | none | parse | tools | header checks |
| Command line | `cdi-cli` | suite and incident state | run, diagnose | `Machine` | a suite's verdicts |
| Scripts | `scripts` | none | summarise, import | files | - |

Only the frontend has more threads than one: the window, the emulation loop, the
Photo CD worker and the host's audio callback.

The hard behaviours, line by line, are the `hazards` of `PROJECT.json` with the
properties that watch them. They are of five kinds: two actors on one channel
or line (SLAVE channels 2 and 3, IN4, the ADPCM halves), state read before and
used after something else ran (the sampled interrupt level, the pin the
controller has last seen, a reply that is still delayed), requests that must be
honoured later (stop commands, queued replies, DMA transfers), long legal
command sequences (the shared command buffer, maps stopped and restarted, seven
commands that move the storage), and full or empty buffers between threads and
in the captures.

Hazards seen and not listed there, because no property here is about them: a
poll that replaces a pointer packet the guest has half read (slave.rs:712),
notifications enabled between the bytes of one (slave.rs:836), a read without a
disc or past its end that tells the guest nothing (cdic.rs:692), `1u16 <<
channel` for channels from 16 (cdic.rs:742), CD-fed audio that becomes ready
under a map and waits for the next delivery (cdic.rs:1040), a player turned off
and on again with the old channel state (cdic.rs:1118), a DVC request dropped
and raised within one instruction (dvc.rs:1079), sample periods that pass while
no picture is decoded (dvc.rs:1422), and a reset that keeps the pins' last
levels (periph.rs:108).

## The plan

In the order of importance, and done:

1. `Slave`, with the abstract channel `SlaveChannelC` it implements, `SlaveProofs`.
2. `Cdic`, `CdicProofs`.
3. `Machine`: interrupt controller, IN4, CPU boundary, UART, DMA; `MachineProofs`.
   It leaves the chips behind the lines open, so it composes with 1, 2 and 5 by
   their request outputs; a chip model refines "may raise its request".
4. Violation runs for the disagreements met.
5. `Dvc`: commands, DMA completion, presentation and end events of the cartridge,
   `DvcProofs`.
6. The frontend: `Player`, `PhotoViewer`, `HostInput`, `Library`, `AudioRing`;
   `FrontendProofs`.
7. The rest of the board: `Mcd212`, `Cpu`, `Alu`, `Operands`, `MemoryMap`,
   `Keyboard`, `DiagnosticRing` and `Provenance` with `Diagnostics` over them;
   `BoardProofs`, `CpuProofs`.
8. Disc images: `DiscLayout` and `Inventory` with `DiscImages` over them; `BoardProofs`.

Left, in this order: stream selection and the FMV timer in `Dvc`;
picture reordering of `mpeg1_video.rs`; the demultiplexer's resynchronisation
against a reference parser; the composition of `Cpu` with `Machine`, which today
share the interface of `pending_ipl` and nothing else.

## The modules

**`Slave`**: one action per method of `SlaveHle`: `Read`, `Write` (the whole
command parser, with the handlers of the four channels as functions on one
record), `Tick`, and the frontend's setters. Variables group the struct's
fields: `out` (channels, queues, delays, interrupt state), `parser`, `mode`,
and the devices. A byte is the hexadecimal name of its class; a packet is the
tuple of its informative bytes. **`SlaveChannelC`** is what channel 2 promises
its reader: two streams (answers, reports), each FIFO, nothing lost except when
the guest closes the report path; `Slave` implements it with the answers and
reports it owes as refinement mapping. **`SlaveProofs`**: see below.

**`Cdic`**: one action per bus access that matters and `Pump`, the 75 Hz edge of
`tick` (sector delivery, then audio). The handlers call each other a dozen deep
in the code and update the same fields, so they are functions on one record,
the controller, and an action commits the record. A sector is what the filters
look at; a half of the ADPCM buffer is the sector it holds; `audio_out` is what
the last step pushed to the audio queue. A word the guest writes to DBUF, ABUF or
XBUF is stored as it is, the slot bit and bit 15 in it; the bits of the second half's
address in a map command are written as zeros (cdic.rs:483). **`CdicProofs`** follows
the handlers.

**`Machine`**: `phase` says where in `Machine::step` the machine is. An
instruction is a sequence of accesses (`Access` in every access action) ended by
`Execute` or by the first slice, since devices run only when the instruction is
over; `Slice` is `tick_device_slice` with its order of effects, the length
limited by `SliceLengths` as `cycles_until_next_device_event` limits it. The
requests of SLAVE, CDIC and DVC are open inputs that a slice may raise and an
access may raise or drop. **`MachineProofs`**.

**`Dvc`**: the FMV and FMA sides are a record each, `video` and `audio`; the
drivers' command words are sets of command bits obeyed in the code's order,
since one word may carry several. A stretch of stream is what parsing it yields
(`Chunk`: timestamps, units, ends), so the demultiplexer is `Join` and the choice
of where a transfer tears a packet. `stc` is the one timeline: the stream time
that the clock anchor maps the present to; deadlines count down to it. `Tick` takes
the set of clock edges that fall into a slice (45 kHz clock, sample, picture
period, scroll update). `title`, `fed` and `play` are what the driver plays, how
far it got and which play it is in: every unit carries its play, which is how
`StreamsInOrder` sees data left over from an aborted one. **`DvcProofs`**.

**`Cpu`** has programs of the guest laid out in words, its handlers among them;
a frame is pushed on the stack that `set_sr` makes active, and `history` counts
what the main program completed, which `ProgramInOrder` and `EffectsOnce` compare
with where it is. **`Alu`** executes one instruction after another on operands of
`W` bits and compares results and flags with the integers. **`Operands`** has
stack, MOVEM, LINK and UNLK on real bytes. The theorems of the three are in
**`CpuProofs`**.

**`MemoryMap`**: regions made of a board's entries, `build_page_table`, byte and
word accesses through it, holes, cartridge window, storage and clock, resets and
power cycles. `expected` is what was last put at an address.
**`MachineProofs`** has its theorem.

**`Mcd212`**: `Line` is all that happens at a display line: the ICA of both
paths at the start of a field, one slot of each DCA per line with the registers
it writes, the interrupt status, the blink of the cursor, the row that is woven
into the picture. The two program memories are chosen from `Image` and rewritten
by the guest. Its theorems are in **`BoardProofs`**.

**`Keyboard`**: the packet queue and its countdown against RTS; `guest` is the
driver that pairs the bytes; a tick sends a run of bytes, each timed from the
one before. Its theorem is in **`BoardProofs`**. **`DiagnosticRing`** and **`Provenance`** sample what
the machine captures after each instruction: the first its parts, as events of a
ring, the second the DMA of sectors and the PCLs they land in. **`Diagnostics`**
puts the two together; their theorems are in **`MachineProofs`**. **`DiscLayout`** reads a CUE sheet
line by line, in any order of lines, and lays out its files; **`Inventory`** looks for
the CD-i and then for the ISO volume, one sector may bear both labels, and is
the walk of their directories, the scan and the Video CD lists. **`DiscImages`** puts
the two together; their theorems are in **`BoardProofs`** too.

**`Player`**: the emulation loop with its slot of one command. A load is two
steps, since the loop identifies the disc before it mounts it, with the drive
empty in between; a file of the storage may not be read, a write of it may fail and
the process may end at any step. A save is its number and the configuration that made
it; `lapses` records the two causes for which the code lets a file fall behind, and
`unread` that the file in use could not be read, so that the loop has blank storage
for what is in it until its next write (storage.rs:48).
**`PhotoViewer`**: window and worker with a queue each way. **`HostInput`**: one
pass of `update`, a function from the input found to the window's state, in the
code's order of parts, and the emulation thread that replays the events; `skipped`
are the keys let go of while Command was down, whose releases the window passes
over (main.rs:832).
**`Library`**: the list rescanned on a disk that changes. **`AudioRing`**: single
samples pushed and popped. **`FrontendProofs`** is about all five. **`Lists`** is what
`Library`, `Provenance` and the disc images share: a set in its order, what a list
retains, sums, and lists end to end. **`Induction`** has the principle that the proofs
about runs of events and bytes share, and the facts about `Lists`.

**`MCSlave`, `MCCdic`, `MCMachine`, `MCDvc`, `MCFrontend`, `MCBoard`** instantiate
them. The full product of
inputs is out of reach, and most of it says nothing, because groups of channels
or devices meet in one line or one buffer. Each MC module therefore has a
`scenario`, fixed in the initial state, that names a use of the component with
the inputs that belong to it, and the state spaces of the scenarios are explored
side by side in one run. Every scenario step is a step of the component's
`Next`, so a scenario restricts the environment and never the component. The
modules of `MCFrontend` and `MCBoard` share no state, so a scenario of these
moves one of them and the invariants ask it there.

## Runs and bounds

| Run | Shows | Bounds |
|---|---|---|
| `slave` | no answer lost, duplicated or reordered on channel 2 (`ImplementsChannelC`); nothing half read replaced; notices and reports end current; every delay and interrupt has its unread reply; the shared command buffer is overrun in two ways and no other | one key with and without a modifier, one player key, one axis of two positions; delays of 1 and 2 ticks (a delayed reply races an immediate one and a tick between them); queues of 2 |
| `slave_live` | queries are answered, however many reports compete, and commands complete or overrun the buffer in one of the two ways | the same, a guest that keeps reading and writing |
| `slave_stranded` | the finding below | the same |
| `cdic` | IN4 is up when a report waits and only then, but for the guest's own writes; halves in order, a map reports its halves and its end unless CD-DA ends it, data intact under the next delivery, nothing after a stop | discs of 3 to 5 sectors in which every filter decision occurs and one sector follows each; one spin-up tick |
| `cdic_live` | stops reach maps and reads | the stop alone, on a disc whose sectors the filters reject |
| `cdic_stop_late` | the finding below | the stop over a rejected sector of a mounted disc |
| `machine` | acknowledge finds its source, owner of IN4 kept, edges of INT1 latched, RXRDY announces the head of the queue, DMA credit bounded and transfers end | levels 0 and 4, masks 0, 4 and 7: a level that ties with IN4, one that is off, a mask that hides both; transfers of 2 words into inputs of 2; words of 2 cycles in slices of up to 3; two bytes each way |
| `machine_int1_lost` | the finding below | |
| `dvc` | pictures and samples in order, nothing of an aborted play, one timeline, end events separate, the underflow after the end reported, a held last picture shown | titles of up to 3 sectors with the end events apart, together and without timestamps; stream time to 2; priming and pause delays of 1; 2 owed sample periods |
| `dvc_pause` | the finding below | |
| `frontend` | storage in its own file and never taken back but for a file that could not be read, a title has its disc, saves get written; viewer and library follow the last choice; no key or press sticks; left and right only exchanged by a torn frame | two discs of different standards, three ROMs on two boards, up to two saves; two Photo CDs and a disc that is none, two messages under way; two buttons, two host keys of one code, three events; two formats of two titles; a ring of 4 samples, batches of up to 3 frames, 6 frames |
| `board` | the program in order and its effects once, the flags of chains and the rest of the arithmetic, the stack; addresses and RAM; the pin, slots and fields of the video controller, path A's mattes; keyboard packets; captures; discs | programs with every kind of exception nested up to three frames deep; operands of 3 bits, chains of words; five stack instructions; two boards of 20 pages of 4 bytes with all sorts of overlaps, three moves, the third the host's; fields of 8 lines, three writes of the guest; rings of 0 to 2 events; two lists, two accesses; sheets of 6 lines; directories in rings and detours, volumes of one label or of both, with a root or without |

Why they are enough: each chip's decisions compare with zero, with one length
or with one other actor's state. A queue of two distinguishes first, last and
full; a delay of two ticks lets every other actor act before, at and after it;
five sectors suffice for a delivery, the one that overruns it, the end of the
disc and a stop in between. The DVC compares deadlines with the present only:
with two units of time a start, a last picture and a pause can each come first
or together, and three pictures fill the queue, the stage and the display. Two
saves let one be on its way while another is made, and a second configuration
between them; six frames run through a ring of two more often than it holds, so
it is full and empty with each side at its end. Operands of three bits have all
relations of sign, carry and overflow, and pages of four bytes all alignments of
a region's ends. The theorems do not depend on these bounds.

Environment assumptions, stated where they restrict a run: the guest of
`machine` gates the MCD212's pin only while nothing is pending and turns the
display on once the controller has seen the pin low (`machine_int1_lost` is the
run without the first); a driver programs DMA channel 1 while it is idle; the
guest of `slave_live` does not close the report path; the
windows of `frontend` meet one kind of input at a time; after an abort the DVC's
drivers submit data of the new play from its beginning; the programs of `board`
keep what the assumptions of `Cpu` ask of a guest, see the proofs.
Deadlock is not checked where a scenario's bounds (full queues, a `stopped` CPU
with nothing to interrupt it, an idle drive) are legitimate ends.

## Fairness

* `Tick` of the SLAVE and `Pump` of the CDIC are weakly fair: `advance_devices`
  ticks every chip in every slice, also while the CPU is stopped, and the CDIC's
  accumulator reaches its edge every 75th of a second of emulated time.
* `CpuStep` and the slices of `Machine` are weakly fair: the emulation thread
  calls `step` for ever and a step ends. That is all `DmaCompletes` assumes.
  Guest accesses, resets and requests have none.
* `dvc` assumes each clock edge and VSYNC weakly fair: `advance_devices` ticks the
  cartridge in every slice and `tick` carries the remainders of its
  accumulators on, so each edge comes again; VSYNC follows from the MCD212's line
  counter. The drivers' commands and acknowledgements have no fairness.
* `frontend`: the loop takes commands and finishes loads (`WF`), and flushes again
  and again (`SF` of `Flush`: the five seconds are up in every pass from then on,
  but a pass with a command comes in between); the Photo CD worker and the
  window's passes run on (`WF`), which both threads' loops do. The guest's saves,
  the user and failures have none.
* `slave_live` also assumes weak fairness of the guest's reads and writes. The
  code cannot guarantee that; it is what "answered" means to a guest that asks.

## Proofs

All are safety theorems about the specifications for every value of the
constants that satisfies the named assumptions: all alphabets, delays, queue
bounds, discs, levels, word costs and slice lengths. Each module
proves an invariant inductive and derives the rest.

* `SlaveProofs`. That a delay or interrupt has an unread reply is not inductive:
  the code keeps it by convention. `SlaveInv` states the conventions:
  which commands each channel can carry (`ChannelCarries`), that whatever is to
  interrupt is untouched and will be acknowledged by its own first byte
  (`IrqIsAcknowledged`, `DelayIsAcknowledged`; $F6 is the reply that never
  interrupts, so its delay is zero already while it waits in the queue), and that
  reports exist only behind their gate (`ReportsAreGated`). One lemma per helper
  on the output record, then one per command group; theorems `SlaveInvariant`,
  `TypeCorrect`, `IrqHasItsReplyHolds`, `DelayHasItsReplyHolds`.
  `OverrunsNamedHolds` goes through the commands of each channel: where a length is
  set it is above the index, and where the index moves, equality is looked at
  behind it, except in the two places the property names.
  Of the queues, `NothingStaleHolds`, inductive only beside `SlaveInv`: a
  device may change without a report while its path is closed, and then its
  queue is empty (`ReportsAreGated`). Serving a channel takes at most the head of a
  queue (`QueuesTaken`), so it keeps the last entry; a notice tells a
  disc from none because no disc type is 0.
  `ImplementsChannelCHolds` is the refinement: the answers and reports owed are
  functions of the output record, each action stands in one relation between
  old and new streams (`StreamStep`), and serving a channel after a packet was
  taken keeps what is owed. `RepliesKeptHolds`: what is half read on channels 1 and 2 is read on or
  withdrawn whole, and a media notice never overwrites a reply.
* `CdicProofs`. `TypeOK` and `CdicInv` are inductive together.
  Inside `audio_tick` a map has been counted down and has not taken its next half
  yet, so a handler's lemma speaks of a controller that is `Counted`, and only
  the whole step restores `Good`. `TypeCorrect` contains that no counter runs
  below zero; `CdicInvariant`. The action properties `NoLostInterruptHolds`,
  `MapUndisturbedHolds` and `DeliveriesKeptHolds` follow the same handlers: a
  map moves to its next half only with ABUF set, in a step that lets no disc audio
  out, it ends unreported only by a CD-DA sector, a delivery writes the half that DBUF
  does not name, and whatever reports or moves IN4 has it recomputed from the
  registers, in both directions.
* `MachineProofs`. `TypeOK` and `MachineInv` are inductive together. The credit
  of the DMA stays below a word's cost because slices end where a word can
  move (`CreditSpent`); with `LinesFollowRequests` the search at the acknowledge
  ends at a chip that asks (`SourceAsks`). `MachineInvariant`, `TypeCorrect`,
  `InterruptHasSourceHolds`, and the action property `OwnerNotPreemptedHolds`.
  Of the address space, `MapCorrect`: the table of pages answers for every address
  as the list of entries does, and RAM holds at each address what was last put
  there. `MapAssumption` says of a board what the code relies on: entries are
  typed, a region that is in a page reaches one of its ends (`ReachesPageEnds`;
  `build_page_table` looks at the ends only), the vectors are in the first
  entry. `MONO1` of `boards.rs` is of this kind. The property it states, `MapKept`, asks
  `MapInv` at the start and after each step that changes the map: what a step leaves
  alone stays right, and TLC need not go through the table in every state of `board`.
  Of the diagnostics, `DiagnosticsCorrect`, in two parts. `RingCorrect`: a sample
  goes through the probed parts in their order, so what the ring keeps is by
  induction over them. That no two events in a row tell the same of a part is
  inductive only with what links the ring to the machine: the last event of a
  part tells what the probe holds of it (`LastTells`), unless the ring gave it up. A
  full ring gives up its oldest ordinary event, so of either sort those it has
  are younger than the last it lost (`Numbered`), and a milestone is lost only when
  nothing else is left (`Survive`).
  `ProvenanceCorrect`: what was told in numbers is the sum of what is recorded
  (`CaptureOK`), kept by one lemma for each thing a list of records has put behind it;
  regions stay apart because a new one retains only those apart from it. For the
  PCLs (`TrackerOK`), a sample first looks at all that are watched, and whatever
  chains are found then are read in the same instant, so each snapshot is the
  PCL in memory however the guest relinked them (`Current`, `MoreWatched`, by
  induction over the chain and over the chains found). At most one sector comes in
  between two samples, which is the code's case of one DMA an instruction.
* `DvcProofs`. A handler is a composition of operators on one of the two records,
  so there is one lemma per operator (it keeps the record's type and facts, and
  says what it may add to the interrupt status), and one per handler that
  threads them in the code's order. The facts are those of `DvcInv`; they are
  inductive because the code sets `video_iso_end_pending` only behind a sequence
  end whose ESI is unacknowledged, which is also what `EiiIsSeparate` needs.
  `DvcInvariant`, `EiiIsSeparate`, and `TimelineHolds`: every release of the
  clock is guarded by both decoders' state. `StreamsInOrderHolds` lays everything
  from the display back to the input buffer out as one line of units. The DMA
  adds at its end what the driver submits, the demultiplexer, commands and clocks
  move units along it, latch and sample take from its front, an abort empties it. So
  the line is ordered and of one play if its last unit is the last one
  submitted, which is the strengthening. The assumption `Numbered` names the
  units of a stream 1, 2, ... in its order. In all these theorems all command
  words are allowed, not only those of the scenarios.
* `FrontendProofs`. For the player, `PlayerInvHolds` and `NoSaveTakenBackHolds`. The second needs an
  order of saves (`SavesOrdered`): storage that the mirror does not know is the
  newest there is, and whatever a file holds is in the machine, or in a backup
  (`FileIsCovered`), unless the file in use could not be read and the guest has saved nothing
  since (`unread`). One lemma per
  command; those that touch the storage share `WriteKeeps` and `SwitchKeeps`. For the audio, `SwapNeedsSlipHolds`. The invariant follows all samples on their
  way, popped, in the ring and in the batch, as one chain of whole frames
  (`Linked`, `WholeFrames`); every capacity and batch size is allowed. For the
  Photo CD viewer, `PhotoInvariant`: a load is a command under way, an answer
  under way, or in the viewer, and is behind nothing but messages of its own disc
  there. A pass of the window applies all events that wait, so what it leaves is
  by induction over them (`Viewed`). For the host's input, `HostInvariant`, with
  `HostIInv`: the player, once the queue is applied to it, holds no key the window
  does not hold (`PlayerFollows`), the window's keys are each there once and down on
  the host or passed over under Command (`skipped`), and a
  window that is in a view of the host or does not pass the keyboard on holds none.
  It is kept up through a pass, one lemma for each of its parts (`Entered`
  before the keyboard, `Polled` behind it, `PassDone` at the end), since the menu
  and the library may open in the middle of it with keys still down.
  `ReleasesApplied` says that the releases put behind any queue empty the player's
  keys, several host keys of one code included. For the library, `SelectionKeptHolds`,
  with any number of formats and titles: a scan lists a format's titles in ascending
  order without repetition (`AscendingIs` of `Induction`), so the row found again is the one of the selected title, and each action that
  places the cursor leaves it on an entry or the list empty.
* `Induction`. A set of numbers with 0 and every successor has all of them, from
  the library's well-foundedness of `<`. The library's own induction theorems take
  the predicate as a parameter, which the provers cannot instantiate; this one takes
  a set. With it a recursive function is first shown to exist, and its equation
  follows from its definition as a choice. A finite set of numbers can be listed in
  ascending order and without repetition (`AscendingIs`, by induction over what is
  not yet listed), so a list retains rows in their order (`RetainedIs`) and all of them
  (`RetainedAll`), and there is no other such list (`ListedOnce`). Sums of lists and lists
  end to end are followed place by place (`SumPlace`, `EndToEndIs`).
* `CpuProofs`. `CpuInvariant`, for every program and every depth of nesting. The
  frames on the stack are a chain (`Nested`): the first interrupted Main, each
  other one the handler of the frame below. Where Main goes on, what it has done
  and whether it skips an instruction then depend on the first frame alone
  (`Where`, `Skips`), so steps of nested handlers change nothing of it, and steps of
  Main and those on its own frame are the cases. Three assumptions speak of the
  guest, whose program the code does not know: `CodeAssumption` types it;
  `MainAssumption` has Main name its user stack first, keep behind the write that
  leaves supervisor mode, and give no extension words to what is refused (they
  would be skipped twice, see `StackedPcIsTheInstruction`); `HandlerAssumption` has
  handlers edit their frame before all else and leave SR alone. TLC evaluates
  all of them on the programs of `board`.
  `OperandsKeptHolds`, for every stack and any nesting. Each entry has an extent,
  even and at an even address, that begins where the one above it ends
  (`Adjacent`), so A7, which points at the last, has every other above it: a
  push writes below all that is held (`Pushes`), and what is read again is what was
  written (`HeldIsIntact`). `MovemStores` follows the registers of one MOVEM,
  A7 among them, each on its own place; `MovemIsTaken` then singles out the one
  action that reads them back.
  `AluInvariant`, for every width of the operands, every set of decimal
  bytes and chains of any number of words. The provers know no powers, so those of two
  come first, by induction, with quotient and remainder; the rest is integer
  arithmetic in `M`, twice `Half`. What is inductive is the chain: the number
  so far, of `chain.words` words, is described completely by the carry in X and the
  sticky Z, and one word more joins it at the top (`ChainGoesOn`; NEGX continues the
  number that NEG began). Shifts are followed from one count to the next: an arithmetic
  one to the left has overflowed so far if the exact product has; a rotation is one
  bit at a time, with X above the operand for ROXL and ROXR. Decimal bytes are taken
  apart into digits; a division is done for each pair of signs, the wrapped quotient
  included; a bit instruction leaves what is above and below its bit. `board` runs
  it with three bits and chains of two words.
* `BoardProofs`. `KeyboardInvariant`, for every timing and any number of bytes that wait. That
  a keyboard with an empty queue has told the guest everything is inductive as a
  statement about the last packet, queued or heard (`Tells`); that the guest pairs
  bytes of one packet, as one about the whole queue and the half the guest
  holds (`InStep`): an ID is only ever first, each second byte has its first one before it.
  A tick keeps both for each byte it sends, by induction over them
  (`SendByteKeeps`, `SendingKeeps`), and what is left of the countdown shows that no
  byte was due any more.
  `VideoInvariant`, for every geometry of `GeometryAssumption` and any programs
  made of commands (`ImageAssumption`). A run of a program is a recursive function
  of as many steps as its budget, so what it keeps is by induction over the
  commands: registers typed, pin behind status (`RaiseItKeeps`), and without a link
  the pointer of its path moved by one slot, however many commands were
  fetched (`DcaKeeps`). `OneSlotPerLine` compares two counts of lines; the display
  file is an interval (`DisplayLines`), so the slots fetched are a function of the
  line (`SlotsAt`), which is inductive, addresses wrapping once or as they go
  (`WrapOnce`). `FieldsWeave` speaks of whole fields; `RowsDrawn` says what an
  interlaced field has drawn so far and what the one before it left in the rows of
  the other phase. `PathAKeepsItsMattesHolds`: the display moves pointers
  before the slots of the line run, and a slot does the same whatever it moved
  (`Alike`, `AlikeDca`); path B's slot then spares what path A wrote (`SlotSpares`).
  Of disc images, `DiscImagesCorrect`, in two parts. `LayoutCorrect`, for sheets of any
  number of lines in any order. What a loaded disc answers is a function of its
  sheet (`LayoutIInv`), so the rest is arithmetic: files begin where the sizes before
  them add up to, each address below the lead-out is then of exactly one file
  (`SumPlace` of `Induction`), and the list of all tracks has each track of each file at
  its own place (`EndToEndIs`), in ascending addresses if the sheet is as rips are made.
  `InventoryCorrect`, for every disc, of one volume or two, and every depth limit; a
  volume that is done with stays as it was listed (`DoneWith`, `Listed`) while the other
  is walked. A directory may be found at several
  depths, and is to be read at the least. What is inductive is that the queue is of at
  most two depths, in order, that all that can be reached within the first of them
  is read or queued at it, and that nothing else is read (`Layer`); a directory found
  again is dropped without loss because it was read from no greater depth. When the queue
  is empty, or only what is too deep is left in it, what was read is what can be reached
  (`LayerEnds`, `Past`). That the walk ends is a count: a directory that is read takes one
  place in the queue and adds no more than it has rows (`Bounded`); and each
  entry is listed as often as there are rows with it in what was read (`Counted`). The
  lists of a Video CD are those of the numbers seen so far, in order (`NavIs`), and there is
  only one such list (`ListedOnce` of `Induction`).

Model-checked only: liveness and the fairness under it (`DmaCompletes`,
`SaveReachesDisk`, the answers on channel 2, the plays' end and the like), which is
out of the prover's reach; `StaysAligned`, which
depends on a disc whose audio comes no faster than it plays; and
`EdgeReachesLatch`, which depends on the guest as said above.

## Findings

Four disagreements between the code and its own statements are each the
counterexample of a run; `PROJECT.json` quotes the statements.

* `slave_stranded`: closing the report path empties channel 2 and serves nobody;
  a query reply behind the report waits until another query comes.
* `cdic_stop_late`: a stopped read goes on over sectors the filters reject.
* `machine_int1_lost`: register writes do not forward the MCD212's pin to the
  interrupt controller, so an edge that needs the fall before it is lost.
* `dvc_pause`: a pause before the scheduled start leaves the video armed; the next
  transfer schedules the start again and pictures are consumed while paused.

More are stated as definitions next to the code's model, for TLC to refute when
one of them is made the property of a run:

* `Slave!Overrun`: the last byte of the LCD text re-arms the length and not the index
  (slave.rs:877), and a channel-0 byte behind a B0 or B1 of channel 3 counts without
  ending it (slave.rs:810-851). No byte on channels 1 to 3 is a command after either;
  `OverrunsNamed` says that there is no third way, and `CommandCompletes` excuses
  these two.
* `Cdic!MapEndsReported` without its exception: the first sector of a CD-DA read ends a
  map and reports nothing (cdic.rs:786), against the comment that gives maps the priority
  (cdic.rs:477).
* `Dvc!NdatSeparate`: the cadence reports the empty queue into a status word that
  still carries the end of the program, and no report of its own follows.
* `AudioRing!ChannelsKept`: a ring that runs full or empty within a frame
  exchanges left and right for good (main.rs:2233).
* `HostInput!CaptureStaysWithHost`: capturing the mouse clears the buttons given
  to the player and not those the window remembers (main.rs:3778 ff.).
* `Player!NoSaveTakenBack` without its exception: a storage file that cannot be read, or
  is of another size, loads as zeros (storage.rs:48). The next save of the guest replaces
  what it held, and a reset clears it without a backup, since only zeros would be backed
  up (storage.rs:97), although the window promises one (main.rs:3513).
* `HostInput!NoStuckKey` with `skipped` left out: a key let go of while Command is down
  stays down in the player until a menu, a view or a lost focus releases all (main.rs:832).
* `Player!MirrorIsLastWritten`: a ROM reloaded in the same configuration takes
  storage for written that never was. The same reload attaches the serial keyboard
  if the user has the SLAVE's attached (main.rs:1868).
* `Mcd212!MattesCurrent`: the matte spans are not recomputed for NM or the width
  (mcd212.rs:72).
* `Cpu!StackedPcIsTheInstruction`, with a program that has one of ANDI, ORI and
  EORI to SR in user mode: the immediate is fetched before the privilege check,
  and the PC stacked is that of the immediate (exec.rs:62, 209).
* `Keyboard!QueuedBytesMove`: a packet queued while RTS is low for less than a
  recognition waits for the next change (keyboard.rs:164).

Seen without a property: a board entry inside one page that touches neither of
its ends is taken for none (machine.rs:425; no board has one); the null space,
said to read as open bus (board.rs:26), reads 0 where open bus reads $FF; the
clock is said to be advanced from emulated time (machine.rs:260) and nothing
advances it.

## What is not modelled

Arithmetic without decisions (ADPCM and Layer II samples, IDCT and motion
compensation, pixel composition, the Photo CD decoder), parsing of file formats
into data (headers of sectors, descriptors and OS-9 modules), drawing and
printing, the order by path a directory listing is put in at its end. In the modelled components: LCD text and transport repeat delay of the
SLAVE (written, never read); attenuation, subcode Q and TOC contents of the CDIC;
INT2, IN5, NMI (no board drives them), timers 1 and 2, I2C and MMU registers (they
only store); addressing modes other than those of `Operands`, timing and the
decoding of opcodes, which are tables the repository tests against vectors;
stream selection and Layer-II reacquisition, the FMV timer, interrupt enables
and vector (open inputs of `Machine`), picture geometry and decoding timestamps of
the DVC; CLUT banks, pixel decoders, transparency and the position within a line
of the MCD212; events of writes to PCL pointers and chains of several PCBs in
the diagnostics; display captures, format conversions, ZIP archives and settings
that only store of the frontend.

Not modelled at all, with the reasons in `PROJECT.json`: the event scheduler,
which nothing but its tests uses; the MPEG-1 decoder, whose pictures are an input
of `Dvc`; the Photo CD reader; OS-9 modules; the command line and the scripts,
which are sequential.
