-------------------------------- MODULE Cpu --------------------------------
(***************************************************************************)
(* Exception processing of the SCC68070 (cpu.rs and the system control     *)
(* instructions of exec.rs): supervisor and user mode with two stack       *)
(* pointers, the short and the long stack frame, RTE, trace, STOP,         *)
(* interrupts and the rerun after a bus error.                             *)
(*                                                                         *)
(* A program is laid out in words; an address is a program and a word. All *)
(* its data registers are one, counted up by the instructions that write   *)
(* registers. Flags, timing and the values of the frame's other words are  *)
(* left out.                                                               *)
(***************************************************************************)
EXTENDS Integers, FiniteSets, Sequences, SequencesExt

CONSTANTS
    Code,       \* program -> word -> instruction: the words instructions begin at
    Main,       \* the program that runs when no exception is being handled
    Ipl,        \* levels the interrupt controller asserts
    MaxFrames   \* frames the guest's handlers are allowed to be deep

Instruction(at) == Code[at.in][at.word]
IsInstruction(at) == at.in \in DOMAIN Code /\ at.word \in DOMAIN Code[at.in]

Status == [t : BOOLEAN, s : BOOLEAN, ipl : 0..7]
Vector == {"trap", "illegal", "privilege", "trace", "interrupt", "bus error"}
SystemControl == {"write sr", "move usp", "stop", "rte"}

ASSUME CodeAssumption ==
    /\ Main \in DOMAIN Code /\ 0 \in DOMAIN Code[Main] /\ MaxFrames \in Nat /\ Ipl \subseteq 0..7
    /\ Vector \subseteq DOMAIN Code /\ Main \notin Vector
    /\ \A p \in DOMAIN Code : DOMAIN Code[p] \subseteq Nat
    /\ \A p \in DOMAIN Code : \A w \in DOMAIN Code[p] :
        /\ Code[p][w].words \in Nat \ {0} /\ Code[p][w].fetched \in Nat \ {0}
        /\ Code[p][w].op \in {"write sr", "stop"} => Code[p][w].sr \in Status

\* What is asked of the guest. Main's instructions follow one another; it names
\* its user stack before all else; what cannot be executed has no extension
\* words, see SteppedBack; behind the write that leaves supervisor mode it
\* stays with what the user may do.
Starts == DOMAIN Code[Main]
LeavesSupervisor == {w \in Starts : Code[Main][w].op \in {"write sr", "stop"} /\ ~Code[Main][w].sr.s}

ASSUME MainAssumption ==
    /\ Code[Main][0].op = "move usp"
    /\ \A w \in Starts :
        LET next == w + Code[Main][w].words IN
        /\ Code[Main][w].op = "branch" => Code[Main][w].to \in Starts
        /\ Code[Main][w].op # "branch" => next \in Starts /\ \A u \in Starts : u <= w \/ next <= u
        /\ Code[Main][w].op = "illegal" => Code[Main][w].fetched = 1
    /\ \A v \in LeavesSupervisor, w \in Starts :
        w > v => /\ Code[Main][w].op \in SystemControl => Code[Main][w].fetched = 1
                 /\ Code[Main][w].op = "branch" => Code[Main][w].to > v

\* Its handlers edit their frame first if they do, and leave SR alone.
ASSUME HandlerAssumption ==
    \A p \in Vector : \A w \in DOMAIN Code[p] :
        /\ Code[p][w].op \in {"plain", "access", "trap", "edit", "rte"}
        /\ Code[p][w].op = "edit" => w = 0

VARIABLES
    sr,         \* [t, s, ipl]
    pc,
    a7,         \* the stack a[7] points into
    spOther,    \* the stack of `sp_other`
    stacks,     \* the frames on the supervisor and on the user stack
    data,       \* the data registers
    stopped,
    pendingIpl,
    history     \* [retired, skipped], see below

cpuVars == <<sr, pc, a7, spOther, stacks, data, stopped, pendingIpl, history>>

After(at, words) == [at EXCEPT !.word = @ + words]
Handler(vector) == [in |-> vector, word |-> 0]

-----------------------------------------------------------------------------
(* `set_sr` swaps the stack pointers when S changes.                       *)

SwapFor(s) == IF s # sr.s THEN a7' = spOther /\ spOther' = a7 ELSE UNCHANGED <<a7, spOther>>
\* The stack that will be active under the new S.
ActiveStack(s) == IF s # sr.s THEN spOther ELSE a7

SetSr(new) == sr' = new /\ SwapFor(new.s)

Supervised == [sr EXCEPT !.s = TRUE, !.t = FALSE]

Frame(at, vector) == [sr |-> sr, pc |-> at, vector |-> vector, long |-> FALSE, rr |-> FALSE, resume |-> at]

Push(frame) == stacks' = [stacks EXCEPT ![ActiveStack(TRUE)] = Append(@, frame)]

\* `exception`: a short frame with the PC as it stands, here `at`.
Exception(vector, at) ==
    /\ SetSr(Supervised)
    /\ Push(Frame(at, vector))
    /\ pc' = Handler(vector)

\* `bus_error_exception`: the registers are those from before the instruction,
\* the frame also keeps where the abandoned instruction had got to.
BusErrorException(resume) ==
    /\ SetSr(Supervised)
    /\ Push([Frame(pc, "bus error") EXCEPT !.long = TRUE, !.resume = resume])
    /\ pc' = Handler("bus error")

-----------------------------------------------------------------------------
(* `check_interrupts` and `interrupt`.                                     *)

\* Mutant: a level equal to the mask interrupts.
InterruptsAtMask == pendingIpl # 0 /\ (pendingIpl = 7 \/ pendingIpl >= sr.ipl)

Interrupts == pendingIpl # 0 /\ (pendingIpl = 7 \/ pendingIpl > sr.ipl)

\* The acknowledge cycle lets the controller present what is left.
TakeInterrupt ==
    /\ Interrupts
    /\ SetSr([Supervised EXCEPT !.ipl = pendingIpl])
    /\ Push(Frame(pc, "interrupt"))
    /\ pc' = Handler("interrupt")
    /\ stopped' = FALSE
    /\ pendingIpl' = 0
    /\ UNCHANGED <<data, history>>

\* A stopped CPU that nothing interrupts passes its time.
Idle == stopped /\ ~Interrupts /\ UNCHANGED cpuVars

-----------------------------------------------------------------------------
(* Instructions. A trace is latched when an instruction begins and taken    *)
(* behind it unless the instruction raised an exception or stopped the CPU.*)

\* History: the instructions of Main completed since it began, and the
\* faulted ones among them that a handler had the CPU skip.
InMain == IF pc.in = Main THEN 1 ELSE 0
Retired == history' = [history EXCEPT !.retired = @ + InMain]

At(op) == ~Interrupts /\ ~stopped /\ IsInstruction(pc) /\ Instruction(pc).op = op
Following == After(pc, Instruction(pc).words)

\* The next instruction is at `to`, under `new`, unless this one was traced. A
\* trace frame holds the status the instruction left.
GoesOn(to, new) ==
    IF sr.t
    THEN /\ sr' = [new EXCEPT !.s = TRUE, !.t = FALSE]
         /\ Push([Frame(to, "trace") EXCEPT !.sr = new])
         /\ pc' = Handler("trace")
    ELSE sr' = new /\ pc' = to /\ UNCHANGED stacks

\* The instruction completes.
Completes(to, new) ==
    /\ GoesOn(to, new)
    /\ SwapFor(sr.t \/ new.s)
    /\ UNCHANGED <<stopped, pendingIpl>>

\* Handlers save and restore the data registers they use.
Plain ==
    /\ At("plain")
    /\ data' = data + InMain
    /\ Completes(Following, sr)
    /\ Retired

\* Main loops, with its registers as they were the first time.
Before(word) == {w \in Starts : w < word}
Effects(word) == Cardinality({w \in Before(word) : Code[Main][w].op \in {"plain", "access"}})
Branch ==
    /\ At("branch")
    /\ LET to == Instruction(pc).to IN
       /\ Completes([pc EXCEPT !.word = to], sr)
       /\ data' = Effects(to)
       /\ history' = [retired |-> Cardinality(Before(to)), skipped |-> 0]

\* An instruction that accesses memory or a device.
Access ==
    /\ At("access")
    /\ data' = data + InMain
    /\ Completes(Following, sr)
    /\ Retired

\* The clone of the CPU from before the instruction is put back.
Fault ==
    /\ At("access")
    /\ BusErrorException(Following)
    /\ UNCHANGED <<data, stopped, pendingIpl, history>>

\* TRAP, TRAPV, CHK and a division by zero stack the instruction that follows.
Trap ==
    /\ At("trap")
    /\ Exception("trap", Following)
    /\ Retired
    /\ UNCHANGED <<data, stopped, pendingIpl>>

\* `illegal` and `privileged` step the PC back by one word from what has been
\* fetched, which is more than the opcode where extension words came first.
SteppedBack == After(pc, Instruction(pc).fetched - 1)

Illegal ==
    /\ At("illegal")
    /\ Exception("illegal", SteppedBack)
    /\ UNCHANGED <<data, stopped, pendingIpl, history>>

Violates(op) ==
    /\ At(op) /\ ~sr.s
    /\ Exception("privilege", SteppedBack)
    /\ UNCHANGED <<data, stopped, pendingIpl, history>>

\* MOVE, ANDI, ORI and EORI to SR.
WriteSr ==
    /\ At("write sr") /\ sr.s
    /\ Completes(Following, Instruction(pc).sr)
    /\ Retired
    /\ UNCHANGED data

\* MOVE An,USP, with the address of the user stack in An.
MoveUsp ==
    /\ At("move usp") /\ sr.s
    /\ spOther' = "usp"
    /\ GoesOn(Following, sr)
    /\ Retired
    /\ UNCHANGED <<a7, data, stopped, pendingIpl>>

\* A STOP under trace is not traced.
Stop ==
    /\ At("stop") /\ sr.s
    /\ SetSr(Instruction(pc).sr)
    /\ pc' = Following
    /\ stopped' = TRUE
    /\ Retired
    /\ UNCHANGED <<stacks, data, pendingIpl>>

\* RTE takes one frame of either length off the active stack and restores the
\* status after that. A stack without a frame is not modelled.
Top == Last(stacks[a7])
ReturnPc(f) == IF f.long /\ f.rr THEN f.resume ELSE f.pc

Rte ==
    /\ At("rte") /\ sr.s /\ stacks[a7] # <<>>
    /\ SetSr(Top.sr)
    /\ pc' = ReturnPc(Top)
    /\ stacks' = [stacks EXCEPT ![a7] = Front(@)]
    /\ LET one == IF Top.long /\ Top.rr /\ Top.pc.in = Main THEN 1 ELSE 0 IN
       history' = [retired |-> history.retired + one, skipped |-> history.skipped + one]
    /\ UNCHANGED <<data, stopped, pendingIpl>>

\* The guest's handlers edit the frame they return through: RR is set after a
\* bus error, the PC moved on behind an instruction that cannot be executed.
Edit ==
    /\ At("edit") /\ sr.s /\ stacks[a7] # <<>>
    /\ \/ /\ Top.long
          /\ stacks' = [stacks EXCEPT ![a7] = Append(Front(@), [Top EXCEPT !.rr = TRUE])]
          /\ UNCHANGED history
       \/ /\ Top.vector \in {"illegal", "privilege"} /\ IsInstruction(Top.pc)
          /\ stacks' = [stacks EXCEPT ![a7] =
                Append(Front(@), [Top EXCEPT !.pc = After(@, Instruction(@).words)])]
          /\ history' = [history EXCEPT !.retired = @ + IF Top.pc.in = Main THEN 1 ELSE 0]
    /\ pc' = Following
    /\ UNCHANGED <<sr, a7, spOther, data, stopped, pendingIpl>>

Execute ==
    \/ Plain \/ Branch \/ Access \/ Fault \/ Trap \/ Illegal \/ WriteSr \/ MoveUsp \/ Stop \/ Rte \/ Edit
    \/ \E op \in SystemControl : Violates(op)

-----------------------------------------------------------------------------
(* The machine's side: the interrupt controller and the reset line.        *)

Frames == stacks["ssp"]

\* Bound: no interrupt is asserted while MaxFrames frames are stacked.
Present(level) ==
    /\ level # pendingIpl
    /\ level # 0 => Len(Frames) < MaxFrames
    /\ pendingIpl' = level
    /\ UNCHANGED <<sr, pc, a7, spOther, stacks, data, stopped, history>>

\* The reset vectors give a7 a supervisor stack with nothing on it; `sp_other`
\* keeps what it held, which is a supervisor stack if the user ran.
ResetCpu ==
    /\ sr' = [t |-> FALSE, s |-> TRUE, ipl |-> 7]
    /\ stopped' = FALSE
    /\ a7' = "ssp"
    /\ stacks' = [k \in {"ssp", "usp"} |-> <<>>]
    /\ pc' = [in |-> Main, word |-> 0]
    /\ data' = 0
    /\ history' = [retired |-> 0, skipped |-> 0]
    /\ UNCHANGED <<spOther, pendingIpl>>

CpuInit ==
    /\ sr = [t |-> FALSE, s |-> TRUE, ipl |-> 7]
    /\ stopped = FALSE
    /\ a7 = "ssp" /\ spOther = "usp"
    /\ stacks = [k \in {"ssp", "usp"} |-> <<>>]
    /\ pc = [in |-> Main, word |-> 0]
    /\ data = 0 /\ pendingIpl = 0
    /\ history = [retired |-> 0, skipped |-> 0]

CpuNext == TakeInterrupt \/ Idle \/ Execute \/ (\E l \in Ipl : Present(l)) \/ ResetCpu

CpuSpec == CpuInit /\ [][CpuNext]_cpuVars

-----------------------------------------------------------------------------
CpuTypeOK ==
    /\ sr \in Status /\ stopped \in BOOLEAN
    /\ a7 \in {"ssp", "usp"} /\ spOther \in {"ssp", "usp"}
    /\ pc.in \in DOMAIN Code /\ pc.word \in Nat
    /\ \A i \in DOMAIN Frames : Frames[i].sr \in Status
    /\ data \in Nat /\ pendingIpl \in 0..7

\* Where Main goes on: its PC, or what the deepest frame that interrupted it
\* will return to.
MainPc ==
    IF pc.in = Main THEN pc
    ELSE LET i == SelectInSeq(Frames, LAMBDA f : f.pc.in = Main) IN ReturnPc(Frames[i])

Skipping == \E i \in DOMAIN Frames : Frames[i].pc.in = Main /\ Frames[i].long /\ Frames[i].rr

\* However it is interrupted, traced, faulted and rerun, the program executes
\* its instructions in their order and each of them once, and goes on at the
\* start of one (cpu.rs:363).
ProgramInOrder ==
    /\ IsInstruction(MainPc)
    /\ Cardinality(Before(MainPc.word)) = history.retired + IF Skipping THEN 1 ELSE 0

\* Its registers hold the effect of each instruction that completed, however
\* often it was begun, and of none that did not (cpu.rs:388).
EffectsOnce ==
    Effects(MainPc.word) = data + history.skipped + IF Skipping THEN 1 ELSE 0

\* a[7] is the supervisor's stack exactly in supervisor mode, and no frame is
\* ever put on the user's (cpu.rs:142).
StacksApart == a7 = (IF sr.s THEN "ssp" ELSE "usp") /\ stacks["usp"] = <<>>

\* The mask in force only rises towards the handler that runs, and an
\* interrupt raises it above the one it interrupts, 7 excepted (cpu.rs:331).
MasksRise ==
    LET mask(i) == IF i > Len(Frames) THEN sr.ipl ELSE Frames[i].sr.ipl IN
    \A i \in DOMAIN Frames :
        /\ mask(i) <= mask(i + 1)
        /\ Frames[i].vector = "interrupt" => mask(i) < mask(i + 1) \/ mask(i + 1) = 7

CpuInv == CpuTypeOK /\ ProgramInOrder /\ EffectsOnce /\ StacksApart /\ MasksRise

\* "PC of the faulting instruction is what gets stacked" (exec.rs:62): not
\* that of one whose extension words were fetched first.
StackedPcIsTheInstruction ==
    \A i \in DOMAIN Frames :
        Frames[i].vector \in {"illegal", "privilege"} => IsInstruction(Frames[i].pc)
=============================================================================
