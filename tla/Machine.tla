------------------------------- MODULE Machine -------------------------------
(***************************************************************************)
(* What holds the chips together (crates/cdi-core/src/machine.rs,          *)
(* cdi-scc68070/src/periph.rs and cpu.rs): the interrupt controller with   *)
(* its latched and its level-held sources, the arbitration of the IN4 line *)
(* that the CDIC and the DVC share, the CPU that samples the level once    *)
(* per step, the UART, and the DMA channel that feeds the DVC.             *)
(*                                                                         *)
(* Machine::step runs one instruction, with all its bus accesses, and then *)
(* advances every device by the time it took, in slices that end at the    *)
(* next device event.  phase says where in the step the machine is:        *)
(*   "cpu"      between two steps: pending_ipl is about to be sampled      *)
(*   "bus"      an instruction has accessed a device and may access more   *)
(*   "devices"  slices follow until the instruction's time is used up      *)
(* What a guest access changes in a device is seen by the devices at once, *)
(* but by the interrupt controller only where the bus code forwards it.    *)
(*                                                                         *)
(* The chips behind the lines are open here: Slave and Cdic model two of   *)
(* them.  A chip may raise its request in any slice and an access to its   *)
(* registers may raise or drop it.  The CDIC's own DMA copies a buffer     *)
(* within one bus access and touches no other state: left out.  So are     *)
(* INT2, IN5 and NMI, which no board drives, timers 1 and 2, the memory    *)
(* map, I2C and MMU registers, and bus errors, whose exception leaves the  *)
(* mask and every request alone.                                           *)
(***************************************************************************)
EXTENDS Integers, Sequences

CONSTANTS
    Levels,           \* the priority levels the guest programs
    Masks,            \* the interrupt masks the guest sets
    Bytes, NoByte,    \* bytes on the serial line; the holding register before any
    MaxQueue,         \* bound on bytes that wait in the UART, each way
    Counts,           \* the transfer counts the guest programs
    InputLimit,       \* MPEG_INPUT_LIMIT, in words
    WordCycles,       \* DMA_SINGLE_ADDRESS_WORD_CYCLES
    MaxSlice          \* the longest slice, in the same unit

ASSUME MachineAssumption ==
    /\ Levels \subseteq 0..7
    /\ Masks \subseteq 0..7
    /\ NoByte \notin Bytes
    /\ MaxQueue \in Nat
    /\ Counts \subseteq Nat
    /\ InputLimit \in Nat
    /\ WordCycles \in Nat \ {0}
    /\ MaxSlice \in Nat \ {0}

VARIABLES
    cpu,      \* the interrupt mask of SR, and stopped
    phase,
    irq,      \* Peripherals: latches, programmed levels, pins as last set
    uart,     \* Peripherals: the UART
    dma,      \* Peripherals: both channels, and the machine's dvc_dma_cycles
    owner,    \* shared_in4_owner
    req,      \* the request outputs of the SLAVE, the CDIC and the DVC
    vdsc,     \* MCD212: it (IT1, IT2), di (DI1, DI2), display (DE and ICA)
    dvc       \* Vmpeg: dma_target and the words in its two inputs

vars == <<cpu, phase, irq, uart, dma, owner, req, vdsc, dvc>>

-----------------------------------------------------------------------------
(* States *)

Level == 0..7
Paths == {1, 2}
Targets == {"video", "audio"}
Owners == {"idle", "cdic", "vmpeg"}

ClearIrq == [int1 |-> FALSE, level1 |-> 0, timer |-> FALSE, timer_level |-> 0,
             rx |-> FALSE, rx_level |-> 0, tx |-> FALSE, tx_level |-> 0,
             pin1 |-> FALSE, in2 |-> FALSE, in4 |-> FALSE]
ClearUart == [rx_on |-> FALSE, tx_on |-> FALSE, rxrdy |-> FALSE, txemt |-> TRUE,
              rx_queue |-> <<>>, holding |-> NoByte, tx_fifo |-> 0]
\* level 0 of a DMA channel: its interrupt is off.
ClearDma == [coc0 |-> FALSE, level0 |-> 0, coc1 |-> FALSE, level1 |-> 0, so |-> FALSE,
             count |-> 0, to_memory |-> FALSE, steal |-> FALSE, cycles |-> 0]
ClearVdsc == [it |-> {}, di |-> {}, display |-> FALSE]
ClearDvc == [target |-> "none", input |-> [t \in Targets |-> 0]]
ResetCpu == [mask |-> 7, stopped |-> FALSE]

CpuType == [mask : Level, stopped : BOOLEAN]
IrqType == [int1 : BOOLEAN, level1 : Level, timer : BOOLEAN, timer_level : Level,
            rx : BOOLEAN, rx_level : Level, tx : BOOLEAN, tx_level : Level,
            pin1 : BOOLEAN, in2 : BOOLEAN, in4 : BOOLEAN]
UartType == [rx_on : BOOLEAN, tx_on : BOOLEAN, rxrdy : BOOLEAN, txemt : BOOLEAN,
             rx_queue : Seq(Bytes), holding : Bytes \cup {NoByte}, tx_fifo : Nat]
DmaType == [coc0 : BOOLEAN, level0 : Level, coc1 : BOOLEAN, level1 : Level, so : BOOLEAN,
            count : Nat, to_memory : BOOLEAN, steal : BOOLEAN, cycles : Nat]
ReqType == [slave : BOOLEAN, cdic : BOOLEAN, dvc : BOOLEAN]
VdscType == [it : SUBSET Paths, di : SUBSET Paths, display : BOOLEAN]
DvcType == [target : Targets \cup {"none"}, input : [Targets -> Nat]]

TypeOK ==
    /\ cpu \in CpuType
    /\ phase \in {"cpu", "bus", "devices"}
    /\ irq \in IrqType
    /\ uart \in UartType
    /\ dma \in DmaType
    /\ owner \in Owners
    /\ req \in ReqType
    /\ vdsc \in VdscType
    /\ dvc \in DvcType

Init ==
    /\ cpu = ResetCpu
    /\ phase = "cpu"
    /\ irq = ClearIrq
    /\ uart = ClearUart
    /\ dma = ClearDma
    /\ owner = "idle"
    /\ req = [slave |-> FALSE, cdic |-> FALSE, dvc |-> FALSE]
    /\ vdsc = ClearVdsc
    /\ dvc = ClearDvc

-----------------------------------------------------------------------------
(* The interrupt controller *)

Larger(x, y) == IF x > y THEN x ELSE y
If(asserted, l) == IF asserted THEN l ELSE 0

ExternalLevel == IF irq.in4 THEN 4 ELSE IF irq.in2 THEN 2 ELSE 0
LatchLevel == Larger(Larger(If(irq.int1, irq.level1), If(irq.timer, irq.timer_level)),
                     Larger(If(irq.rx, irq.rx_level), If(irq.tx, irq.tx_level)))
DmaLevel == Larger(If(dma.coc0, dma.level0), If(dma.coc1, dma.level1))

PendingIpl == Larger(ExternalLevel, Larger(LatchLevel, DmaLevel))

\* check_interrupts: level 7 cannot be masked.
Takeable(l) == l # 0 /\ (l = 7 \/ l > cpu.mask)

\* Whom MachineBus::iack and Peripherals::iack acknowledge at level l.
Acknowledged(l) ==
    CASE l = 4 /\ irq.in4 /\ owner # "idle"   -> owner
      [] l = 4 /\ irq.in4 /\ owner = "idle"   -> "in4"
      [] l = 2 /\ irq.in2                     -> "slave"
      [] OTHER ->
           IF l \in {If(dma.coc0, dma.level0), If(dma.coc1, dma.level1)} THEN "dma"
           ELSE IF irq.int1 /\ l = irq.level1 THEN "int1"
           ELSE IF irq.timer /\ l = irq.timer_level THEN "timer"
           ELSE IF irq.rx /\ l = irq.rx_level THEN "rx"
           ELSE IF irq.tx /\ l = irq.tx_level THEN "tx"
           ELSE "none"

\* The latch of the source is cleared; lines and DMA channels stay up.
Iack(source) ==
    CASE source = "int1"  -> [irq EXCEPT !.int1 = FALSE]
      [] source = "timer" -> [irq EXCEPT !.timer = FALSE]
      [] source = "rx"    -> [irq EXCEPT !.rx = FALSE]
      [] source = "tx"    -> [irq EXCEPT !.tx = FALSE]
      [] OTHER -> irq

\* INT1 is latched when the pin rises.
SetInt1(i, state) == [i EXCEPT !.int1 = @ \/ (state /\ ~i.pin1), !.pin1 = state]

\* Mutant: the extension always wins.
ExtensionWins(o, r) == IF r.dvc THEN "vmpeg" ELSE IF r.cdic THEN "cdic" ELSE "idle"

Arbitrate(o, r) ==
    LET kept == CASE o = "cdic" -> r.cdic [] o = "vmpeg" -> r.dvc [] OTHER -> FALSE
    IN IF kept THEN o
       ELSE IF r.dvc THEN "vmpeg"
       ELSE IF r.cdic THEN "cdic"
       ELSE "idle"

-----------------------------------------------------------------------------
(* The instruction *)

Boundary == phase = "cpu" /\ ~Takeable(PendingIpl)

TakeInterrupt ==
    /\ phase = "cpu" /\ Takeable(PendingIpl)
    /\ irq' = Iack(Acknowledged(PendingIpl))
    /\ cpu' = [mask |-> PendingIpl, stopped |-> FALSE]
    /\ phase' = "devices"
    /\ UNCHANGED <<uart, dma, owner, req, vdsc, dvc>>

StayStopped ==
    /\ Boundary /\ cpu.stopped
    /\ phase' = "devices"
    /\ UNCHANGED <<cpu, irq, uart, dma, owner, req, vdsc, dvc>>

\* Any instruction's end: a new mask from SR, RTE or STOP, or the old one.
Execute(m, stop) ==
    /\ (Boundary /\ ~cpu.stopped) \/ phase = "bus"
    /\ cpu' = [mask |-> m, stopped |-> stop]
    /\ phase' = "devices"
    /\ UNCHANGED <<irq, uart, dma, owner, req, vdsc, dvc>>

\* A bus access of the instruction under way.
Access ==
    /\ (Boundary /\ ~cpu.stopped) \/ phase = "bus"
    /\ phase' = "bus" /\ cpu' = cpu

SlaveAccess(request) ==
    /\ Access
    /\ req' = [req EXCEPT !.slave = request]
    /\ irq' = [irq EXCEPT !.in2 = request]
    /\ UNCHANGED <<uart, dma, owner, vdsc, dvc>>

CdicAccess(request) ==
    LET r == [req EXCEPT !.cdic = request] IN
    /\ Access
    /\ req' = r
    /\ owner' = Arbitrate(owner, r)
    /\ irq' = [irq EXCEPT !.in4 = owner' # "idle"]
    /\ UNCHANGED <<uart, dma, vdsc, dvc>>

\* The cartridge's registers are decoded before the board's: no refresh here.
DvcAccess(request) ==
    /\ Access
    /\ req' = [req EXCEPT !.dvc = request]
    /\ UNCHANGED <<irq, uart, dma, owner, vdsc, dvc>>

\* refresh_int_line, which follows every change of either.
IntLine(v) == v.it \ v.di # {}

\* Mutant: the bus code does not forward the pin that a read has dropped.
ReadCsr2Only ==
    /\ Access
    /\ vdsc' = [vdsc EXCEPT !.it = {}]
    /\ UNCHANGED <<irq, uart, dma, owner, req, dvc>>

ReadCsr2 ==
    /\ Access
    /\ vdsc' = [vdsc EXCEPT !.it = {}]
    /\ irq' = SetInt1(irq, FALSE)
    /\ UNCHANGED <<uart, dma, owner, req, dvc>>

WriteCsr(di) ==
    /\ Access
    /\ vdsc' = [vdsc EXCEPT !.di = di]
    /\ UNCHANGED <<irq, uart, dma, owner, req, dvc>>

WriteDcr(display) ==
    /\ Access
    /\ vdsc' = [vdsc EXCEPT !.display = display]
    /\ UNCHANGED <<irq, uart, dma, owner, req, dvc>>

ClearLir ==
    /\ Access
    /\ irq' = [irq EXCEPT !.int1 = FALSE]
    /\ UNCHANGED <<uart, dma, owner, req, vdsc, dvc>>

WriteLir(l) ==
    /\ Access
    /\ irq' = [irq EXCEPT !.level1 = l]
    /\ UNCHANGED <<uart, dma, owner, req, vdsc, dvc>>

WritePicr1(l) ==
    /\ Access
    /\ irq' = [irq EXCEPT !.timer_level = l]
    /\ UNCHANGED <<uart, dma, owner, req, vdsc, dvc>>

WritePicr2(rx, tx) ==
    /\ Access
    /\ irq' = [irq EXCEPT !.rx_level = rx, !.tx_level = tx]
    /\ UNCHANGED <<uart, dma, owner, req, vdsc, dvc>>

\* The byte is taken off the queue only when it has been presented.
ReadHolding ==
    /\ Access
    /\ uart' = IF ~uart.rxrdy THEN uart
               ELSE [uart EXCEPT !.rxrdy = FALSE,
                                 !.rx_queue = IF @ = <<>> THEN @ ELSE Tail(@)]
    /\ UNCHANGED <<irq, dma, owner, req, vdsc, dvc>>

WriteTx ==
    /\ Access
    /\ uart.tx_fifo < MaxQueue
    /\ uart' = [uart EXCEPT !.tx_fifo = @ + 1, !.txemt = FALSE]
    /\ UNCHANGED <<irq, dma, owner, req, vdsc, dvc>>

\* The commands of UCR; one write may carry one of each field, as several here.
UartCommands == {"rx_enable", "rx_disable", "rx_reset", "tx_enable", "tx_disable", "tx_reset"}

\* Mutant: resetting the receiver leaves RXRDY.
ResetReceiverKeepsReady(c) ==
    /\ Access
    /\ uart' = IF c = "rx_reset" THEN [uart EXCEPT !.rx_on = FALSE, !.rx_queue = <<>>]
               ELSE IF c = "rx_enable" THEN [uart EXCEPT !.rx_on = TRUE]
               ELSE uart
    /\ UNCHANGED <<irq, dma, owner, req, vdsc, dvc>>

WriteUartCommand(c) ==
    /\ Access
    /\ uart' = CASE c = "rx_enable"  -> [uart EXCEPT !.rx_on = TRUE]
                 [] c = "rx_disable" -> [uart EXCEPT !.rx_on = FALSE, !.rxrdy = FALSE]
                 [] c = "rx_reset"   -> [uart EXCEPT !.rx_on = FALSE, !.rxrdy = FALSE,
                                                     !.rx_queue = <<>>]
                 [] c = "tx_enable"  -> [uart EXCEPT !.tx_on = TRUE]
                 [] c = "tx_disable" -> [uart EXCEPT !.tx_on = FALSE]
                 [] c = "tx_reset"   -> [uart EXCEPT !.tx_on = FALSE, !.tx_fifo = 0,
                                                     !.txemt = TRUE]
    /\ irq' = [irq EXCEPT !.rx = @ /\ c \notin {"rx_disable", "rx_reset"},
                          !.tx = @ /\ c \notin {"tx_disable", "tx_reset"}]
    /\ UNCHANGED <<dma, owner, req, vdsc, dvc>>

-----------------------------------------------------------------------------
(* DMA *)

\* advance_dma1_word at the last word, and a start without words.
CompleteDma1(d) == [d EXCEPT !.so = FALSE, !.coc1 = TRUE]

Dma1Active(d) == d.so /\ d.count # 0

DmaRequested(v) == v.target # "none" /\ v.input[v.target] < InputLimit

\* Channel 0 completes as soon as it is started.
WriteDma0Control(so, l) ==
    /\ Access
    /\ dma' = [dma EXCEPT !.level0 = l, !.coc0 = @ \/ so]
    /\ UNCHANGED <<irq, uart, owner, req, vdsc, dvc>>

WriteDma1Control(so, l) ==
    LET d == [dma EXCEPT !.so = so, !.level1 = l] IN
    /\ Access
    /\ dma' = IF so /\ d.count = 0 THEN CompleteDma1(d) ELSE d
    /\ UNCHANGED <<irq, uart, owner, req, vdsc, dvc>>

ClearDmaStatus(channel) ==
    /\ Access
    /\ dma' = IF channel = 0 THEN [dma EXCEPT !.coc0 = FALSE] ELSE [dma EXCEPT !.coc1 = FALSE]
    /\ UNCHANGED <<irq, uart, owner, req, vdsc, dvc>>

WriteDma1Setup(count, to_memory, steal) ==
    /\ Access
    /\ dma' = [dma EXCEPT !.count = count, !.to_memory = to_memory, !.steal = steal]
    /\ UNCHANGED <<irq, uart, owner, req, vdsc, dvc>>

\* Bit 15 of FMA_CMD or FMV_SYSCMD.
ArmDvc(t) ==
    /\ Access
    /\ dvc' = [dvc EXCEPT !.target = t]
    /\ UNCHANGED <<irq, uart, dma, owner, req, vdsc>>

\* FMV_XFER; the code has no bound here, the model stops at the limit.
TransferWord ==
    /\ Access
    /\ dvc.input["video"] < InputLimit
    /\ dvc' = [dvc EXCEPT !.input["video"] = @ + 1]
    /\ UNCHANGED <<irq, uart, dma, owner, req, vdsc>>

\* The video decoder's reset and the audio stop command.
DiscardInput(t) ==
    /\ Access
    /\ dvc' = [dvc EXCEPT !.input[t] = 0]
    /\ UNCHANGED <<irq, uart, dma, owner, req, vdsc>>

FinishDma(v) ==
    IF v.target = "none" THEN v
    ELSE [v EXCEPT !.target = "none", !.input[v.target] = 0]

Least(x, y) == IF x < y THEN x ELSE y

\* The words that c more cycles pay for: all of them in a burst, else one.
WordsMoved(c) ==
    LET paid == (dma.cycles + c) \div WordCycles
        most == IF dma.steal THEN Least(paid, 1) ELSE paid
    IN Least(most, Least(dma.count, InputLimit - dvc.input[dvc.target]))

\* Mutant: cycles that do not pay for a word are lost.
MoveWordsLoseCredit(c) ==
    LET n    == WordsMoved(c)
        left == [dma EXCEPT !.count = @ - n, !.cycles = IF n = 0 THEN 0 ELSE @ + c - n * WordCycles]
        fed  == [dvc EXCEPT !.input[dvc.target] = @ + n]
    IN /\ dma' = IF left.count = 0 THEN CompleteDma1(left) ELSE left
       /\ dvc' = IF left.count = 0 THEN FinishDma(fed) ELSE fed

\* Mutant: credit is not cut back when the cartridge stops asking.
MoveWordsKeepCredit(c) ==
    LET n    == WordsMoved(c)
        left == [dma EXCEPT !.count = @ - n, !.cycles = @ + c - n * WordCycles]
        fed  == [dvc EXCEPT !.input[dvc.target] = @ + n]
    IN /\ dma' = IF left.count = 0 THEN CompleteDma1(left) ELSE left
       /\ dvc' = IF left.count = 0 THEN FinishDma(fed) ELSE fed

\* The loop of service_dvc_dma.
MoveWords(c) ==
    LET n    == WordsMoved(c)
        left == [dma EXCEPT !.count = @ - n, !.cycles = @ + c - n * WordCycles]
        fed  == [dvc EXCEPT !.input[dvc.target] = @ + n]
    IN IF left.count = 0
       THEN dma' = CompleteDma1(left) /\ dvc' = FinishDma(fed)
       ELSE /\ dma' = IF n > 0 /\ ~DmaRequested(fed)
                      THEN [left EXCEPT !.cycles = Least(@, WordCycles - 1)] ELSE left
            /\ dvc' = fed

ServiceDvcDma(c) ==
    IF ~Dma1Active(dma)
    THEN dma' = [dma EXCEPT !.cycles = 0] /\ dvc' = dvc
    ELSE IF ~DmaRequested(dvc)
    THEN dma' = [dma EXCEPT !.cycles = Least(@, WordCycles - 1)] /\ dvc' = dvc
    ELSE IF dma.to_memory
    THEN dma' = CompleteDma1(dma) /\ dvc' = FinishDma(dvc)
    ELSE MoveWords(c)

-----------------------------------------------------------------------------
(* The devices *)

\* A byte from the terminal or the serial keyboard.
UartRx(b) ==
    /\ Len(uart.rx_queue) < MaxQueue
    /\ uart' = [uart EXCEPT !.rx_queue = Append(@, b)]
    /\ UNCHANGED <<cpu, phase, irq, dma, owner, req, vdsc, dvc>>

\* Mutant: slices do not end where the DMA could move a word.
AnySlice == 1..MaxSlice

\* cycles_until_next_device_event; the other devices' events may end a slice anywhere.
SliceLengths ==
    IF Dma1Active(dma) /\ DmaRequested(dvc)
    THEN {c \in 1..MaxSlice : c <= WordCycles - dma.cycles \/ c = 1}
    ELSE 1..MaxSlice

\* Mutant: the transmitter counts down past an empty FIFO.
PacedPastEmpty ==
    [uart EXCEPT !.tx_fifo = IF uart.tx_on THEN @ - 1 ELSE @,
                 !.rxrdy = @ \/ (uart.rx_on /\ uart.rx_queue # <<>>)]

\* The UART's part of Peripherals::tick at its pacing edge.
PacedUart ==
    LET sent == IF ~uart.tx_on THEN uart
                ELSE LET n == IF uart.tx_fifo = 0 THEN 0 ELSE uart.tx_fifo - 1
                     IN [uart EXCEPT !.tx_fifo = n, !.txemt = @ \/ n = 0]
    IN IF uart.rx_on /\ uart.rx_queue # <<>>
       THEN [sent EXCEPT !.holding = Head(uart.rx_queue), !.rxrdy = TRUE]
       ELSE sent

\* Peripherals::tick when the timer overflows or not, at a pacing edge or not.
TickedIrq(overflow, paced) ==
    [irq EXCEPT !.timer = @ \/ overflow,
                !.tx = @ \/ (paced /\ uart.tx_on),
                !.rx = @ \/ (paced /\ uart.rx_on /\ uart.rx_queue # <<>>)]

\* Mutant: the slice leaves the DVC's request to the next access of the CDIC.
SliceWithoutDvc(c, overflow, paced, r, raised) ==
    LET v == [vdsc EXCEPT !.it = @ \cup raised]
    IN /\ owner' = Arbitrate(owner, [r EXCEPT !.dvc = owner = "vmpeg"])
       /\ irq' = SetInt1([TickedIrq(overflow, paced) EXCEPT !.in2 = r.slave,
                                                            !.in4 = owner' # "idle"], IntLine(v))
       /\ uart' = IF paced THEN PacedUart ELSE uart
       /\ ServiceDvcDma(c)
       /\ req' = r /\ vdsc' = v /\ UNCHANGED cpu

(* tick_device_slice without a host reset: c cycles, in which the devices   *)
(* of r raise their requests and the display programs raise IT1 and IT2.    *)
DeviceSlice(c, overflow, paced, r, raised) ==
    LET v == [vdsc EXCEPT !.it = @ \cup raised]
    IN /\ owner' = Arbitrate(owner, r)
       /\ irq' = SetInt1([TickedIrq(overflow, paced) EXCEPT !.in2 = r.slave,
                                                            !.in4 = owner' # "idle"], IntLine(v))
       /\ uart' = IF paced THEN PacedUart ELSE uart
       /\ ServiceDvcDma(c)
       /\ req' = r /\ vdsc' = v /\ UNCHANGED cpu

Raises(r) == \A d \in DOMAIN req : req[d] => r[d]

Slice(c, overflow, paced, r, raised, last) ==
    /\ phase \in {"bus", "devices"}
    /\ c \in SliceLengths
    /\ Raises(r)
    /\ raised = {} \/ vdsc.display
    /\ DeviceSlice(c, overflow, paced, r, raised)
    /\ phase' = IF last THEN "cpu" ELSE "devices"

-----------------------------------------------------------------------------
(* Resets.  periph.reset leaves the pins as they were last set. *)

ResetHost(slave) ==
    /\ cpu' = ResetCpu
    /\ phase' = "cpu"
    /\ irq' = [ClearIrq EXCEPT !.pin1 = irq.pin1, !.in2 = irq.in2]
    /\ uart' = [ClearUart EXCEPT !.holding = uart.holding]
    /\ dma' = ClearDma
    /\ owner' = "idle"
    /\ req' = [slave |-> slave, cdic |-> FALSE, dvc |-> FALSE]
    /\ vdsc' = ClearVdsc
    /\ dvc' = ClearDvc

\* A slice in which the SLAVE asks for a host reset ends there; the SLAVE keeps its state.
HostReset == phase \in {"bus", "devices"} /\ \E slave \in {req.slave, TRUE} : ResetHost(slave)

\* The frontend: reset, power_cycle, set_video_standard, set_keyboard_attached, (de)attach_dvc.
Reset == phase = "cpu" /\ ResetHost(FALSE)

\* The frontend's keys and discs may make the SLAVE ask between two steps.
SlaveEvent ==
    /\ phase = "cpu"
    /\ req' = [req EXCEPT !.slave = TRUE]
    /\ UNCHANGED <<cpu, phase, irq, uart, dma, owner, vdsc, dvc>>

-----------------------------------------------------------------------------

DeviceAccess ==
    \/ \E request \in BOOLEAN : SlaveAccess(request) \/ CdicAccess(request) \/ DvcAccess(request)
    \/ ReadCsr2
    \/ \E di \in SUBSET Paths : WriteCsr(di)
    \/ \E display \in BOOLEAN : WriteDcr(display)
    \/ \E t \in Targets : ArmDvc(t) \/ DiscardInput(t)
    \/ TransferWord

OnChipAccess ==
    \/ ClearLir
    \/ \E l \in Levels : WriteLir(l) \/ WritePicr1(l)
    \/ \E rx \in Levels, tx \in Levels : WritePicr2(rx, tx)
    \/ ReadHolding
    \/ WriteTx
    \/ \E c \in UartCommands : WriteUartCommand(c)
    \/ \E so \in BOOLEAN, l \in Levels : WriteDma0Control(so, l) \/ WriteDma1Control(so, l)
    \/ \E channel \in {0, 1} : ClearDmaStatus(channel)
    \/ \E n \in Counts, to_memory \in BOOLEAN, steal \in BOOLEAN : WriteDma1Setup(n, to_memory, steal)

CpuStep ==
    \/ TakeInterrupt
    \/ StayStopped
    \/ \E m \in Masks \cup {cpu.mask}, stop \in BOOLEAN : Execute(m, stop)

Slices ==
    \E c \in 1..MaxSlice, overflow \in BOOLEAN, paced \in BOOLEAN, r \in ReqType,
       raised \in SUBSET Paths, last \in BOOLEAN : Slice(c, overflow, paced, r, raised, last)

Outside ==
    \/ \E b \in Bytes : UartRx(b)
    \/ HostReset
    \/ Reset
    \/ SlaveEvent

Next == CpuStep \/ DeviceAccess \/ OnChipAccess \/ Slices \/ Outside

Spec == Init /\ [][Next]_vars

-----------------------------------------------------------------------------
(* Safety *)

(* Between two steps the pins the controller samples are the chips' own     *)
(* requests, whatever mixture of accesses, slices and resets came before:   *)
(* the owner of IN4 is asking and the line is up exactly while one of the   *)
(* two asks; IN2 is up only while the SLAVE asks, save right after a reset, *)
(* when everything is masked.                                               *)
LinesFollowRequests ==
    phase = "cpu" =>
        /\ owner = "cdic" => req.cdic
        /\ owner = "vmpeg" => req.dvc
        /\ owner = "idle" => ~req.cdic /\ ~req.dvc
        /\ irq.in4 = (owner # "idle")
        /\ irq.in2 => req.slave \/ cpu.mask = 7

(* Slices end where the DMA can move its next word, so its credit of cycles *)
(* never reaches a word's worth: a cartridge that stops asking and asks     *)
(* again is not sent words it did not wait for.                             *)
DmaCreditBounded == dma.cycles < WordCycles

(* RXRDY announces the first byte of the queue, so the read that clears it  *)
(* takes off the queue the byte it returns.                                 *)
HoldingIsHead ==
    uart.rxrdy => /\ uart.rx_on
                  /\ uart.rx_queue # <<>> /\ uart.holding = Head(uart.rx_queue)

(* TXEMT never covers a byte still to be sent. *)
EmptyMeansSent == uart.txemt => uart.tx_fifo = 0

MachineInv ==
    TypeOK /\ LinesFollowRequests /\ DmaCreditBounded /\ HoldingIsHead /\ EmptyMeansSent

Requesting(source) ==
    CASE source = "slave" -> req.slave
      [] source = "cdic"  -> req.cdic
      [] source = "vmpeg" -> req.dvc
      [] source = "dma"   -> dma.coc0 \/ dma.coc1
      [] source \in {"int1", "timer", "rx", "tx"} -> irq[source]
      [] OTHER -> FALSE

(* The CPU samples the level before the instruction and acknowledges it by  *)
(* another search through the sources: the search ends at a source that is  *)
(* asking, never at the vector of a chip that is not, nor at none.          *)
InterruptHasSource ==
    phase = "cpu" /\ Takeable(PendingIpl) => Requesting(Acknowledged(PendingIpl))

-----------------------------------------------------------------------------
(* Action properties *)

(* The MCD212's pin is latched on its rising edge (periph.rs:124): whenever *)
(* the pin rises, a request is latched by the end of the slice.             *)
EdgeReachesLatch ==
    [][~IntLine(vdsc) /\ IntLine(vdsc') /\ phase' # "bus" => irq'.int1]_vars

(* The owner of IN4 is not preempted while it asks: the vector fetched at   *)
(* the acknowledge is that of the chip that raised the line (machine.rs,    *)
(* shared_in4_owner_is_not_preempted_until_its_request_is_released).        *)
OwnerNotPreempted ==
    [][/\ owner = "cdic" /\ req'.cdic => owner' = "cdic"
       /\ owner = "vmpeg" /\ req'.dvc => owner' = "vmpeg"]_vars

-----------------------------------------------------------------------------
(* Liveness *)

(* The CPU and the devices run on. *)
Fairness == WF_vars(CpuStep) /\ WF_vars(Slices)

FairSpec == Spec /\ Fairness

DmaMoving == Dma1Active(dma) /\ DmaRequested(dvc)

(* A transfer to a cartridge that asks for data comes to an end, in bursts  *)
(* and by cycle stealing.                                                   *)
DmaCompletes == DmaMoving ~> ~DmaMoving
=============================================================================
