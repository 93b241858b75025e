------------------------------ MODULE MCMachine ------------------------------
(* Instances of Machine for TLC.  The groups of devices meet only in the    *)
(* level the CPU samples: a run explores them side by side, one scenario    *)
(* each, with the accesses and events that belong to it.  Every scenario's  *)
(* steps are steps of Next.                                                 *)
EXTENDS Machine

CONSTANT Scenarios
VARIABLE scenario

-----------------------------------------------------------------------------

\* The drivers gate the pin while nothing is pending, and the display is not
\* turned on by the first instruction after a reset.
VideoAccess ==
    \/ ReadCsr2
    \/ /\ scenario = "gate" \/ vdsc.it = {}
       /\ \E di \in {{}, {1}} : WriteCsr(di)
    \/ /\ irq.pin1 = IntLine(vdsc)
       /\ \E display \in BOOLEAN : WriteDcr(display)
    \/ ClearLir
    \/ \E l \in Levels : WriteLir(l) \/ WritePicr1(l)

LineAccess ==
    \/ \E request \in BOOLEAN : SlaveAccess(request) \/ CdicAccess(request) \/ DvcAccess(request)
    \/ \E so \in BOOLEAN, l \in Levels : WriteDma0Control(so, l)
    \/ ClearDmaStatus(0)

SerialAccess ==
    \/ \E l \in Levels : WritePicr2(l, l)
    \/ ReadHolding
    \/ WriteTx
    \/ \E c \in UartCommands : WriteUartCommand(c)

\* A driver programs a channel while it is idle.
DmaAccess ==
    \/ \E so \in BOOLEAN : WriteDma1Control(so, 4)
    \/ ClearDmaStatus(1)
    \/ /\ ~Dma1Active(dma)
       /\ \E n \in Counts, to_memory \in BOOLEAN, steal \in BOOLEAN : WriteDma1Setup(n, to_memory, steal)
    \/ \E t \in Targets : ArmDvc(t) \/ DiscardInput(t)
    \/ TransferWord

ScenarioAccess ==
    \/ scenario = "lines" /\ LineAccess
    \/ scenario \in {"pin", "gate"} /\ VideoAccess
    \/ scenario = "serial" /\ SerialAccess
    \/ scenario = "dma" /\ DmaAccess

ScenarioSlices ==
    \/ /\ scenario = "lines"
       /\ \E r \in ReqType, last \in BOOLEAN : Slice(1, FALSE, FALSE, r, {}, last)
    \/ /\ scenario \in {"pin", "gate"}
       /\ \E overflow \in BOOLEAN, raised \in SUBSET Paths, last \in BOOLEAN :
              Slice(1, overflow, FALSE, req, raised, last)
    \/ /\ scenario = "serial"
       /\ \E paced \in BOOLEAN, last \in BOOLEAN : Slice(1, FALSE, paced, req, {}, last)
    \/ /\ scenario = "dma"
       /\ \E c \in 1..MaxSlice, last \in BOOLEAN : Slice(c, FALSE, FALSE, req, {}, last)

ScenarioOutside ==
    \/ HostReset
    \/ Reset
    \/ scenario = "lines" /\ SlaveEvent
    \/ scenario = "serial" /\ \E b \in Bytes : UartRx(b)

ScenarioNext ==
    (CpuStep \/ ScenarioAccess \/ ScenarioSlices \/ ScenarioOutside) /\ UNCHANGED scenario

mcvars == <<vars, scenario>>

ScenarioInit == Init /\ scenario \in Scenarios

ScenarioSpec == ScenarioInit /\ [][ScenarioNext]_mcvars

FairScenarios ==
    /\ ScenarioSpec
    /\ WF_mcvars(CpuStep /\ UNCHANGED scenario)
    /\ WF_mcvars(ScenarioSlices /\ UNCHANGED scenario)
=============================================================================
