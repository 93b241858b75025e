---------------------------- MODULE MachineProofs ----------------------------
(***************************************************************************)
(* Theorems about the machine, for every value of the constants. Of        *)
(* Machine: its types and MachineFacts are inductive together, and with    *)
(* them every interrupt the CPU takes is acknowledged at a source that     *)
(* asks. Of MemoryMap, for every board whose regions reach the ends of the *)
(* pages they are in, and every size of page: the table of pages answers   *)
(* as the list of regions does, and RAM holds what was put there. Of the   *)
(* diagnostics, for every capacity of the ring and any PCLs: what is told  *)
(* of the machine and of its sectors is so, and nothing else is lost.      *)
(***************************************************************************)
EXTENDS Machine, MemoryMap, Diagnostics, FiniteSetTheorems, SequenceTheorems, Induction, TLAPS

MachineFacts == LinesFollowRequests /\ DmaCreditBounded /\ HoldingIsHead /\ EmptyMeansSent

Inv == TypeOK /\ MachineFacts

-----------------------------------------------------------------------------
(* Operators *)

(* Arbitrate: the owner asks, and nobody owns the line only if nobody asks. *)
LEMMA OwnerAsks ==
    ASSUME NEW o \in Owners, NEW r \in ReqType
    PROVE  /\ Arbitrate(o, r) \in Owners
           /\ Arbitrate(o, r) = "cdic" => r.cdic
           /\ Arbitrate(o, r) = "vmpeg" => r.dvc
           /\ Arbitrate(o, r) = "idle" => ~r.cdic /\ ~r.dvc
           /\ o = "cdic" /\ r.cdic => Arbitrate(o, r) = "cdic"
           /\ o = "vmpeg" /\ r.dvc => Arbitrate(o, r) = "vmpeg"
BY DEF Arbitrate, Owners, ReqType

(* SetInt1 changes the latch and the sampled pin only. *)
LEMMA PinTyped ==
    ASSUME NEW i \in IrqType, NEW state \in BOOLEAN
    PROVE  /\ SetInt1(i, state) \in IrqType
           /\ SetInt1(i, state).in2 = i.in2
           /\ SetInt1(i, state).in4 = i.in4
BY DEF SetInt1, IrqType

(* Iack clears at most one latch. *)
LEMMA IackTyped ==
    ASSUME irq \in IrqType, NEW source PROVE Iack(source) \in IrqType
BY DEF Iack, IrqType

(* The levels the controller computes are levels. *)
LEMMA PendingTyped ==
    ASSUME TypeOK PROVE PendingIpl \in Level
<1>1. /\ irq.level1 \in Level /\ irq.timer_level \in Level
      /\ irq.rx_level \in Level /\ irq.tx_level \in Level
      /\ dma.level0 \in Level /\ dma.level1 \in Level
  BY DEF TypeOK, IrqType, DmaType
<1>2. \A x, y \in Level : Larger(x, y) \in Level
  BY DEF Larger, Level
<1>3. \A b : \A l \in Level : If(b, l) \in Level
  BY DEF If, Level
<1>5. LatchLevel \in Level /\ DmaLevel \in Level
  BY <1>1, <1>2, <1>3 DEF LatchLevel, DmaLevel
<1>6. ExternalLevel \in Level
  BY DEF ExternalLevel, Level
<1> QED
  BY <1>2, <1>5, <1>6 DEF PendingIpl

-----------------------------------------------------------------------------
(* DMA *)

(* A slice that ends where the next word could move leaves less than a word's *)
(* credit, and moves no more words than there are and than there is room for. *)
LEMMA CreditSpent ==
    ASSUME TypeOK, DmaCreditBounded, Dma1Active(dma), DmaRequested(dvc),
           NEW c \in SliceLengths
    PROVE  /\ WordsMoved(c) \in 0..dma.count
           /\ dma.cycles + c - WordsMoved(c) * WordCycles \in 0..(WordCycles - 1)
<1> DEFINE room == InputLimit - dvc.input[dvc.target]
<1>1. /\ dma.cycles \in 0..(WordCycles - 1) /\ WordCycles \in Nat \ {0}
      /\ dma.count \in Nat \ {0}
  BY MachineAssumption DEF TypeOK, DmaType, DmaCreditBounded, Dma1Active
<1>2. room \in Nat \ {0}
  BY MachineAssumption DEF TypeOK, DvcType, DmaRequested, Targets
<1>3. c \in Nat \ {0} /\ dma.cycles + c <= WordCycles
  BY <1>1, MachineAssumption DEF SliceLengths
<1>4. CASE dma.cycles + c < WordCycles
  <2>1. (dma.cycles + c) \div WordCycles = 0
    BY <1>1, <1>3, <1>4
  <2>2. WordsMoved(c) = 0
    BY <2>1, <1>1, <1>2 DEF WordsMoved, Least
  <2> QED
    BY <2>2, <1>1, <1>3, <1>4
<1>5. CASE dma.cycles + c = WordCycles
  <2>1. (dma.cycles + c) \div WordCycles = 1
    BY <1>1, <1>5
  <2>2. WordsMoved(c) = 1
    BY <2>1, <1>1, <1>2 DEF WordsMoved, Least
  <2> QED
    BY <2>2, <1>1, <1>3, <1>5
<1> QED
  BY <1>1, <1>3, <1>4, <1>5

\* Finishing a DMA keeps the controller's types.
LEMMA FinishTyped ==
    ASSUME NEW v \in DvcType PROVE FinishDma(v) \in DvcType
BY DEF FinishDma, DvcType, Targets

\* So does completing it.
LEMMA CompleteTyped ==
    ASSUME NEW d \in DmaType
    PROVE  CompleteDma1(d) \in DmaType /\ CompleteDma1(d).cycles = d.cycles
BY DEF CompleteDma1, DmaType

\* Both counts of a channel may be set.
LEMMA CountersTyped ==
    ASSUME NEW d \in DmaType, NEW k \in Nat, NEW x \in Nat
    PROVE  LET t == [d EXCEPT !.count = k, !.cycles = x] IN t \in DmaType /\ t.cycles = x
BY DEF DmaType

(* service_dvc_dma keeps the credit below a word's worth. *)
LEMMA DmaServed ==
    ASSUME TypeOK, DmaCreditBounded, NEW c \in SliceLengths, ServiceDvcDma(c)
    PROVE  dma' \in DmaType /\ dvc' \in DvcType /\ DmaCreditBounded'
<1>0. /\ dma \in DmaType /\ dvc \in DvcType /\ WordCycles \in Nat \ {0}
      /\ dma.cycles \in Nat /\ dma.cycles < WordCycles
  BY MachineAssumption DEF TypeOK, DmaType, DmaCreditBounded
<1>1. Least(dma.cycles, WordCycles - 1) = dma.cycles
  BY <1>0 DEF Least
<1>2. CASE ~Dma1Active(dma)
  BY <1>0, <1>2 DEF ServiceDvcDma, DmaType, DmaCreditBounded
<1>3. CASE Dma1Active(dma) /\ ~DmaRequested(dvc)
  <2>1. dma' = [dma EXCEPT !.cycles = dma.cycles] /\ dvc' = dvc
    BY <1>1, <1>3 DEF ServiceDvcDma
  <2> QED
    BY <2>1, <1>0 DEF DmaType, DmaCreditBounded
<1>4. CASE Dma1Active(dma) /\ DmaRequested(dvc) /\ dma.to_memory
  <2>1. dma' = CompleteDma1(dma) /\ dvc' = FinishDma(dvc)
    BY <1>4 DEF ServiceDvcDma
  <2> QED
    BY <2>1, <1>0, CompleteTyped, FinishTyped DEF DmaCreditBounded
<1>5. CASE Dma1Active(dma) /\ DmaRequested(dvc) /\ ~dma.to_memory
  <2> DEFINE n    == WordsMoved(c)
             left == [dma EXCEPT !.count = @ - n, !.cycles = @ + c - n * WordCycles]
             fed  == [dvc EXCEPT !.input[dvc.target] = @ + n]
  <2>1. n \in 0..dma.count /\ dma.cycles + c - n * WordCycles \in 0..(WordCycles - 1)
    BY <1>5, CreditSpent
  <2>2. MoveWords(c)
    BY <1>5 DEF ServiceDvcDma
  <2>3. dma.count - n \in Nat /\ n \in Nat
    BY <2>1, <1>0 DEF DmaType
  <2>4. left \in DmaType /\ left.cycles \in 0..(WordCycles - 1)
    <3> DEFINE x == dma.cycles + c - n * WordCycles
    <3>1. x \in Nat /\ x \in 0..(WordCycles - 1)
      BY <2>1, <1>0
    <3>2. left = [dma EXCEPT !.count = dma.count - n, !.cycles = x]
      OBVIOUS
    <3> HIDE DEF n, x, left
    <3> QED
      BY <3>1, <3>2, <2>3, <1>0, CountersTyped
  <2>5. fed \in DvcType
    BY <2>3, <1>0, <1>5 DEF DvcType, DmaRequested, Targets
  <2>6. CASE left.count = 0
    <3>1. dma' = CompleteDma1(left) /\ dvc' = FinishDma(fed)
      BY <2>2, <2>6 DEF MoveWords
    <3> HIDE DEF left, fed
    <3> QED
      BY <3>1, <2>4, <2>5, <1>0, CompleteTyped, FinishTyped DEF DmaCreditBounded
  <2>7. CASE left.count # 0
    <3>1. dvc' = fed /\ (dma' = left \/ dma' = [left EXCEPT !.cycles = Least(left.cycles, WordCycles - 1)])
      BY <2>2, <2>7 DEF MoveWords
    <3> HIDE DEF left, fed
    <3>2. Least(left.cycles, WordCycles - 1) \in 0..(WordCycles - 1)
      BY <2>4, <1>0 DEF Least
    <3> QED
      BY <3>1, <3>2, <2>4, <2>5, <1>0 DEF DmaType, DmaCreditBounded
  <2> QED
    BY <2>6, <2>7
<1> QED
  BY <1>2, <1>3, <1>4, <1>5

-----------------------------------------------------------------------------
(* The steps *)

LEMMA InitInv == Init => Inv
<1> SUFFICES ASSUME Init PROVE Inv
  OBVIOUS
<1>1. TypeOK
  BY MachineAssumption DEF Init, TypeOK, ResetCpu, CpuType, ClearIrq, IrqType, ClearUart,
     UartType, ClearDma, DmaType, Owners, ReqType, ClearVdsc, VdscType, ClearDvc, DvcType,
     Level, Paths, Targets
<1>2. LinesFollowRequests
  BY DEF Init, LinesFollowRequests, ClearIrq
<1>3. DmaCreditBounded
  BY MachineAssumption DEF Init, DmaCreditBounded, ClearDma
<1>4. HoldingIsHead /\ EmptyMeansSent
  BY DEF Init, HoldingIsHead, EmptyMeansSent, ClearUart
<1> QED
  BY <1>1, <1>2, <1>3, <1>4 DEF Inv, MachineFacts

(* A step inside an instruction need not care for the lines. *)
LEMMA WithinInstruction ==
    ASSUME phase' \in {"bus", "devices"} PROVE LinesFollowRequests'
BY DEF LinesFollowRequests

\* An instruction keeps the invariant.
LEMMA CpuStepKeeps ==
    ASSUME Inv, CpuStep PROVE Inv'
<1> USE DEF Inv
<1>1. CASE TakeInterrupt
  <2>1. PendingIpl \in Level
    BY PendingTyped
  <2>2. irq' \in IrqType
    BY <1>1, IackTyped DEF TakeInterrupt, TypeOK
  <2>3. TypeOK'
    BY <1>1, <2>1, <2>2 DEF TakeInterrupt, TypeOK, CpuType
  <2>4. MachineFacts'
    BY <1>1, WithinInstruction DEF TakeInterrupt, MachineFacts, DmaCreditBounded, HoldingIsHead,
       EmptyMeansSent
  <2> QED
    BY <2>3, <2>4
<1>2. CASE StayStopped
  <2>1. TypeOK'
    BY <1>2 DEF StayStopped, TypeOK
  <2>2. MachineFacts'
    BY <1>2, WithinInstruction DEF StayStopped, MachineFacts, DmaCreditBounded, HoldingIsHead,
       EmptyMeansSent
  <2> QED
    BY <2>1, <2>2
<1>3. ASSUME NEW m \in Masks \cup {cpu.mask}, NEW stop \in BOOLEAN, Execute(m, stop) PROVE Inv'
  <2>1. m \in Level
    BY MachineAssumption DEF TypeOK, CpuType, Level
  <2>2. TypeOK'
    BY <1>3, <2>1 DEF Execute, TypeOK, CpuType
  <2>3. MachineFacts'
    BY <1>3, WithinInstruction DEF Execute, MachineFacts, DmaCreditBounded, HoldingIsHead,
       EmptyMeansSent
  <2> QED
    BY <2>2, <2>3
<1> QED
  BY <1>1, <1>2, <1>3 DEF CpuStep

(* The accesses to the chips behind the lines touch neither the UART nor DMA. *)
LEMMA DeviceAccessKeeps ==
    ASSUME Inv, DeviceAccess PROVE Inv'
<1> USE DEF Inv
<1>1. phase' = "bus" /\ cpu' = cpu /\ uart' = uart /\ dma' = dma
  BY DEF DeviceAccess, Access, SlaveAccess, CdicAccess, DvcAccess, ReadCsr2, WriteCsr, WriteDcr,
     ArmDvc, DiscardInput, TransferWord
<1>2. MachineFacts'
  BY <1>1, WithinInstruction DEF MachineFacts, DmaCreditBounded, HoldingIsHead, EmptyMeansSent
<1>3. cpu' \in CpuType /\ uart' \in UartType /\ dma' \in DmaType
  BY <1>1 DEF TypeOK
<1>4. ASSUME NEW request \in BOOLEAN, SlaveAccess(request) PROVE TypeOK'
  BY <1>1, <1>4 DEF TypeOK, SlaveAccess, ReqType, IrqType
<1>5. ASSUME NEW request \in BOOLEAN, CdicAccess(request) PROVE TypeOK'
  <2>1. req' \in ReqType
    BY <1>5 DEF CdicAccess, TypeOK, ReqType
  <2>2. owner' \in Owners
    BY <1>5, <2>1, OwnerAsks DEF CdicAccess, TypeOK
  <2>3. irq' \in IrqType
    BY <1>5 DEF CdicAccess, TypeOK, IrqType
  <2> QED
    BY <1>1, <1>5, <2>1, <2>2, <2>3 DEF TypeOK, CdicAccess
<1>6. ASSUME NEW request \in BOOLEAN, DvcAccess(request) PROVE TypeOK'
  BY <1>1, <1>6 DEF TypeOK, DvcAccess, ReqType
<1>7. ASSUME ReadCsr2 PROVE TypeOK'
  <2>1. irq' \in IrqType
    BY <1>7, PinTyped DEF ReadCsr2, TypeOK
  <2>2. vdsc' \in VdscType
    BY <1>7 DEF ReadCsr2, TypeOK, VdscType
  <2>3. owner' = owner /\ req' = req /\ dvc' = dvc
    BY <1>7 DEF ReadCsr2
  <2> QED
    BY <1>1, <1>3, <2>1, <2>2, <2>3 DEF TypeOK
<1>8. ASSUME NEW di \in SUBSET Paths, WriteCsr(di) PROVE TypeOK'
  BY <1>1, <1>8 DEF TypeOK, WriteCsr, VdscType
<1>9. ASSUME NEW display \in BOOLEAN, WriteDcr(display) PROVE TypeOK'
  BY <1>1, <1>9 DEF TypeOK, WriteDcr, VdscType
<1>10. ASSUME NEW t \in Targets, ArmDvc(t) PROVE TypeOK'
  BY <1>1, <1>10 DEF TypeOK, ArmDvc, DvcType
<1>11. ASSUME NEW t \in Targets, DiscardInput(t) PROVE TypeOK'
  BY <1>1, <1>11 DEF TypeOK, DiscardInput, DvcType
<1>12. ASSUME TransferWord PROVE TypeOK'
  <2>1. dvc.input["video"] + 1 \in Nat /\ dvc \in DvcType
    BY DEF TypeOK, DvcType, Targets
  <2>2. dvc' = [dvc EXCEPT !.input = [dvc.input EXCEPT !["video"] = dvc.input["video"] + 1]]
    BY <1>12 DEF TransferWord
  <2>3. dvc' \in DvcType
    BY <2>1, <2>2 DEF DvcType
  <2> QED
    BY <1>1, <1>12, <2>3 DEF TypeOK, TransferWord
<1> QED
  BY <1>2, <1>4, <1>5, <1>6, <1>7, <1>8, <1>9, <1>10, <1>11, <1>12 DEF DeviceAccess

(* The registers of the SCC68070: the interrupt levels, the UART, DMA. *)
LEMMA OnChipAccessKeeps ==
    ASSUME Inv, OnChipAccess PROVE Inv'
<1> USE DEF Inv
<1>1. phase' = "bus" /\ cpu' = cpu /\ owner' = owner /\ req' = req /\ vdsc' = vdsc /\ dvc' = dvc
  BY DEF OnChipAccess, Access, ClearLir, WriteLir, WritePicr1, WritePicr2, ReadHolding, WriteTx,
     WriteUartCommand, WriteDma0Control, WriteDma1Control, ClearDmaStatus, WriteDma1Setup
<1>2. LinesFollowRequests'
  BY <1>1, WithinInstruction
<1>3. Levels \subseteq Level /\ Counts \subseteq Nat
  BY MachineAssumption DEF Level
<1> DEFINE Rest == /\ irq' \in IrqType /\ uart' \in UartType /\ dma' \in DmaType
                   /\ dma'.cycles = dma.cycles /\ HoldingIsHead' /\ EmptyMeansSent'
<1>4. ASSUME Rest PROVE Inv'
  BY <1>1, <1>2, <1>4 DEF TypeOK, MachineFacts, DmaCreditBounded
<1>5. ASSUME uart' = uart PROVE HoldingIsHead' /\ EmptyMeansSent' /\ uart' \in UartType
  BY <1>5 DEF TypeOK, MachineFacts, HoldingIsHead, EmptyMeansSent
<1>6. CASE ClearLir
  BY <1>4, <1>5, <1>6 DEF ClearLir, TypeOK, IrqType
<1>7. ASSUME NEW l \in Levels, WriteLir(l) PROVE Inv'
  BY <1>3, <1>4, <1>5, <1>7 DEF WriteLir, TypeOK, IrqType
<1>8. ASSUME NEW l \in Levels, WritePicr1(l) PROVE Inv'
  BY <1>3, <1>4, <1>5, <1>8 DEF WritePicr1, TypeOK, IrqType
<1>9. ASSUME NEW rx \in Levels, NEW tx \in Levels, WritePicr2(rx, tx) PROVE Inv'
  BY <1>3, <1>4, <1>5, <1>9 DEF WritePicr2, TypeOK, IrqType
<1>10. CASE ReadHolding
  <2>1. uart' \in UartType
    <3> DEFINE q == IF uart.rx_queue = <<>> THEN uart.rx_queue ELSE Tail(uart.rx_queue)
    <3>1. uart \in UartType /\ q \in Seq(Bytes)
      BY DEF TypeOK, UartType
    <3>2. uart' = uart \/ uart' = [uart EXCEPT !.rxrdy = FALSE, !.rx_queue = q]
      BY <1>10 DEF ReadHolding
    <3> HIDE DEF q
    <3> QED
      BY <3>1, <3>2 DEF UartType
  <2>2. HoldingIsHead' /\ EmptyMeansSent'
    BY <1>10 DEF ReadHolding, TypeOK, UartType, MachineFacts, HoldingIsHead, EmptyMeansSent
  <2> QED
    BY <1>4, <1>10, <2>1, <2>2 DEF ReadHolding, TypeOK
<1>11. CASE WriteTx
  <2>1. uart' = [uart EXCEPT !.tx_fifo = uart.tx_fifo + 1, !.txemt = FALSE]
    BY <1>11 DEF WriteTx
  <2>2. uart' \in UartType
    <3>1. uart \in UartType /\ uart.tx_fifo + 1 \in Nat
      BY DEF TypeOK, UartType
    <3> QED
      BY <2>1, <3>1 DEF UartType
  <2>3. HoldingIsHead' /\ EmptyMeansSent'
    BY <2>1 DEF TypeOK, UartType, MachineFacts, HoldingIsHead, EmptyMeansSent
  <2> QED
    BY <1>4, <1>11, <2>2, <2>3 DEF WriteTx, TypeOK
<1>12. ASSUME NEW command \in UartCommands, WriteUartCommand(command) PROVE Inv'
  <2>1. irq' \in IrqType
    BY <1>12 DEF WriteUartCommand, TypeOK, IrqType
  <2>2. uart' \in UartType
    <3>1. uart \in UartType /\ <<>> \in Seq(Bytes)
      BY DEF TypeOK
    <3>2. \/ uart' = [uart EXCEPT !.rx_on = TRUE]
          \/ uart' = [uart EXCEPT !.rx_on = FALSE, !.rxrdy = FALSE]
          \/ uart' = [uart EXCEPT !.rx_on = FALSE, !.rxrdy = FALSE, !.rx_queue = <<>>]
          \/ uart' = [uart EXCEPT !.tx_on = TRUE]
          \/ uart' = [uart EXCEPT !.tx_on = FALSE]
          \/ uart' = [uart EXCEPT !.tx_on = FALSE, !.tx_fifo = 0, !.txemt = TRUE]
      BY <1>12 DEF WriteUartCommand, UartCommands
    <3>3. /\ [uart EXCEPT !.rx_on = TRUE] \in UartType
          /\ [uart EXCEPT !.rx_on = FALSE, !.rxrdy = FALSE] \in UartType
      BY <3>1 DEF UartType
    <3>4. [uart EXCEPT !.rx_on = FALSE, !.rxrdy = FALSE, !.rx_queue = <<>>] \in UartType
      BY <3>1 DEF UartType
    <3>5. /\ [uart EXCEPT !.tx_on = TRUE] \in UartType
          /\ [uart EXCEPT !.tx_on = FALSE] \in UartType
      BY <3>1 DEF UartType
    <3>6. [uart EXCEPT !.tx_on = FALSE, !.tx_fifo = 0, !.txemt = TRUE] \in UartType
      BY <3>1 DEF UartType
    <3> QED
      BY <3>2, <3>3, <3>4, <3>5, <3>6
  <2>3. HoldingIsHead' /\ EmptyMeansSent'
    BY <1>12 DEF WriteUartCommand, UartCommands, TypeOK, UartType, MachineFacts, HoldingIsHead,
       EmptyMeansSent
  <2> QED
    BY <1>4, <1>12, <2>1, <2>2, <2>3 DEF WriteUartCommand, TypeOK
<1>13. ASSUME NEW so \in BOOLEAN, NEW l \in Levels, WriteDma0Control(so, l) PROVE Inv'
  BY <1>3, <1>4, <1>5, <1>13 DEF WriteDma0Control, TypeOK, DmaType
<1>14. ASSUME NEW so \in BOOLEAN, NEW l \in Levels, WriteDma1Control(so, l) PROVE Inv'
  <2> DEFINE d == [dma EXCEPT !.so = so, !.level1 = l]
  <2>1. d \in DmaType /\ d.cycles = dma.cycles
    BY <1>3 DEF TypeOK, DmaType
  <2>2. dma' = CompleteDma1(d) \/ dma' = d
    BY <1>14 DEF WriteDma1Control
  <2> HIDE DEF d
  <2> QED
    BY <1>4, <1>5, <1>14, <2>1, <2>2, CompleteTyped DEF WriteDma1Control, TypeOK
<1>15. ASSUME NEW channel \in {0, 1}, ClearDmaStatus(channel) PROVE Inv'
  BY <1>4, <1>5, <1>15 DEF ClearDmaStatus, TypeOK, DmaType
<1>16. ASSUME NEW n \in Counts, NEW to_memory \in BOOLEAN, NEW steal \in BOOLEAN,
              WriteDma1Setup(n, to_memory, steal) PROVE Inv'
  BY <1>3, <1>4, <1>5, <1>16 DEF WriteDma1Setup, TypeOK, DmaType
<1> QED
  BY <1>6, <1>7, <1>8, <1>9, <1>10, <1>11, <1>12, <1>13, <1>14, <1>15, <1>16 DEF OnChipAccess

(* The UART's part of a slice. *)
LEMMA UartPaced ==
    ASSUME uart \in UartType, HoldingIsHead, EmptyMeansSent,
           NEW paced \in BOOLEAN, uart' = IF paced THEN PacedUart ELSE uart
    PROVE  uart' \in UartType /\ HoldingIsHead' /\ EmptyMeansSent'
<1>1. CASE ~paced
  BY <1>1 DEF HoldingIsHead, EmptyMeansSent
<1>2. CASE paced
  <2> DEFINE n    == IF uart.tx_fifo = 0 THEN 0 ELSE uart.tx_fifo - 1
             sent == IF ~uart.tx_on THEN uart
                     ELSE [uart EXCEPT !.tx_fifo = n, !.txemt = @ \/ n = 0]
  <2>1. uart' = IF uart.rx_on /\ uart.rx_queue # <<>>
                THEN [sent EXCEPT !.holding = Head(uart.rx_queue), !.rxrdy = TRUE]
                ELSE sent
    BY <1>2 DEF PacedUart
  <2>2. n \in Nat /\ (uart.tx_fifo = 0 => n = 0)
    BY DEF UartType
  <2>3. /\ sent \in UartType
        /\ sent.txemt => sent.tx_fifo = 0
        /\ sent.rx_on = uart.rx_on /\ sent.rx_queue = uart.rx_queue
        /\ sent.holding = uart.holding /\ sent.rxrdy = uart.rxrdy
    <3> HIDE DEF n
    <3> QED
      BY <2>2 DEF UartType, EmptyMeansSent
  <2> HIDE DEF sent
  <2>4. CASE uart.rx_on /\ uart.rx_queue # <<>>
    <3>1. Head(uart.rx_queue) \in Bytes
      BY <2>4 DEF UartType
    <3>2. uart' = [sent EXCEPT !.holding = Head(uart.rx_queue), !.rxrdy = TRUE]
      BY <2>1, <2>4
    <3>3. uart' \in UartType
      BY <2>3, <3>1, <3>2 DEF UartType
    <3>4. /\ uart'.rx_on /\ uart'.rx_queue = uart.rx_queue /\ uart'.holding = Head(uart.rx_queue)
          /\ uart'.txemt = sent.txemt /\ uart'.tx_fifo = sent.tx_fifo
      BY <2>3, <2>4, <3>2 DEF UartType
    <3> QED
      BY <2>3, <2>4, <3>3, <3>4 DEF HoldingIsHead, EmptyMeansSent
  <2>5. CASE ~(uart.rx_on /\ uart.rx_queue # <<>>)
    BY <2>1, <2>3, <2>5 DEF HoldingIsHead, EmptyMeansSent
  <2> QED
    BY <2>4, <2>5
<1> QED
  BY <1>1, <1>2

\* So does what the devices do behind it.
LEMMA SliceKeeps ==
    ASSUME Inv,
           NEW c \in 1..MaxSlice, NEW overflow \in BOOLEAN, NEW paced \in BOOLEAN,
           NEW r \in ReqType, NEW raised \in SUBSET Paths, NEW last \in BOOLEAN,
           Slice(c, overflow, paced, r, raised, last)
    PROVE  Inv'
<1> USE DEF Inv
<1> DEFINE v == [vdsc EXCEPT !.it = @ \cup raised]
           i == [TickedIrq(overflow, paced) EXCEPT !.in2 = r.slave, !.in4 = owner' # "idle"]
<1>1. /\ owner' = Arbitrate(owner, r) /\ irq' = SetInt1(i, IntLine(v)) /\ req' = r
      /\ vdsc' = v /\ cpu' = cpu /\ uart' = IF paced THEN PacedUart ELSE uart
      /\ ServiceDvcDma(c) /\ c \in SliceLengths /\ phase' \in {"cpu", "devices"}
  BY DEF Slice, DeviceSlice
<1>2. /\ owner' \in Owners
      /\ owner' = "cdic" => r.cdic
      /\ owner' = "vmpeg" => r.dvc
      /\ owner' = "idle" => ~r.cdic /\ ~r.dvc
  BY <1>1, OwnerAsks DEF TypeOK
<1>3. i \in IrqType /\ i.in2 = r.slave /\ i.in4 = (owner' # "idle")
  <2>1. TickedIrq(overflow, paced) \in IrqType
    <3> DEFINE timed   == irq.timer \/ overflow
               sent    == irq.tx \/ (paced /\ uart.tx_on)
               arrived == irq.rx \/ (paced /\ uart.rx_on /\ uart.rx_queue # <<>>)
    <3>1. timed \in BOOLEAN /\ sent \in BOOLEAN /\ arrived \in BOOLEAN
      OBVIOUS
    <3>2. TickedIrq(overflow, paced) = [irq EXCEPT !.timer = timed, !.tx = sent, !.rx = arrived]
      BY DEF TickedIrq
    <3> HIDE DEF timed, sent, arrived
    <3> QED
      BY <3>1, <3>2 DEF TypeOK, IrqType
  <2>2. r.slave \in BOOLEAN
    BY DEF ReqType
  <2> QED
    BY <2>1, <2>2 DEF IrqType
<1>4. v \in VdscType /\ IntLine(v) \in BOOLEAN
  BY DEF TypeOK, VdscType, IntLine
<1>5. irq' \in IrqType /\ irq'.in2 = r.slave /\ irq'.in4 = (owner' # "idle")
  <2> HIDE DEF i, v
  <2> QED
    BY <1>1, <1>3, <1>4, PinTyped
<1>6. dma' \in DmaType /\ dvc' \in DvcType /\ DmaCreditBounded'
  BY <1>1, DmaServed DEF MachineFacts
<1>7. uart' \in UartType /\ HoldingIsHead' /\ EmptyMeansSent'
  BY <1>1, UartPaced DEF TypeOK, MachineFacts
<1>8. TypeOK'
  <2> HIDE DEF i, v
  <2> QED
    BY <1>1, <1>2, <1>4, <1>5, <1>6, <1>7 DEF TypeOK
<1>9. LinesFollowRequests'
  BY <1>1, <1>2, <1>5 DEF LinesFollowRequests
<1> QED
  BY <1>6, <1>7, <1>8, <1>9 DEF MachineFacts

\* So does what happens outside the slices.
LEMMA OutsideKeeps ==
    ASSUME Inv, Outside PROVE Inv'
<1> USE DEF Inv
<1>1. ASSUME NEW b \in Bytes, UartRx(b) PROVE Inv'
  <2>1. /\ uart' = [uart EXCEPT !.rx_queue = Append(uart.rx_queue, b)]
        /\ UNCHANGED <<cpu, phase, irq, dma, owner, req, vdsc, dvc>>
    BY <1>1 DEF UartRx
  <2>2. uart.rx_queue # <<>> => Head(Append(uart.rx_queue, b)) = Head(uart.rx_queue)
    BY DEF TypeOK, UartType
  <2>3. Append(uart.rx_queue, b) \in Seq(Bytes) /\ Append(uart.rx_queue, b) # <<>>
    BY DEF TypeOK, UartType
  <2>4. uart' \in UartType
    BY <2>1, <2>3 DEF TypeOK, UartType
  <2>5. HoldingIsHead' /\ EmptyMeansSent'
    BY <2>1, <2>2, <2>3 DEF TypeOK, UartType, MachineFacts, HoldingIsHead, EmptyMeansSent
  <2> QED
    BY <2>1, <2>4, <2>5 DEF TypeOK, MachineFacts, LinesFollowRequests, DmaCreditBounded
<1>2. ASSUME NEW slave \in BOOLEAN, ResetHost(slave) PROVE Inv'
  <2>1. cpu' \in CpuType /\ phase' = "cpu" /\ owner' = "idle" /\ req' \in ReqType
    BY <1>2 DEF ResetHost, ResetCpu, CpuType, Level, ReqType
  <2>2. vdsc' \in VdscType /\ dvc' \in DvcType
    BY <1>2 DEF ResetHost, ClearVdsc, VdscType, Paths, ClearDvc, DvcType, Targets
  <2>3. irq' \in IrqType
    <3>1. ClearIrq \in IrqType
      BY DEF ClearIrq, IrqType, Level
    <3>2. irq.pin1 \in BOOLEAN /\ irq.in2 \in BOOLEAN
      BY DEF TypeOK, IrqType
    <3>3. irq' = [ClearIrq EXCEPT !.pin1 = irq.pin1, !.in2 = irq.in2]
      BY <1>2 DEF ResetHost
    <3> QED
      BY <3>1, <3>2, <3>3 DEF IrqType
  <2>4. uart' \in UartType /\ HoldingIsHead' /\ EmptyMeansSent'
    <3>1. ClearUart \in UartType
      BY DEF ClearUart, UartType
    <3>2. uart.holding \in Bytes \cup {NoByte}
      BY DEF TypeOK, UartType
    <3>3. uart' = [ClearUart EXCEPT !.holding = uart.holding]
      BY <1>2 DEF ResetHost
    <3>4. uart' \in UartType
      BY <3>1, <3>2, <3>3 DEF UartType
    <3>5. uart'.rxrdy = FALSE /\ uart'.tx_fifo = 0
      BY <3>3 DEF ClearUart
    <3> QED
      BY <3>4, <3>5 DEF HoldingIsHead, EmptyMeansSent
  <2>5. dma' \in DmaType /\ DmaCreditBounded'
    BY <1>2, MachineAssumption DEF ResetHost, ClearDma, DmaType, Level, DmaCreditBounded
  <2>6. LinesFollowRequests'
    BY <1>2 DEF ResetHost, ResetCpu, ClearIrq, LinesFollowRequests
  <2> QED
    BY <2>1, <2>2, <2>3, <2>4, <2>5, <2>6 DEF TypeOK, MachineFacts, Owners
<1>3. req.slave \in BOOLEAN
  BY DEF TypeOK, ReqType
<1>4. CASE SlaveEvent
  <2>1. TypeOK'
    BY <1>4 DEF SlaveEvent, TypeOK, ReqType
  <2>2. MachineFacts'
    BY <1>4 DEF SlaveEvent, MachineFacts, LinesFollowRequests, DmaCreditBounded, HoldingIsHead,
       EmptyMeansSent, TypeOK, ReqType
  <2> QED
    BY <2>1, <2>2
<1> QED
  BY <1>1, <1>2, <1>3, <1>4 DEF Outside, HostReset, Reset

\* So does every step.
LEMMA NextInv == Inv /\ [Next]_vars => Inv'
<1> SUFFICES ASSUME Inv, [Next]_vars PROVE Inv'
  OBVIOUS
<1>1. CASE CpuStep
  BY <1>1, CpuStepKeeps
<1>2. CASE DeviceAccess
  BY <1>2, DeviceAccessKeeps
<1>3. CASE OnChipAccess
  BY <1>3, OnChipAccessKeeps
<1>4. CASE Slices
  BY <1>4, SliceKeeps DEF Slices
<1>5. CASE Outside
  BY <1>5, OutsideKeeps
<1>6. CASE UNCHANGED vars
  BY <1>6 DEF vars, Inv, TypeOK, MachineFacts, LinesFollowRequests, DmaCreditBounded, HoldingIsHead,
     EmptyMeansSent
<1> QED
  BY <1>1, <1>2, <1>3, <1>4, <1>5, <1>6 DEF Next

-----------------------------------------------------------------------------
(* Theorems *)

THEOREM Inductive == Spec => []Inv
BY InitInv, NextInv, PTL DEF Spec

(* Every variable keeps its type. *)
THEOREM TypeCorrect == Spec => []TypeOK
BY Inductive, PTL DEF Inv

(* The lines follow the requests, the DMA has less credit than a word costs, *)
(* and the UART announces the first byte of its queue.                       *)
THEOREM MachineInvariant == Spec => []MachineInv
BY Inductive, PTL DEF Inv, MachineInv, MachineFacts

(* The search for the source of a sampled level ends at one that asks. *)
LEMMA SourceAsks == Inv => InterruptHasSource
<1> SUFFICES ASSUME Inv, phase = "cpu", Takeable(PendingIpl)
             PROVE  Requesting(Acknowledged(PendingIpl))
  BY DEF InterruptHasSource
<1> DEFINE l == PendingIpl
<1>1. l \in Level /\ l # 0 /\ (l = 7 \/ l > cpu.mask)
  BY PendingTyped DEF Inv, Takeable
<1>2. LinesFollowRequests
  BY DEF Inv, MachineFacts
<1>3. l \in {ExternalLevel, LatchLevel, DmaLevel}
  BY DEF PendingIpl, Larger
<1>4. l = LatchLevel => \/ irq.int1 /\ l = irq.level1
                        \/ irq.timer /\ l = irq.timer_level
                        \/ irq.rx /\ l = irq.rx_level
                        \/ irq.tx /\ l = irq.tx_level
  BY <1>1 DEF LatchLevel, Larger, If
<1>5. l = DmaLevel => l \in {If(dma.coc0, dma.level0), If(dma.coc1, dma.level1)}
  BY DEF DmaLevel, Larger
<1>6. l \in {If(dma.coc0, dma.level0), If(dma.coc1, dma.level1)} => dma.coc0 \/ dma.coc1
  BY <1>1 DEF If
<1>7. l = ExternalLevel => (l = 4 /\ irq.in4) \/ (l = 2 /\ irq.in2)
  BY <1>1 DEF ExternalLevel
<1> HIDE DEF l
<1>8. CASE l = 4 /\ irq.in4
  <2>1. owner \in {"cdic", "vmpeg"}
    BY <1>2, <1>8 DEF LinesFollowRequests, Inv, TypeOK, Owners
  <2>2. Acknowledged(l) = owner
    BY <1>8, <2>1 DEF Acknowledged
  <2> QED
    BY <1>2, <2>1, <2>2 DEF LinesFollowRequests, Requesting, l
<1>9. CASE l = 2 /\ irq.in2
  <2>1. Acknowledged(l) = "slave"
    BY <1>9 DEF Acknowledged
  <2>2. req.slave
    BY <1>1, <1>2, <1>9 DEF LinesFollowRequests
  <2> QED
    BY <2>1, <2>2 DEF Requesting, l
<1>10. CASE ~(l = 4 /\ irq.in4) /\ ~(l = 2 /\ irq.in2)
  <2> DEFINE source == IF l \in {If(dma.coc0, dma.level0), If(dma.coc1, dma.level1)} THEN "dma"
                       ELSE IF irq.int1 /\ l = irq.level1 THEN "int1"
                       ELSE IF irq.timer /\ l = irq.timer_level THEN "timer"
                       ELSE IF irq.rx /\ l = irq.rx_level THEN "rx"
                       ELSE IF irq.tx /\ l = irq.tx_level THEN "tx"
                       ELSE "none"
  <2>1. Acknowledged(l) = source
    BY <1>10 DEF Acknowledged
  <2>2. l = LatchLevel \/ l = DmaLevel
    BY <1>3, <1>7, <1>10 DEF l
  <2>3. \/ source = "dma" /\ (dma.coc0 \/ dma.coc1)
        \/ source = "int1" /\ irq.int1
        \/ source = "timer" /\ irq.timer
        \/ source = "rx" /\ irq.rx
        \/ source = "tx" /\ irq.tx
    BY <1>4, <1>5, <1>6, <2>2
  <2> HIDE DEF source
  <2> QED
    BY <2>1, <2>3 DEF Requesting, l
<1> QED
  BY <1>8, <1>9, <1>10

(* No interrupt is acknowledged at a chip that does not ask. *)
THEOREM InterruptHasSourceHolds == Spec => []InterruptHasSource
BY Inductive, SourceAsks, PTL

(* The owner of IN4 keeps it while it asks. *)
THEOREM OwnerNotPreemptedHolds == Spec => OwnerNotPreempted
<1> DEFINE Kept == /\ owner = "cdic" /\ req'.cdic => owner' = "cdic"
                   /\ owner = "vmpeg" /\ req'.dvc => owner' = "vmpeg"
<1>1. Inv /\ [Next]_vars => [Kept]_vars
  <2> SUFFICES ASSUME Inv, Next PROVE Kept
    BY DEF vars
  <2>1. owner \in Owners /\ req \in ReqType
    BY DEF Inv, TypeOK
  <2>2. CASE owner' = owner
    BY <2>2
  <2>3. ASSUME NEW r \in ReqType, owner' = Arbitrate(owner, r), req' = r PROVE Kept
    BY <2>1, <2>3, OwnerAsks
  <2>4. ASSUME NEW slave \in BOOLEAN, ResetHost(slave) PROVE Kept
    BY <2>4 DEF ResetHost
  <2>5. CASE CpuStep \/ OnChipAccess
    BY <2>2, <2>5 DEF CpuStep, TakeInterrupt, StayStopped, Execute, OnChipAccess, ClearLir, WriteLir,
       WritePicr1, WritePicr2, ReadHolding, WriteTx, WriteUartCommand, WriteDma0Control,
       WriteDma1Control, ClearDmaStatus, WriteDma1Setup
  <2>6. CASE DeviceAccess
    <3>1. ASSUME NEW request \in BOOLEAN, CdicAccess(request) PROVE Kept
      <4>1. [req EXCEPT !.cdic = request] \in ReqType
        BY <2>1 DEF ReqType
      <4> QED
        BY <2>3, <3>1, <4>1 DEF CdicAccess
    <3> QED
      BY <2>2, <2>6, <3>1 DEF DeviceAccess, SlaveAccess, DvcAccess, ReadCsr2, WriteCsr, WriteDcr,
         ArmDvc, DiscardInput, TransferWord
  <2>7. CASE Slices
    BY <2>3, <2>7 DEF Slices, Slice, DeviceSlice
  <2>8. CASE Outside
    <3>1. req.slave \in BOOLEAN
      BY <2>1 DEF ReqType
    <3> QED
      BY <2>2, <2>4, <2>8, <3>1 DEF Outside, UartRx, HostReset, Reset, SlaveEvent
  <2> QED
    BY <2>5, <2>6, <2>7, <2>8 DEF Next
<1> QED
  BY Inductive, <1>1, PTL DEF Spec, OwnerNotPreempted

-----------------------------------------------------------------------------
(* The address space. *)

Size == PageSize * PageCount

\* The bus has addresses, numbered from 0.
LEMMA SizeIsPositive == Size \in Nat \ {0} /\ Bus = 0..(Size - 1)
<1>1. PageSize \in Nat \ {0} /\ PageCount \in Nat \ {0}
  BY MapAssumption
<1> QED
  BY <1>1 DEF Size, Bus

-----------------------------------------------------------------------------
(* Regions and pages *)

(* The entries of a board are typed, and a region has a size. *)
LEMMA RegionTyped ==
    ASSUME NEW w \in Wirings
    PROVE  /\ Len(w) \in Nat /\ DOMAIN w = 1..Len(w)
           /\ \A i \in DOMAIN w : /\ w[i].base \in Nat /\ w[i].device \in Devices
                                  /\ RegionSize(w, i) \in Nat \ {0}
                                  /\ w[i].device = "ram" => RegionSize(w, i) = w[i].size
<1>1. w \in Seq([device : Devices, base : Nat, size : Nat \ {0}])
  BY MapAssumption DEF EntriesTyped
<1>3. Len(w) \in Nat /\ DOMAIN w = 1..Len(w)
  BY <1>1
<1>2. \A i \in DOMAIN w : w[i] \in [device : Devices, base : Nat, size : Nat \ {0}]
  BY <1>1, <1>3, ElementOfSeq, Zenon
<1>4. ASSUME NEW i \in DOMAIN w PROVE RegionSize(w, i) \in Nat \ {0}
  <2>1. w[i].size \in Nat \ {0} /\ w[i].base \in Nat
    BY <1>2
  <2>2. CASE i < Len(w) /\ w[i + 1].base > w[i].base
    <3>1. i + 1 \in DOMAIN w
      BY <1>3, <2>2
    <3>2. w[i + 1].base \in Nat
      BY <3>1, <1>2
    <3> QED
      BY <3>2, <2>1, <2>2 DEF RegionSize
  <2> QED
    BY <2>1, <2>2 DEF RegionSize
<1> QED
  BY <1>2, <1>3, <1>4 DEF RegionSize

(* The last entry that decodes an address is the one found. *)
LEMMA LookupFinds ==
    ASSUME NEW w \in Wirings, NEW a \in Bus, NEW i, Resolves(w, a, i)
    PROVE  Lookup(w, a) = i
<1>1. \A j \in DOMAIN w : Resolves(w, a, j) => j = i
  BY RegionTyped DEF Resolves
<1>2. i \in DOMAIN w
  BY DEF Resolves
<1> QED
  BY <1>1, <1>2 DEF Lookup

\* What the search finds resolves the address.
LEMMA LookupDecodes ==
    ASSUME NEW w \in Wirings, NEW a \in Bus, Lookup(w, a) # 0
    PROVE  Lookup(w, a) \in DOMAIN w /\ Resolves(w, a, Lookup(w, a))
BY DEF Lookup

(* The page of an address has it between its ends. *)
LEMMA InItsPage ==
    ASSUME NEW a \in Bus
    PROVE  LET p == a \div PageSize IN
           /\ p \in 0..(PageCount - 1)
           /\ PageSize * p <= a /\ a <= PageSize * p + PageSize - 1
<1> DEFINE p == a \div PageSize
<1>1. PageSize \in Nat \ {0} /\ PageCount \in Nat \ {0} /\ a \in Nat /\ a < PageSize * PageCount
  BY MapAssumption DEF Bus
<1>2. p \in Nat /\ PageSize * p <= a /\ a <= PageSize * p + PageSize - 1
  BY <1>1
<1>3. p < PageCount
  <2>1. SUFFICES ASSUME p >= PageCount PROVE FALSE
    BY <1>1, <1>2
  <2>2. PageSize * p >= PageSize * PageCount
    BY <1>1, <1>2, <2>1
  <2> QED
    BY <1>1, <1>2, <2>2
<1> QED
  BY <1>1, <1>2, <1>3

(* A page answers for its addresses as the list of regions would. *)
LEMMA PageDecodes ==
    ASSUME NEW w \in Wirings, NEW a \in Bus
    PROVE  LET page == PageTable(w)[a \div PageSize] IN
           (IF page.kind = "slow" THEN Lookup(w, a) ELSE page.entry) = Lookup(w, a)
<1> DEFINE p == a \div PageSize
           page == PageTable(w)[p]
<1>1. p \in 0..(PageCount - 1) /\ PageSize * p <= a /\ a <= PageSize * p + PageSize - 1
  BY InItsPage
<1>2. \A j \in DOMAIN w : Decodes(w, j, a) => j \in Touching(w, p)
  BY MapAssumption DEF ReachesPageEnds, Touching
<1>3. CASE Touching(w, p) = {}
  <2>1. page = [kind |-> "open", entry |-> 0]
    BY <1>1, <1>3 DEF PageTable
  <2>2. Lookup(w, a) = 0
    BY <1>2, <1>3 DEF Lookup, Resolves
  <2> QED
    BY <2>1, <2>2
<1>4. ASSUME Touching(w, p) # {},
             NEW i \in Touching(w, p), \A j \in Touching(w, p) : j = i,
             IsCovering(w, p, i), w[i].device \in {"ram", "rom"}
      PROVE  page.kind = "memory" /\ page.entry = Lookup(w, a)
  <2>1. page = [kind |-> "memory", entry |-> i]
    BY <1>1, <1>4 DEF PageTable
  <2>2. i \in DOMAIN w /\ Decodes(w, i, PageSize * p) /\ Decodes(w, i, PageSize * p + PageSize - 1)
    BY <1>4 DEF IsCovering, Holding
  <2>3. /\ w[i].base \in Nat /\ RegionSize(w, i) \in Nat /\ a \in Nat
        /\ PageSize * p \in Nat /\ PageSize \in Nat
    BY <2>2, <1>1, RegionTyped, MapAssumption DEF Bus
  <2>4. Decodes(w, i, a)
    BY <1>1, <2>2, <2>3 DEF Decodes
  <2>5. Resolves(w, a, i)
    BY <2>2, <2>4, <1>2, <1>4, RegionTyped DEF Resolves
  <2> QED
    BY <2>1, <2>5, LookupFinds
<1>5. CASE Touching(w, p) # {} /\ ~\E i \in Touching(w, p) :
              /\ \A j \in Touching(w, p) : j = i
              /\ IsCovering(w, p, i) /\ w[i].device \in {"ram", "rom"}
  <2>1. page = [kind |-> "slow", entry |-> 0]
    BY <1>1, <1>5 DEF PageTable
  <2> QED
    BY <2>1
<1> QED
  BY <1>3, <1>4, <1>5

(* The table of pages never differs from the list of regions. *)
LEMMA Agrees ==
    ASSUME wiring \in Wirings, pages = PageTable(wiring)
    PROVE  PagesAgree
BY PageDecodes DEF PagesAgree, Decoded

-----------------------------------------------------------------------------
(* Bytes *)

(* A sequence of registers stays one with another register. *)
LEMMA OneElement ==
    ASSUME NEW S, NEW x \in S
    PROVE  <<x>> \in Seq(S)
OBVIOUS

BlocksType == [Cells(wiring) -> Value8]
ExtensionType == [Window -> Value8]
NvramType == [0..(NvramCells - ClockCells - 1) -> Value8]
ClockType == [(NvramCells - ClockCells)..(NvramCells - 1) -> Value8]
ReachedType == Seq(Register)
ExpectedType == [Bus -> Value8]
Entries == [blocks : BlocksType, extension : ExtensionType, nvram : NvramType,
            clock : ClockType, reached : ReachedType, expected : ExpectedType]

IsRam(a) == Lookup(wiring, a) # 0 /\ wiring[Lookup(wiring, a)].device = "ram"
Cell(a) == <<Lookup(wiring, a), Offset(Lookup(wiring, a), a)>>
Held(b, e) == \A a \in Bus : IsRam(a) => b[Cell(a)] = e[a]

(* An address of RAM has a cell, and no two of them the same. *)
LEMMA CellsApart ==
    ASSUME wiring \in Wirings, NEW a \in Bus, IsRam(a)
    PROVE  /\ Cell(a) \in Cells(wiring)
           /\ \A b \in Bus : IsRam(b) /\ Cell(b) = Cell(a) => b = a
<1> DEFINE i == Lookup(wiring, a)
<1>1. i \in DOMAIN wiring /\ Decodes(wiring, i, a)
  BY LookupDecodes DEF IsRam, Resolves
<1>2. /\ wiring[i].base \in Nat /\ wiring[i].device = "ram"
      /\ RegionSize(wiring, i) = wiring[i].size /\ wiring[i].size \in Nat
  BY <1>1, RegionTyped DEF IsRam
<1>3. Offset(i, a) \in Bus /\ Offset(i, a) < wiring[i].size
  BY <1>1, <1>2, SizeIsPositive DEF Decodes, Offset
<1>4. Cell(a) \in Cells(wiring)
  BY <1>1, <1>2, <1>3 DEF Cell, Cells
<1>5. ASSUME NEW b \in Bus, IsRam(b), Cell(b) = Cell(a) PROVE b = a
  <2>1. Lookup(wiring, b) = i /\ b - wiring[i].base = a - wiring[i].base
    BY <1>5 DEF Cell, Offset
  <2> QED
    BY <2>1, <1>2, SizeIsPositive
<1> QED
  BY <1>4, <1>5

(* A record of what an access may change, in which RAM holds what was put. *)
Good(m) == m \in Entries /\ Held(m.blocks, m.expected)

\* The fields of the state record.
LEMMA FieldsTyped ==
    ASSUME NEW m \in Entries
    PROVE  /\ m.blocks \in BlocksType /\ m.extension \in ExtensionType /\ m.nvram \in NvramType
           /\ m.clock \in ClockType /\ m.reached \in ReachedType /\ m.expected \in ExpectedType
BY DEF Entries

(* It stays one when another field gets a value of its type. *)
LEMMA OtherFields ==
    ASSUME NEW m, Good(m)
    PROVE  /\ \A x \in ExtensionType : Good([m EXCEPT !.extension = x])
           /\ \A x \in NvramType : Good([m EXCEPT !.nvram = x])
           /\ \A x \in ClockType : Good([m EXCEPT !.clock = x])
           /\ \A x \in ReachedType : Good([m EXCEPT !.reached = x])
BY DEF Entries, Good

\* The record with new memory and what is expected of it.
LEMMA HeldFields ==
    ASSUME NEW m, Good(m), NEW b \in BlocksType, NEW e \in ExpectedType, Held(b, e)
    PROVE  Good([m EXCEPT !.blocks = b, !.expected = e])
BY DEF Entries, Good

\* The record with a new expectation.
LEMMA ExpectedField ==
    ASSUME NEW m, Good(m), NEW e \in ExpectedType, Held(m.blocks, e)
    PROVE  Good([m EXCEPT !.expected = e])
BY DEF Entries, Good

(* The registers an access to a byte of a device reaches. *)
LEMMA RegistersTyped ==
    ASSUME NEW i, NEW off \in Nat
    PROVE  Registers(i, off) \in Seq(Register)
<1>1. off % 2 = 1 => <<"slave", (off \div 2) % 4>> \in Register
  <2>1. (off \div 2) % 4 \in Nat
    OBVIOUS
  <2> QED
    BY <2>1 DEF Register
<1>2. <<"cdic", off>> \in Register /\ <<"vdsc", off>> \in Register
  BY DEF Register
<1>3. << >> \in Seq(Register)
  OBVIOUS
<1>4. CASE wiring[i].device = "slave"
  <2>1. Registers(i, off) = IF off % 2 = 1 THEN << <<"slave", (off \div 2) % 4>> >> ELSE <<>>
    BY <1>4, Zenon DEF Registers
  <2> QED
    BY <2>1, <1>1, <1>3, OneElement, Zenon
<1>5. CASE wiring[i].device \in {"cdic", "vdsc"}
  <2>1. wiring[i].device # "slave" /\ <<wiring[i].device, off>> \in Register
    BY <1>5, <1>2
  <2>2. Registers(i, off) = << <<wiring[i].device, off>> >>
    BY <2>1, <1>5, Zenon DEF Registers
  <2> QED
    BY <2>1, <2>2, OneElement, Zenon
<1>6. CASE wiring[i].device \notin {"slave", "cdic", "vdsc"}
  <2>1. Registers(i, off) = <<>>
    BY <1>6, Zenon DEF Registers
  <2> QED
    BY <2>1, <1>3, Zenon
<1> QED
  BY <1>4, <1>5, <1>6

(* A byte put at an address changes that of no other address. *)
LEMMA PutKeeps ==
    ASSUME MapTypeOK, NEW m, Good(m), NEW addr \in Nat, NEW v \in Value8
    PROVE  Good(PutByte(m, addr, v))
<1> DEFINE a == addr % (PageSize * PageCount)
           i == Decoded(a)
           off == Offset(i, a)
           plain == addr < OnChipBase /\ ~(cartridge /\ a \in Window)
<1>1. wiring \in Wirings
  BY DEF MapTypeOK
<1>2. a \in Bus
  BY SizeIsPositive DEF Size
<1>3. i = Lookup(wiring, a)
  BY <1>1, <1>2, PageDecodes DEF Decoded, MapTypeOK
<1>4. m \in Entries /\ Held(m.blocks, m.expected)
  BY DEF Good
<1>5. OnChipBase \in Nat /\ (addr < OnChipBase <=> ~(addr >= OnChipBase))
  BY MapAssumption
<1>6. CASE addr >= OnChipBase
  <2> DEFINE r == <<"on chip", addr - OnChipBase>>
             to == <<r>>
  <2>1. addr - OnChipBase \in Nat
    BY <1>5, <1>6
  <2>2. r \in Register
    BY <2>1 DEF Register
  <2>4. to \in Seq(Register)
    BY <2>2, OneElement, Zenon
  <2> HIDE DEF r, to
  <2>3. m.reached \o to \in ReachedType
    BY <2>4, <1>4, FieldsTyped, ConcatProperties, Zenon DEF ReachedType
  <2>5. PutByte(m, addr, v) = [m EXCEPT !.reached = m.reached \o to]
    BY <1>6, Zenon DEF PutByte, Reach, r, to
  <2>6. Good([m EXCEPT !.reached = m.reached \o to])
    BY <2>3, OtherFields, Zenon
  <2> QED
    BY <2>5, <2>6, Zenon
<1>7. CASE addr < OnChipBase /\ cartridge /\ a \in Window
  <2> DEFINE x == [m.extension EXCEPT ![a] = v]
  <2>1. PutByte(m, addr, v) = [m EXCEPT !.extension = x]
    BY <1>5, <1>7, Zenon DEF PutByte
  <2>2. x \in ExtensionType
    BY <1>4, FieldsTyped DEF ExtensionType
  <2> HIDE DEF x, a
  <2>3. Good([m EXCEPT !.extension = x])
    BY <2>2, OtherFields, Zenon
  <2> QED
    BY <2>1, <2>3, Zenon
<1>8. [m.expected EXCEPT ![a] = v] \in ExpectedType
  <2>1. m.expected \in [Bus -> Value8]
    BY <1>4, FieldsTyped DEF ExpectedType
  <2> QED
    BY <2>1 DEF ExpectedType
<1>9. CASE plain /\ (i = 0 \/ wiring[i].device \in {"rom", "null"})
  <2>1. PutByte(m, addr, v) = [m EXCEPT !.expected = [m.expected EXCEPT ![a] = v]]
    BY <1>5, <1>9, Zenon DEF PutByte
  <2>2. ~IsRam(a)
    BY <1>3, <1>9 DEF IsRam
  <2>3. Held(m.blocks, [m.expected EXCEPT ![a] = v])
    BY <2>2, <1>4, FieldsTyped DEF ExpectedType, Held
  <2>4. Good([m EXCEPT !.expected = [m.expected EXCEPT ![a] = v]])
    BY <2>3, <1>8, ExpectedField
  <2> QED
    BY <2>1, <2>4, Zenon
<1>10. CASE plain /\ i # 0 /\ wiring[i].device = "ram"
  <2>1. wiring[i].device \notin {"rom", "null"}
    BY <1>10
  <2>2. PutByte(m, addr, v) = [m EXCEPT !.blocks = [m.blocks EXCEPT ![<<i, off>>] = v],
                                        !.expected = [m.expected EXCEPT ![a] = v]]
    BY <1>5, <1>10, <2>1, Zenon DEF PutByte
  <2>3. IsRam(a) /\ Cell(a) = <<i, off>>
    BY <1>3, <1>10 DEF IsRam, Cell
  <2>4. Cell(a) \in Cells(wiring) /\ \A b \in Bus : IsRam(b) /\ Cell(b) = Cell(a) => b = a
    BY <1>1, <1>2, <2>3, CellsApart
  <2>5. \A b \in Bus : IsRam(b) => Cell(b) \in Cells(wiring)
    BY <1>1, CellsApart
  <2>6. m.blocks \in [Cells(wiring) -> Value8] /\ m.expected \in [Bus -> Value8]
    BY <1>4, FieldsTyped DEF BlocksType, ExpectedType
  <2>7. [m.blocks EXCEPT ![Cell(a)] = v] \in BlocksType
    BY <2>6 DEF BlocksType
  <2>8. ASSUME NEW b \in Bus, IsRam(b)
        PROVE  [m.blocks EXCEPT ![Cell(a)] = v][Cell(b)] = [m.expected EXCEPT ![a] = v][b]
    <3>1. CASE b = a
      BY <3>1, <2>4, <2>6, <1>2
    <3>2. CASE b # a
      <4>1. Cell(b) # Cell(a) /\ Cell(b) \in Cells(wiring)
        BY <2>4, <2>5, <2>8, <3>2
      <4>2. m.blocks[Cell(b)] = m.expected[b]
        BY <1>4, <2>8 DEF Held
      <4> QED
        BY <4>1, <4>2, <3>2, <2>6
    <3> QED
      BY <3>1, <3>2
  <2>9. Held([m.blocks EXCEPT ![Cell(a)] = v], [m.expected EXCEPT ![a] = v])
    BY <2>8, Zenon DEF Held
  <2> DEFINE b == [m.blocks EXCEPT ![Cell(a)] = v]
             e == [m.expected EXCEPT ![a] = v]
  <2>10. PutByte(m, addr, v) = [m EXCEPT !.blocks = b, !.expected = e]
    BY <2>2, <2>3, Zenon
  <2>11. b \in BlocksType /\ e \in ExpectedType /\ Held(b, e)
    BY <2>7, <2>9, <1>8
  <2> HIDE DEF b, e
  <2>12. Good([m EXCEPT !.blocks = b, !.expected = e])
    BY <2>11, HeldFields
  <2> QED
    BY <2>10, <2>12, Zenon
<1>11. CASE plain /\ i # 0 /\ wiring[i].device \in {"cdic", "slave", "nvram", "vdsc"}
  <2> DEFINE n == [m EXCEPT !.expected = [m.expected EXCEPT ![a] = v]]
  <2>1. wiring[i].device \notin {"rom", "null"} /\ wiring[i].device # "ram"
    BY <1>11
  <2>2. PutByte(m, addr, v) = PutDevice(n, i, off, v)
    BY <1>5, <1>11, <2>1, Zenon DEF PutByte
  <2>3. ~IsRam(a)
    BY <1>3, <1>11 DEF IsRam
  <2>4. Held(m.blocks, [m.expected EXCEPT ![a] = v])
    BY <2>3, <1>4, FieldsTyped DEF ExpectedType, Held
  <2>5. Good(n)
    BY <2>4, <1>8, ExpectedField, Zenon
  <2>6. n \in Entries
    BY <2>5 DEF Good
  <2>7. off \in Nat
    <3>1. i \in DOMAIN wiring /\ Decodes(wiring, i, a)
      BY <1>1, <1>2, <1>3, <1>11, LookupDecodes DEF Resolves
    <3>2. wiring[i].base \in Nat
      BY <1>1, <3>1, RegionTyped
    <3> QED
      BY <3>1, <3>2, <1>2, SizeIsPositive DEF Decodes, Offset
  <2> HIDE DEF n, off
  <2>8. CASE wiring[i].device # "nvram"
    <3>1. Registers(i, off) \in Seq(Register)
      BY <2>7, RegistersTyped, Zenon
    <3>2. n.reached \o Registers(i, off) \in ReachedType
      BY <3>1, <2>6, FieldsTyped, ConcatProperties, Zenon DEF ReachedType
    <3>4. PutByte(m, addr, v) = [n EXCEPT !.reached = n.reached \o Registers(i, off)]
      BY <2>2, <2>8, Zenon DEF PutDevice, Reach
    <3>5. Good([n EXCEPT !.reached = n.reached \o Registers(i, off)])
      BY <3>2, <2>5, OtherFields, Zenon
    <3> QED
      BY <3>4, <3>5, Zenon
  <2>9. CASE wiring[i].device = "nvram"
    <3> DEFINE c == NvramCell(off)
               x == [n.clock EXCEPT ![c] = v]
               y == [n.nvram EXCEPT ![c] = v]
    <3>1. c \in 0..(NvramCells - 1)
      BY <2>7, MapAssumption DEF NvramCell
    <3>2. \/ PutDevice(n, i, off, v) = n
          \/ IsClock(c) /\ PutDevice(n, i, off, v) = [n EXCEPT !.clock = x]
          \/ ~IsClock(c) /\ PutDevice(n, i, off, v) = [n EXCEPT !.nvram = y]
      <4>1. CASE off % 2 = 1
        BY <4>1, <2>9, Zenon DEF PutDevice
      <4>2. CASE off % 2 # 1 /\ IsClock(c)
        BY <4>2, <2>9, Zenon DEF PutDevice
      <4>3. CASE off % 2 # 1 /\ ~IsClock(c)
        BY <4>3, <2>9, Zenon DEF PutDevice
      <4> QED
        BY <4>1, <4>2, <4>3
    <3>3. IsClock(c) => x \in ClockType
      BY <3>1, <2>6, FieldsTyped, MapAssumption DEF IsClock, ClockType
    <3>4. ~IsClock(c) => y \in NvramType
      BY <3>1, <2>6, FieldsTyped, MapAssumption DEF IsClock, NvramType
    <3> HIDE DEF c, x, y
    <3>5. Good(PutDevice(n, i, off, v))
      <4>1. IsClock(c) => Good([n EXCEPT !.clock = x])
        BY <3>3, <2>5, OtherFields, Zenon
      <4>2. ~IsClock(c) => Good([n EXCEPT !.nvram = y])
        BY <3>4, <2>5, OtherFields, Zenon
      <4> QED
        BY <3>2, <4>1, <4>2, <2>5, Zenon
    <3> QED
      BY <3>5, <2>2, Zenon
  <2> QED
    BY <2>8, <2>9
<1>12. i # 0 => wiring[i].device \in Devices
  BY <1>1, <1>2, <1>3, LookupDecodes, RegionTyped
<1> QED
  BY <1>5, <1>6, <1>7, <1>9, <1>10, <1>11, <1>12 DEF Devices

(* A read changes nothing but what it reaches. *)
LEMMA TouchKeeps ==
    ASSUME MapTypeOK, NEW m, Good(m), NEW addr \in Nat
    PROVE  Good(TouchByte(m, addr))
<1> DEFINE a == addr % (PageSize * PageCount)
           i == Decoded(a)
           off == Offset(i, a)
<1>1. wiring \in Wirings /\ a \in Bus
  BY SizeIsPositive DEF Size, MapTypeOK
<1>2. i = Lookup(wiring, a)
  BY <1>1, PageDecodes DEF Decoded, MapTypeOK
<1>3. m \in Entries /\ m.reached \in Seq(Register)
  BY FieldsTyped DEF Good, ReachedType
<1>4. ASSUME NEW to \in Seq(Register) PROVE Good(Reach(m, to))
  <2>1. m.reached \o to \in ReachedType
    BY <1>3, ConcatProperties, Zenon DEF ReachedType
  <2> QED
    BY <2>1, OtherFields, Zenon DEF Reach
<1>5. CASE addr >= OnChipBase
  <2> DEFINE r == <<"on chip", addr - OnChipBase>>
  <2>1. r \in Register
    <3>1. addr - OnChipBase \in Nat
      BY <1>5, MapAssumption
    <3> QED
      BY <3>1 DEF Register
  <2>2. TouchByte(m, addr) = Reach(m, <<r>>)
    BY <1>5, Zenon DEF TouchByte
  <2> HIDE DEF r
  <2> QED
    BY <2>1, <2>2, <1>4, OneElement, Zenon
<1>6. CASE ~(addr >= OnChipBase) /\ ((cartridge /\ a \in Window) \/ i = 0)
  BY <1>6, Zenon DEF TouchByte
<1>7. CASE ~(addr >= OnChipBase) /\ ~((cartridge /\ a \in Window) \/ i = 0)
  <2>1. TouchByte(m, addr) = Reach(m, Registers(i, off))
    BY <1>7, Zenon DEF TouchByte
  <2>2. i \in DOMAIN wiring /\ Decodes(wiring, i, a)
    BY <1>1, <1>2, <1>7, LookupDecodes DEF Resolves
  <2>3. off \in Nat
    BY <1>1, <2>2, RegionTyped, SizeIsPositive DEF Decodes, Offset
  <2> HIDE DEF off
  <2> QED
    BY <2>1, <2>3, <1>4, RegistersTyped, Zenon
<1> QED
  BY <1>5, <1>6, <1>7

-----------------------------------------------------------------------------
(* The invariant *)

IInv == MapTypeOK /\ Held(blocks, expected)

LatchedType == [at : Bus \cup {-1}, bytes : 0..2, read : BOOLEAN]

(* The state, and what an access makes of it. *)
LEMMA NowIsGood ==
    ASSUME IInv
    PROVE  Good(Now)
<1>1. << >> \in ReachedType
  BY DEF ReachedType
<1>2. Now \in Entries
  BY <1>1 DEF IInv, MapTypeOK, Now, Entries, BlocksType, ExtensionType, NvramType, ClockType, ExpectedType
<1>3. Now.blocks = blocks /\ Now.expected = expected
  BY DEF Now
<1> QED
  BY <1>2, <1>3 DEF Good, IInv

\* A step to a good record keeps the invariant.
LEMMA BecomesGood ==
    ASSUME IInv, NEW m, Good(m), Becomes(m), UNCHANGED <<wiring, pages, cartridge, latched>>
    PROVE  IInv'
<1>1. m \in Entries /\ Held(m.blocks, m.expected)
  BY DEF Good
<1>2. MapTypeOK'
  BY <1>1, FieldsTyped DEF IInv, MapTypeOK, Becomes, BlocksType, ExtensionType, NvramType, ClockType,
     ReachedType, ExpectedType, PageTable, Cells
<1>3. Held(blocks, expected)'
  BY <1>1 DEF Held, IsRam, Cell, Offset, Becomes, Lookup, Resolves
<1> QED
  BY <1>2, <1>3 DEF IInv

\* An access that faults latches its address.
LEMMA FailsKeeps ==
    ASSUME IInv, NEW addr \in Nat, NEW n \in 0..2, NEW read \in BOOLEAN, Fails(addr, n, read),
           UNCHANGED <<wiring, pages, cartridge>>
    PROVE  IInv'
<1>1. addr % (PageSize * PageCount) \in Bus
  BY SizeIsPositive DEF Size
<1>2. latched' \in LatchedType
  BY <1>1 DEF Fails, LatchBusError, IInv, MapTypeOK, LatchedType
<1>3. << >> \in Seq(Register)
  OBVIOUS
<1>4. MapTypeOK'
  BY <1>2, <1>3 DEF IInv, MapTypeOK, Fails, LatchedType, PageTable, Cells
<1>5. Held(blocks, expected)'
  BY DEF IInv, Fails, Held, IsRam, Cell, Offset, Lookup, Resolves
<1> QED
  BY <1>4, <1>5 DEF IInv

\* A read.
LEMMA ReadKeeps ==
    ASSUME IInv, NEW addr \in Nat, NEW n \in {1, 2}, ReadBus(addr, n)
    PROVE  IInv'
<1>1. MapTypeOK
  BY DEF IInv
<1>2. CASE IsBusError(addr, n)
  <2>1. n \in 0..2
    OBVIOUS
  <2> QED
    BY <1>2, <2>1, FailsKeeps DEF ReadBus
<1>3. CASE ~IsBusError(addr, n)
  <2>1. Good(TouchByte(Now, addr))
    BY <1>1, NowIsGood, TouchKeeps
  <2>2. Good(TouchByte(TouchByte(Now, addr), addr + 1))
    BY <1>1, <2>1, TouchKeeps
  <2> QED
    BY <1>3, <2>1, <2>2, BecomesGood DEF ReadBus
<1> QED
  BY <1>2, <1>3

\* A write of a byte.
LEMMA WriteByteKeeps ==
    ASSUME IInv, NEW addr \in Nat, NEW v \in Value8, WriteByte(addr, v)
    PROVE  IInv'
<1>1. MapTypeOK
  BY DEF IInv
<1>2. CASE IsBusError(addr, 1)
  <2>1. 1 \in 0..2 /\ FALSE \in BOOLEAN
    OBVIOUS
  <2>2. Fails(addr, 1, FALSE) /\ UNCHANGED <<wiring, pages, cartridge>>
    BY <1>2 DEF WriteByte
  <2> QED
    BY <2>1, <2>2, FailsKeeps
<1>3. CASE ~IsBusError(addr, 1)
  <2>1. Good(PutByte(Now, addr, v))
    BY <1>1, NowIsGood, PutKeeps
  <2> QED
    BY <1>3, <2>1, BecomesGood DEF WriteByte
<1> QED
  BY <1>2, <1>3

\* A write of a word is two of bytes, in order.
LEMMA WriteWordKeeps ==
    ASSUME IInv, NEW addr \in Nat, NEW high \in Value8, NEW low \in Value8, WriteWord(addr, high, low)
    PROVE  IInv'
<1>1. MapTypeOK
  BY DEF IInv
<1>2. CASE IsBusError(addr, 2)
  <2>1. 2 \in 0..2 /\ FALSE \in BOOLEAN
    OBVIOUS
  <2>2. Fails(addr, 2, FALSE) /\ UNCHANGED <<wiring, pages, cartridge>>
    BY <1>2 DEF WriteWord
  <2> QED
    BY <2>1, <2>2, FailsKeeps
<1>3. CASE ~IsBusError(addr, 2)
  <2>1. Good(PutByte(Now, addr, high))
    BY <1>1, NowIsGood, PutKeeps
  <2>2. Good(PutByte(PutByte(Now, addr, high), addr + 1, low))
    BY <1>1, <2>1, PutKeeps
  <2> QED
    BY <1>3, <2>2, BecomesGood DEF WriteWord
<1> QED
  BY <1>2, <1>3

-----------------------------------------------------------------------------
(* Resets, power cycles and patches *)

(* The vectors are in the first entry, and only there. *)
LEMMA VectorsFirst ==
    ASSUME wiring \in Wirings
    PROVE  /\ 1 \in DOMAIN wiring /\ wiring[1].base = 0 /\ wiring[1].device = "ram"
           /\ \A a \in Bus : a < Vectors => Lookup(wiring, a) = 1
<1>1. /\ wiring # <<>> /\ wiring[1].device = "ram" /\ wiring[1].base = 0 /\ wiring[1].size >= Vectors
      /\ \A i \in 2..Len(wiring), a \in 0..(Vectors - 1) : ~Decodes(wiring, i, a)
  BY MapAssumption DEF VectorsInRam
<1>2. wiring \in Seq([device : Devices, base : Nat, size : Nat \ {0}])
  BY MapAssumption DEF EntriesTyped
<1>3. 1 \in DOMAIN wiring
  BY <1>1, <1>2, RegionTyped
<1>4. ASSUME NEW a \in Bus, a < Vectors PROVE Lookup(wiring, a) = 1
  <2>1. a \in 0..(Vectors - 1)
    BY <1>4, SizeIsPositive, MapAssumption
  <2>2. RegionSize(wiring, 1) \in Nat /\ RegionSize(wiring, 1) = wiring[1].size
    BY <1>1, <1>3, RegionTyped
  <2>3. Decodes(wiring, 1, a)
    BY <1>1, <2>1, <2>2, MapAssumption DEF Decodes
  <2>4. Resolves(wiring, a, 1)
    BY <1>1, <1>3, <2>1, <2>3 DEF Resolves
  <2> QED
    BY <2>4, LookupFinds
<1> QED
  BY <1>1, <1>3, <1>4

\* The reset vectors are copied, and expected, together.
LEMMA VectorsKeep ==
    ASSUME wiring \in Wirings, NEW b \in BlocksType, NEW e \in ExpectedType, Held(b, e)
    PROVE  /\ WithVectors(b) \in BlocksType /\ ExpectVectors(e) \in ExpectedType
           /\ Held(WithVectors(b), ExpectVectors(e))
<1>1. DOMAIN b = Cells(wiring) /\ \A c \in Cells(wiring) : c[2] \in Bus
  BY DEF BlocksType, Cells
<1>2. Firmware \in [Bus -> Value8]
  BY MapAssumption
<1>3. WithVectors(b) \in BlocksType
  BY <1>1, <1>2 DEF WithVectors, BlocksType
<1>4. ExpectVectors(e) \in ExpectedType
  BY <1>2 DEF ExpectVectors, ExpectedType
<1>5. ASSUME NEW a \in Bus, IsRam(a)
      PROVE  WithVectors(b)[Cell(a)] = ExpectVectors(e)[a]
  <2> DEFINE i == Lookup(wiring, a)
  <2>1. Cell(a) \in Cells(wiring) /\ b[Cell(a)] = e[a]
    BY <1>5, CellsApart DEF Held
  <2>2. Cell(a)[1] = i /\ Cell(a)[2] = a - wiring[i].base
    BY DEF Cell, Offset
  <2>3. a \in Int /\ Vectors \in Nat /\ wiring[1].base = 0 /\ (a < Vectors => i = 1)
    BY VectorsFirst, SizeIsPositive, MapAssumption
  <2>4. CASE a < Vectors
    <3>1. Cell(a)[1] = 1 /\ Cell(a)[2] = a
      BY <2>2, <2>3, <2>4
    <3> QED
      BY <3>1, <2>1, <2>4, <1>1 DEF WithVectors, ExpectVectors
  <2>5. CASE ~(a < Vectors)
    <3>1. ~(Cell(a)[1] = 1 /\ Cell(a)[2] < Vectors)
      BY <2>2, <2>3, <2>5
    <3> QED
      BY <3>1, <2>1, <2>5, <1>1 DEF WithVectors, ExpectVectors
  <2> QED
    BY <2>4, <2>5
<1>6. Held(WithVectors(b), ExpectVectors(e))
  BY <1>5 DEF Held
<1> QED
  BY <1>3, <1>4, <1>6

(* The other variables keep their types when what is put where changes. *)
LEMMA MemoryKeeps ==
    ASSUME IInv, NEW b \in BlocksType, NEW e \in ExpectedType, Held(b, e),
           blocks' = b, expected' = e, UNCHANGED <<wiring, pages, cartridge, nvram, clock>>,
           extension' \in ExtensionType, latched' \in LatchedType, reached' \in ReachedType
    PROVE  IInv'
<1>1. MapTypeOK'
  BY DEF IInv, MapTypeOK, BlocksType, ExtensionType, ReachedType, ExpectedType, LatchedType, PageTable, Cells
<1>2. Held(blocks, expected)'
  BY DEF Held, IsRam, Cell, Offset, Lookup, Resolves
<1> QED
  BY <1>1, <1>2 DEF IInv

\* The state is a good record.
LEMMA CurrentTyped ==
    ASSUME IInv
    PROVE  /\ wiring \in Wirings /\ blocks \in BlocksType /\ expected \in ExpectedType
           /\ Held(blocks, expected) /\ extension \in ExtensionType
           /\ latched \in LatchedType /\ reached \in ReachedType
           /\ NoError \in LatchedType /\ << >> \in ReachedType
           /\ [a \in Window |-> Blank] \in ExtensionType
<1>1. NoError \in LatchedType
  BY DEF NoError, LatchedType
<1>2. << >> \in ReachedType
  BY DEF ReachedType
<1>3. [a \in Window |-> Blank] \in ExtensionType
  BY MapAssumption DEF ExtensionType
<1> QED
  BY <1>1, <1>2, <1>3 DEF IInv, MapTypeOK, BlocksType, ExtensionType, ReachedType, ExpectedType, LatchedType

(* Memory that is blank holds what is expected of it. *)
LEMMA BlankHeld ==
    ASSUME wiring \in Wirings
    PROVE  /\ [c \in Cells(wiring) |-> Blank] \in BlocksType
           /\ [a \in Bus |-> Blank] \in ExpectedType
           /\ Held([c \in Cells(wiring) |-> Blank], [a \in Bus |-> Blank])
BY MapAssumption, CellsApart DEF BlocksType, ExpectedType, Held

\* A reset.
LEMMA ResetKeeps ==
    ASSUME IInv, ResetBus
    PROVE  IInv'
<1>1. /\ WithVectors(blocks) \in BlocksType /\ ExpectVectors(expected) \in ExpectedType
      /\ Held(WithVectors(blocks), ExpectVectors(expected))
  BY CurrentTyped, VectorsKeep
<1> QED
  BY <1>1, CurrentTyped, MemoryKeeps DEF ResetBus

\* A power cycle blanks memory and what is expected of it.
LEMMA PowerCycleKeeps ==
    ASSUME IInv, PowerCycleBus
    PROVE  IInv'
<1> DEFINE b == [c \in Cells(wiring) |-> Blank]
           e == [a \in Bus |-> Blank]
<1>1. DOMAIN blocks = Cells(wiring)
  BY CurrentTyped DEF BlocksType
<1>2. blocks' = WithVectors(b) /\ expected' = ExpectVectors(e)
  BY <1>1 DEF PowerCycleBus
<1>3. b \in BlocksType /\ e \in ExpectedType /\ Held(b, e)
  BY CurrentTyped, BlankHeld
<1> HIDE DEF b, e
<1>4. /\ WithVectors(b) \in BlocksType /\ ExpectVectors(e) \in ExpectedType
      /\ Held(WithVectors(b), ExpectVectors(e))
  BY <1>3, CurrentTyped, VectorsKeep
<1> QED
  BY <1>2, <1>4, CurrentTyped, MemoryKeeps DEF PowerCycleBus

\* A diagnostic patch of RAM.
LEMMA PatchKeeps ==
    ASSUME IInv, NEW from \in Bus, NEW v \in Value8, NEW n \in Nat \ {0}, PatchRam(from, v, n)
    PROVE  IInv'
<1> DEFINE span == from..(from + n - 1)
           i == Lookup(wiring, from)
           b == [c \in DOMAIN blocks |->
                    IF c[1] = i /\ wiring[i].base + c[2] \in span THEN v ELSE blocks[c]]
           e == [a \in Bus |-> IF a \in span THEN v ELSE expected[a]]
<1>1. /\ \A a \in span : Lookup(wiring, a) = i
      /\ blocks' = b /\ expected' = e
  BY DEF PatchRam
<1>2. /\ blocks \in [Cells(wiring) -> Value8] /\ expected \in [Bus -> Value8]
      /\ wiring \in Wirings /\ Held(blocks, expected)
  BY CurrentTyped DEF BlocksType, ExpectedType
<1>3. b \in BlocksType /\ e \in ExpectedType
  BY <1>2 DEF BlocksType, ExpectedType
<1>4. ASSUME NEW a \in Bus, IsRam(a) PROVE b[Cell(a)] = e[a]
  <2> DEFINE j == Lookup(wiring, a)
  <2>1. Cell(a) \in Cells(wiring) /\ blocks[Cell(a)] = expected[a]
    BY <1>2, <1>4, CellsApart DEF Held
  <2>2. Cell(a)[1] = j /\ Cell(a)[2] = a - wiring[j].base
    BY DEF Cell, Offset
  <2>3. wiring[j].base \in Nat /\ a \in Int
    BY <1>2, <1>4, LookupDecodes, RegionTyped, SizeIsPositive DEF IsRam
  <2>4. b[Cell(a)] = IF Cell(a)[1] = i /\ wiring[i].base + Cell(a)[2] \in span THEN v ELSE blocks[Cell(a)]
    BY <2>1, <1>2
  <2>5. j = i => wiring[i].base + Cell(a)[2] = a
    BY <2>2, <2>3
  <2>6. a \in span => j = i
    BY <1>1
  <2> HIDE DEF b, span, i, j
  <2> QED
    BY <2>1, <2>2, <2>4, <2>5, <2>6
<1>5. Held(b, e)
  BY <1>4 DEF Held
<1> HIDE DEF b, e
<1> QED
  BY <1>1, <1>3, <1>5, CurrentTyped, MemoryKeeps DEF PatchRam

\* A cartridge comes or goes.
LEMMA CartridgeKeeps ==
    ASSUME IInv, AttachCartridge \/ DetachCartridge
    PROVE  IInv'
<1>1. extension' \in ExtensionType /\ cartridge' \in BOOLEAN
  BY CurrentTyped DEF AttachCartridge, DetachCartridge
<1>2. UNCHANGED <<wiring, pages, blocks, nvram, clock, latched, reached, expected>>
  BY DEF AttachCartridge, DetachCartridge
<1>3. MapTypeOK'
  BY <1>1, <1>2 DEF IInv, MapTypeOK, ExtensionType, PageTable, Cells
<1>4. Held(blocks, expected)'
  BY <1>2 DEF IInv, Held, IsRam, Cell, Offset, Lookup, Resolves
<1> QED
  BY <1>3, <1>4 DEF IInv

-----------------------------------------------------------------------------
(* A board starts with what the invariant asks, and each step keeps it. *)
LEMMA InitHolds == MapInit => IInv
<1> SUFFICES ASSUME MapInit PROVE IInv
  OBVIOUS
<1>1. wiring \in Wirings
  BY DEF MapInit
<1>2. blocks \in BlocksType /\ expected \in ExpectedType /\ Held(blocks, expected)
  BY <1>1, BlankHeld DEF MapInit
<1>3. << >> \in Seq(Register) /\ NoError \in LatchedType
  BY DEF NoError, LatchedType
<1>4. MapTypeOK
  BY <1>1, <1>2, <1>3, MapAssumption DEF MapInit, MapTypeOK, BlocksType, ExpectedType, LatchedType
<1> QED
  BY <1>2, <1>4 DEF IInv

\* Every step keeps the invariant.
LEMMA StepKeeps == IInv /\ [MapNext]_mapVars => IInv'
<1> SUFFICES ASSUME IInv, [MapNext]_mapVars PROVE IInv'
  OBVIOUS
<1>1. CASE UNCHANGED mapVars
  <2>1. MapTypeOK'
    BY <1>1 DEF mapVars, IInv, MapTypeOK, PageTable, Cells
  <2>2. Held(blocks, expected)'
    BY <1>1 DEF mapVars, IInv, Held, IsRam, Cell, Offset, Lookup, Resolves
  <2> QED
    BY <2>1, <2>2 DEF IInv
<1>2. CASE TakeBusError
  <2>1. UNCHANGED <<wiring, pages, cartridge, nvram, clock>> /\ latched' = NoError
        /\ blocks' = blocks /\ expected' = expected /\ extension' = extension /\ reached' = reached
    BY <1>2 DEF TakeBusError
  <2> QED
    BY <2>1, CurrentTyped, MemoryKeeps
<1> QED
  BY <1>1, <1>2, ReadKeeps, WriteByteKeeps, WriteWordKeeps, ResetKeeps, PowerCycleKeeps,
     CartridgeKeeps, PatchKeeps DEF MapNext

(* The table of pages answers for every address as the list of regions does *)
(* (machine.rs:420), and each address of RAM holds what was last put there, *)
(* for every board of which MapAssumption holds.                            *)
THEOREM MapCorrect == MapSpec => []MapInv /\ MapKept
<1>1. IInv => MapInv
  <2>1. ASSUME IInv PROVE MapTypeOK /\ PagesAgree
    BY <2>1, Agrees DEF IInv, MapTypeOK
  <2>2. ASSUME IInv PROVE RamHoldsWhatWasPut
    <3>1. ASSUME NEW a \in Bus, IsRam(a)
          PROVE  /\ blocks[Cell(a)] = expected[a]
                 /\ ~(cartridge /\ a \in Window) => GetByte(a) = blocks[Cell(a)]
      <4>1. Decoded(a) = Lookup(wiring, a)
        BY <2>1, <2>2 DEF PagesAgree
      <4>2. blocks[Cell(a)] = expected[a]
        BY <2>2, <3>1 DEF IInv, Held
      <4>3. ~(cartridge /\ a \in Window) => GetByte(a) = blocks[Cell(a)]
        BY <3>1, <4>1 DEF GetByte, IsRam, Cell
      <4> QED
        BY <4>2, <4>3
    <3> QED
      BY <3>1 DEF IsRam, Cell, RamHoldsWhatWasPut
  <2> QED
    BY <2>1, <2>2 DEF MapInv
<1>2. IInv /\ [MapNext]_mapVars => [mapVars' # mapVars => MapInv']_mapVars
  <2>1. IInv' => MapInv'
    BY <1>1, PTL
  <2> QED
    BY <2>1, StepKeeps
<1> QED
  BY <1>1, <1>2, InitHolds, StepKeeps, PTL DEF MapSpec, MapKept

-----------------------------------------------------------------------------
(* The ring of events.                                                     *)

CardType == {<< >>} \cup ({1, 2} \X {0, 1})
Part == {0, 1, 2} \cup CardType
MachineOK(m) ==
    /\ m \in [EventKinds -> Part] /\ m[Card] \in CardType
    /\ \A k \in EventKinds \ {Card} : m[k] \in {1, 2}

EventType == [kind : EventKinds \cup {"HostReset", "DiagnosticRamPatch"}, value : Part, card : Nat, at : Nat]
RingType == [events : Seq(EventType), pushes : Nat, lost : [ordinary : Nat, milestone : Nat]]

\* What of a value is compared.
Probed(k, v) == IF k = Card THEN Steady(v) ELSE v
Sort(e) == IF IsMilestone(e) THEN "milestone" ELSE "ordinary"

\* Of two events in a row about one part.
InARow(s, i, j) == i < j /\ s[i].kind = s[j].kind /\ s[i].kind \in EventKinds
                   /\ \A m \in (i + 1)..(j - 1) : s[m].kind # s[i].kind
Differ(a, b) == a.card # b.card \/ Probed(a.kind, a.value) # Probed(b.kind, b.value)
Quiet(s) == \A i, j \in DOMAIN s : InARow(s, i, j) => Differ(s[i], s[j])

Numbered(r) ==
    /\ \A i \in DOMAIN r.events : r.events[i].at \in 1..r.pushes /\ r.events[i].card <= card
    /\ \A i, j \in DOMAIN r.events : i < j => r.events[i].at < r.events[j].at
    /\ \A i \in DOMAIN r.events : r.events[i].at > r.lost[Sort(r.events[i])]
    /\ r.lost.ordinary <= r.pushes /\ r.lost.milestone <= r.pushes

Chosen(s) == mode = "milestones" => \A i \in DOMAIN s : s[i].kind \notin EventKinds \ {Milestone}

Survive(r) ==
    r.lost.milestone # 0 => Len(r.events) = capacity /\ \A i \in DOMAIN r.events : IsMilestone(r.events[i])

RingBase(r) == r \in RingType /\ Numbered(r) /\ Quiet(r.events) /\ Chosen(r.events)
RingOK(r) == RingBase(r) /\ Len(r.events) <= capacity /\ Survive(r)

\* The last event about a part tells `said` of it; one about the cartridge only
\* of the one that is there.
IsLast(s, i) == \A j \in (i + 1)..Len(s) : s[j].kind # s[i].kind
Applies(e, live) == e.kind \in EventKinds /\ (e.kind \in {Milestone, Card} => live /\ e.card = card)
LastTells(s, said, live) ==
    \A i \in DOMAIN s : IsLast(s, i) /\ Applies(s[i], live) => Probed(s[i].kind, s[i].value) = said[s[i].kind]

-----------------------------------------------------------------------------
\* An event goes that has only events of the other sort before it.
Victim(s, i) == i \in DOMAIN s /\ \A j \in DOMAIN s : j < i => IsMilestone(s[j]) # IsMilestone(s[i])

LEMMA RemovedIs ==
    ASSUME NEW s \in Seq(EventType), NEW i \in DOMAIN s
    PROVE  /\ Removed(s, i) \in Seq(EventType) /\ Len(Removed(s, i)) = Len(s) - 1
           /\ DOMAIN Removed(s, i) = 1..(Len(s) - 1)
           /\ \A j \in 1..(Len(s) - 1) :
                /\ (IF j < i THEN j ELSE j + 1) \in DOMAIN s
                /\ Removed(s, i)[j] = s[IF j < i THEN j ELSE j + 1]
<1>1. Len(s) \in Nat \ {0} /\ DOMAIN s = 1..Len(s) /\ i \in 1..Len(s)
  OBVIOUS
<1> DEFINE t == Removed(s, i)
<1>2. t = [j \in 1..(Len(s) - 1) |-> IF j < i THEN s[j] ELSE s[j + 1]]
  BY DEF Removed
<1>3. \A j \in 1..(Len(s) - 1) : (IF j < i THEN j ELSE j + 1) \in DOMAIN s
  BY <1>1
<1>4. \A j \in 1..(Len(s) - 1) : t[j] = s[IF j < i THEN j ELSE j + 1]
  BY <1>1, <1>2
<1>5. \A j \in 1..(Len(s) - 1) : t[j] \in EventType
  BY <1>1, <1>3, <1>4
<1>6. DOMAIN t = 1..(Len(s) - 1) /\ t = [j \in 1..(Len(s) - 1) |-> t[j]]
  BY <1>2
<1> HIDE DEF t
<1>7. t \in [1..(Len(s) - 1) -> EventType]
  BY <1>5, <1>6
<1>8. Len(s) - 1 \in Nat
  BY <1>1
<1>9. t \in Seq(EventType) /\ Len(t) = Len(s) - 1
  BY <1>6, <1>7, <1>8
<1> QED BY <1>3, <1>4, <1>6, <1>9 DEF t

\* Where an event was before one went, and what was between two.
LEMMA RemovedRows ==
    ASSUME NEW s \in Seq(EventType), NEW i, Victim(s, i),
           NEW j \in 1..(Len(s) - 1), NEW h \in DOMAIN s, h = (IF j < i THEN j ELSE j + 1)
    PROVE  /\ IsLast(Removed(s, i), j) => IsLast(s, h)
           /\ \A l \in 1..(Len(s) - 1) : InARow(Removed(s, i), j, l) => InARow(s, h, IF l < i THEN l ELSE l + 1)
<1> DEFINE t == Removed(s, i)
           was(m) == IF m < i THEN m ELSE m + 1
<1>1. Len(s) \in Nat /\ DOMAIN s = 1..Len(s) /\ i \in 1..Len(s) /\ j \in Int /\ h \in 1..Len(s)
  BY DEF Victim
<1>2. /\ Len(t) = Len(s) - 1
      /\ \A m \in 1..(Len(s) - 1) : t[m] = s[was(m)]
  BY RemovedIs DEF Victim
<1> HIDE DEF t
<1>3. t[j] = s[h]
  BY <1>2
\* What is behind an event and did not go is still behind it.
<1>4. ASSUME NEW m \in 1..Len(s), m > h, s[m].kind = s[h].kind
      PROVE  \E n \in 1..(Len(s) - 1) : n > j /\ was(n) = m
  <2>1. m # i
    <3> SUFFICES ASSUME m = i PROVE FALSE
      OBVIOUS
    <3>1. h < i /\ h \in DOMAIN s /\ s[h].kind = s[i].kind
      BY <1>1, <1>4
    <3> QED BY <3>1 DEF Victim, IsMilestone
  <2>2. CASE m < i
    <3>1. m \in 1..(Len(s) - 1) /\ m > j /\ was(m) = m
      BY <1>1, <1>4, <2>2
    <3> QED BY <3>1
  <2>3. CASE m > i
    <3>1. m - 1 \in 1..(Len(s) - 1) /\ was(m - 1) = m
      BY <1>1, <2>3
    <3>2. m - 1 > j
      BY <1>1, <1>4, <2>3
    <3> QED BY <3>1, <3>2
  <2> QED BY <1>1, <2>1, <2>2, <2>3
<1>5. ASSUME IsLast(t, j) PROVE IsLast(s, h)
  <2> SUFFICES ASSUME NEW m \in (h + 1)..Len(s), s[m].kind = s[h].kind PROVE FALSE
    BY DEF IsLast
  <2>1. m \in 1..Len(s) /\ m > h
    BY <1>1
  <2>2. PICK n \in 1..(Len(s) - 1) : n > j /\ was(n) = m
    BY <1>4, <2>1
  <2>3. t[n] = s[was(n)]
    BY <1>2
  <2>4. t[n] = s[m]
    BY <2>2, <2>3
  <2>5. t[n].kind = t[j].kind /\ n \in (j + 1)..Len(t)
    <3> HIDE DEF was
    <3> QED BY <1>1, <1>2, <1>3, <2>2, <2>4
  <2> QED BY <1>5, <2>5 DEF IsLast
<1>6. ASSUME NEW l \in 1..(Len(s) - 1), InARow(t, j, l) PROVE InARow(s, h, was(l))
  <2>1. j < l /\ s[h].kind = s[was(l)].kind /\ s[h].kind \in EventKinds
        /\ \A m \in (j + 1)..(l - 1) : t[m].kind # s[h].kind
    BY <1>2, <1>3, <1>6 DEF InARow
  <2>2. h < was(l) /\ was(l) \in 1..Len(s)
    BY <1>1, <2>1
  <2>3. ASSUME NEW m \in (h + 1)..(was(l) - 1), s[m].kind = s[h].kind PROVE FALSE
    <3>1. m \in 1..Len(s) /\ m > h /\ m < was(l)
      BY <1>1, <2>2
    <3>2. PICK n \in 1..(Len(s) - 1) : n > j /\ was(n) = m
      BY <1>4, <2>3, <3>1
    <3>3. n < l
      BY <1>1, <3>1, <3>2
    <3>4. t[n] = s[was(n)]
      BY <1>2
    <3>5. t[n] = s[m]
      BY <3>2, <3>4
    <3>6. n \in (j + 1)..(l - 1) /\ t[n].kind = s[h].kind
      <4> HIDE DEF was
      <4> QED BY <1>1, <2>3, <3>2, <3>3, <3>5
    <3> QED BY <2>1, <3>6
  <2> QED BY <2>1, <2>2, <2>3 DEF InARow
<1> QED BY <1>5, <1>6 DEF t

\* All numbers given are below the last one counted.
Fresh(r) ==
    /\ \A i \in DOMAIN r.events : r.events[i].at < r.pushes
    /\ r.lost.ordinary < r.pushes /\ r.lost.milestone < r.pushes

LEMMA CountKeeps ==
    ASSUME NEW r, RingBase(r)
    PROVE  RingBase([r EXCEPT !.pushes = @ + 1]) /\ Fresh([r EXCEPT !.pushes = @ + 1])
<1> DEFINE c == [r EXCEPT !.pushes = @ + 1]
<1>1. r \in RingType /\ Numbered(r) /\ Quiet(r.events) /\ Chosen(r.events)
  BY DEF RingBase
<1>2. c \in RingType /\ c.events = r.events /\ c.lost = r.lost /\ c.pushes = r.pushes + 1 /\ r.pushes \in Nat
      /\ r.lost.ordinary \in Nat /\ r.lost.milestone \in Nat /\ r.events \in Seq(EventType)
  BY <1>1 DEF RingType
<1> HIDE DEF c
<1>3. \A i \in DOMAIN r.events : r.events[i].at \in 1..r.pushes
  BY <1>1 DEF Numbered
<1>4. \A i \in DOMAIN c.events : c.events[i].at \in 1..c.pushes /\ c.events[i].at < c.pushes
  BY <1>2, <1>3
<1>5. Numbered(c) /\ Fresh(c)
  BY <1>1, <1>2, <1>4 DEF Numbered, Fresh
<1> QED BY <1>1, <1>2, <1>5 DEF RingBase, c

Without(r, i) == [Lose(r, r.events[i]) EXCEPT !.events = Removed(@, i)]
Added(r, e) == [r EXCEPT !.events = Append(@, e)]

\* What is given up leaves the rest as it was said.
LEMMA LoseKeeps ==
    ASSUME NEW r, RingBase(r), Fresh(r), NEW i, Victim(r.events, i), NEW said, NEW live,
           LastTells(r.events, said, live)
    PROVE  /\ RingBase(Without(r, i)) /\ Fresh(Without(r, i)) /\ LastTells(Without(r, i).events, said, live)
           /\ Without(r, i).events = Removed(r.events, i) /\ Without(r, i).pushes = r.pushes
           /\ IsMilestone(r.events[i]) \/ Without(r, i).lost.milestone = r.lost.milestone
<1> DEFINE s == r.events
           e == s[i]
           t == Removed(s, i)
           l == [Lose(r, e) EXCEPT !.events = Removed(@, i)]
           was(m) == IF m < i THEN m ELSE m + 1
<1>1. /\ r \in RingType /\ s \in Seq(EventType) /\ r.pushes \in Nat
      /\ r.lost \in [ordinary : Nat, milestone : Nat]
      /\ Numbered(r) /\ Quiet(s) /\ Chosen(s)
  BY DEF RingBase, RingType
<1>2. i \in DOMAIN s /\ e \in EventType /\ e.at \in Nat
  <2>1. i \in DOMAIN s
    BY DEF Victim
  <2>2. e \in EventType
    BY <1>1, <2>1
  <2> HIDE DEF e
  <2> QED BY <2>1, <2>2 DEF EventType
<1>3. /\ t \in Seq(EventType) /\ DOMAIN t = 1..(Len(s) - 1) /\ Len(t) = Len(s) - 1
      /\ \A j \in 1..(Len(s) - 1) : was(j) \in DOMAIN s /\ t[j] = s[was(j)]
  BY <1>1, <1>2, RemovedIs
<1>4. /\ l.events = t /\ l.pushes = r.pushes /\ l \in RingType
      /\ l.lost = [r.lost EXCEPT ![Sort(e)] = e.at]
  <2>1. Sort(e) \in {"ordinary", "milestone"}
    BY DEF Sort
  <2>2. Lose(r, e) = [r EXCEPT !.lost[Sort(e)] = e.at]
    BY DEF Lose, Sort
  <2> HIDE DEF t, s, e
  <2>3. Lose(r, e).events = r.events /\ Lose(r, e).pushes = r.pushes
        /\ Lose(r, e).lost = [r.lost EXCEPT ![Sort(e)] = e.at] /\ Lose(r, e) \in RingType
    BY <1>1, <1>2, <2>1, <2>2 DEF RingType
  <2>4. l = [Lose(r, e) EXCEPT !.events = t]
    BY <2>3 DEF t, s
  <2> HIDE DEF l
  <2> QED BY <1>3, <2>3, <2>4 DEF RingType
<1> HIDE DEF l
<1>5. e.at \in 1..r.pushes /\ e.at < r.pushes
  BY <1>1, <1>2 DEF Numbered, Fresh
<1>6. /\ \A j \in DOMAIN t : t[j].at \in 1..r.pushes /\ t[j].card <= card /\ t[j].at < r.pushes
      /\ \A j, k \in DOMAIN t : j < k => t[j].at < t[k].at
  <2>1. \A j, k \in DOMAIN t : j < k => was(j) < was(k)
    BY <1>1, <1>2, <1>3
  <2>2. \A j \in DOMAIN t : t[j] = s[was(j)] /\ was(j) \in DOMAIN s
    BY <1>3
  <2> HIDE DEF was, t, s
  <2>3. /\ \A j \in DOMAIN s : s[j].at \in 1..r.pushes /\ s[j].card <= card /\ s[j].at < r.pushes
        /\ \A j, k \in DOMAIN s : j < k => s[j].at < s[k].at
    BY <1>1 DEF Numbered, Fresh, s
  <2> QED BY <2>1, <2>2, <2>3
<1>7. \A j \in DOMAIN t : t[j].at > l.lost[Sort(t[j])]
  <2> SUFFICES ASSUME NEW j \in DOMAIN t PROVE t[j].at > l.lost[Sort(t[j])]
    OBVIOUS
  <2>1. was(j) \in DOMAIN s /\ t[j] = s[was(j)] /\ was(j) # i
    BY <1>1, <1>2, <1>3
  <2>2. l.lost[Sort(t[j])] = IF Sort(t[j]) = Sort(e) THEN e.at ELSE r.lost[Sort(t[j])]
    BY <1>1, <1>4 DEF Sort
  <2>3. t[j].at > r.lost[Sort(t[j])]
    BY <1>1, <2>1 DEF Numbered
  <2>4. CASE Sort(t[j]) = Sort(e)
    <3>1. IsMilestone(t[j]) = IsMilestone(e)
      BY <2>4 DEF Sort, IsMilestone
    <3>2. ~(was(j) < i)
      BY <1>2, <2>1, <3>1 DEF Victim
    <3>3. i < was(j)
      BY <1>1, <1>2, <2>1, <3>2
    <3>4. e.at < s[was(j)].at
      BY <1>1, <1>2, <2>1, <3>3 DEF Numbered
    <3>5. s[was(j)].at \in Nat
      BY <1>1, <2>1 DEF Numbered
    <3> QED BY <1>2, <2>1, <2>2, <2>4, <3>4, <3>5
  <2> QED BY <2>2, <2>3, <2>4
<1>8. /\ l.lost.ordinary \in {r.lost.ordinary, e.at} /\ l.lost.milestone \in {r.lost.milestone, e.at}
      /\ l.lost.milestone = IF IsMilestone(e) THEN e.at ELSE r.lost.milestone
  BY <1>1, <1>4 DEF Sort
<1>9. Numbered(l) /\ Fresh(l)
  BY <1>1, <1>4, <1>5, <1>6, <1>7, <1>8 DEF Numbered, Fresh
<1>10. Quiet(t)
  <2> SUFFICES ASSUME NEW j \in DOMAIN t, NEW k \in DOMAIN t, InARow(t, j, k) PROVE Differ(t[j], t[k])
    BY DEF Quiet
  <2>1. InARow(s, was(j), was(k)) /\ was(j) \in DOMAIN s /\ was(k) \in DOMAIN s
        /\ t[j] = s[was(j)] /\ t[k] = s[was(k)]
    BY <1>1, <1>3, RemovedRows
  <2> HIDE DEF was, t, s
  <2> QED BY <1>1, <2>1 DEF Quiet
<1>11. LastTells(t, said, live)
  <2> SUFFICES ASSUME NEW j \in DOMAIN t, IsLast(t, j), Applies(t[j], live)
               PROVE  Probed(t[j].kind, t[j].value) = said[t[j].kind]
    BY DEF LastTells
  <2>1. IsLast(s, was(j)) /\ was(j) \in DOMAIN s /\ t[j] = s[was(j)]
    BY <1>1, <1>3, RemovedRows
  <2> HIDE DEF was, t
  <2> QED BY <2>1 DEF LastTells
<1>12. Chosen(t)
  BY <1>1, <1>3 DEF Chosen
<1>13. RingBase(l)
  BY <1>4, <1>9, <1>10, <1>12 DEF RingBase
<1>14. Without(r, i) = l
  BY DEF Without, l
<1> HIDE DEF t, s
<1> QED BY <1>4, <1>8, <1>9, <1>11, <1>13, <1>14 DEF t, s

\* The event tells what is new, and the rest is said as it was.
Due(e, said, live) == said[e.kind] # Probed(e.kind, e.value) /\ (e.kind \in {Milestone, Card} => live)
Moves(e, said, now) == \A k \in EventKinds : now[k] = IF k = e.kind THEN Probed(k, e.value) ELSE said[k]
Brings(e, said, now, live) ==
    /\ mode = "milestones" => e.kind \notin EventKinds \ {Milestone}
    /\ Moves(e, said, now)
    /\ e.kind \in EventKinds => Due(e, said, live)

\* An event that comes last, and differs from what was said before.
LEMMA AppendKeeps ==
    ASSUME NEW r, RingBase(r), Fresh(r), NEW e \in EventType, e.at = r.pushes, e.card = card, card \in Nat,
           NEW said, NEW live, LastTells(r.events, said, live), NEW now, Brings(e, said, now, live)
    PROVE  /\ RingBase(Added(r, e)) /\ LastTells(Added(r, e).events, now, live)
           /\ Added(r, e).events = Append(r.events, e) /\ Added(r, e).lost = r.lost
<1> DEFINE s == r.events
           n == Len(s)
           t == Append(s, e)
           a == [r EXCEPT !.events = Append(@, e)]
<1>1. /\ r \in RingType /\ s \in Seq(EventType) /\ r.pushes \in Nat
      /\ r.lost \in [ordinary : Nat, milestone : Nat]
      /\ Numbered(r) /\ Quiet(s) /\ Chosen(s)
  BY DEF RingBase, RingType
<1>new. /\ mode = "milestones" => e.kind \notin EventKinds \ {Milestone}
        /\ \A k \in EventKinds : now[k] = IF k = e.kind THEN Probed(k, e.value) ELSE said[k]
  BY DEF Brings, Moves
<1>live. e.kind \in EventKinds => Due(e, said, live)
  BY DEF Brings
<1>2. /\ a.events = t /\ a.lost = r.lost /\ a.pushes = r.pushes /\ a \in RingType
      /\ n \in Nat /\ DOMAIN s = 1..n /\ DOMAIN t = 1..(n + 1) /\ Len(t) = n + 1
      /\ t[n + 1] = e /\ \A i \in 1..n : t[i] = s[i] /\ i \in 1..(n + 1)
  <2>1. t \in Seq(EventType) /\ Len(t) = n + 1 /\ t[n + 1] = e /\ \A i \in 1..n : t[i] = s[i]
    BY <1>1
  <2>2. n \in Nat /\ DOMAIN s = 1..n
    BY <1>1
  <2> HIDE DEF t, n
  <2>3. a = [r EXCEPT !.events = t]
    BY DEF t
  <2>4. a.events = t /\ a.lost = r.lost /\ a.pushes = r.pushes /\ a \in RingType
    <3> HIDE DEF a, s
    <3> QED BY <1>1, <2>1, <2>3 DEF RingType
  <2>5. DOMAIN t = 1..(n + 1)
    BY <2>1, <2>2
  <2> QED BY <2>1, <2>2, <2>4, <2>5
<1> HIDE DEF a, t
<1>3. Numbered(a)
  <2>1. \A i \in 1..(n + 1) : t[i].at \in 1..r.pushes /\ t[i].card <= card /\ t[i].at > r.lost[Sort(t[i])]
    <3>1. \A i \in 1..n : s[i].at \in 1..r.pushes /\ s[i].card <= card /\ s[i].at > r.lost[Sort(s[i])]
      BY <1>1, <1>2 DEF Numbered
    <3>2. e.at \in 1..r.pushes /\ e.card <= card /\ e.at > r.lost[Sort(e)]
      BY <1>1 DEF Fresh, Sort
    <3> HIDE DEF s, n
    <3> QED BY <1>2, <3>1, <3>2
  <2>2. \A i, j \in 1..(n + 1) : i < j => t[i].at < t[j].at
    <3>1. \A i, j \in 1..n : i < j => s[i].at < s[j].at
      BY <1>1, <1>2 DEF Numbered
    <3>2. \A i \in 1..n : s[i].at < e.at
      BY <1>1, <1>2 DEF Fresh
    <3> HIDE DEF s, n
    <3> QED BY <1>2, <3>1, <3>2
  <2> HIDE DEF s, n
  <2> QED BY <1>1, <1>2, <2>1, <2>2 DEF Numbered
<1>4. \A i \in 1..n : (\A j \in (i + 1)..n : s[j].kind # e.kind) /\ s[i].kind = e.kind => IsLast(s, i)
  BY DEF IsLast
<1>5. Quiet(t)
  <2> SUFFICES ASSUME NEW i \in 1..(n + 1), NEW j \in 1..(n + 1), InARow(t, i, j) PROVE Differ(t[i], t[j])
    BY <1>2 DEF Quiet
  <2>1. i < j /\ t[i].kind = t[j].kind /\ t[i].kind \in EventKinds
        /\ \A m \in (i + 1)..(j - 1) : t[m].kind # t[i].kind
    BY DEF InARow
  <2>2. i \in 1..n /\ t[i] = s[i]
    BY <1>2, <2>1
  <2>3. CASE j # n + 1
    <3>1. j \in 1..n /\ t[j] = s[j]
      BY <1>2, <2>3
    <3>2. \A m \in (i + 1)..(j - 1) : t[m] = s[m]
      BY <1>2, <2>2, <3>1
    <3>3. InARow(s, i, j)
      BY <2>1, <2>2, <3>1, <3>2 DEF InARow
    <3> HIDE DEF s, n
    <3> QED BY <1>1, <1>2, <2>2, <3>1, <3>3 DEF Quiet
  <2>4. CASE j = n + 1
    <3>1. t[j] = e /\ s[i].kind = e.kind /\ e.kind \in EventKinds
      BY <1>2, <2>1, <2>2, <2>4
    <3>2. \A m \in (i + 1)..n : t[m] = s[m]
      BY <1>2, <2>2
    <3>3. \A m \in (i + 1)..n : s[m].kind # e.kind
      BY <1>2, <2>1, <2>2, <2>4, <3>1, <3>2
    <3>4. IsLast(s, i)
      BY <1>4, <2>2, <3>1, <3>3
    <3>5. CASE s[i].card = card
      <4>1. Applies(s[i], live)
        BY <1>live, <3>1, <3>5, Zenon DEF Applies, Due
      <4>2. Probed(s[i].kind, s[i].value) = said[s[i].kind]
        BY <1>2, <2>2, <3>4, <4>1 DEF LastTells
      <4>3. Probed(s[i].kind, s[i].value) # Probed(e.kind, e.value)
        <5> HIDE DEF Probed
        <5> QED BY <1>live, <3>1, <4>2, Zenon DEF Due
      <4> QED BY <2>2, <3>1, <4>3 DEF Differ
    <3>6. CASE s[i].card # card
      BY <2>2, <3>1, <3>6 DEF Differ
    <3> QED BY <3>5, <3>6
  <2> QED BY <2>3, <2>4
<1>6. LastTells(t, now, live)
  <2> SUFFICES ASSUME NEW i \in 1..(n + 1), IsLast(t, i), Applies(t[i], live)
               PROVE  Probed(t[i].kind, t[i].value) = now[t[i].kind]
    BY <1>2 DEF LastTells
  <2>1. t[i].kind \in EventKinds
    BY DEF Applies
  <2>2. CASE i = n + 1
    BY <1>2, <1>new, <2>1, <2>2
  <2>3. CASE i # n + 1
    <3>1. i \in 1..n /\ t[i] = s[i]
      BY <1>2, <2>3
    <3>2. n + 1 \in (i + 1)..Len(t)
      BY <1>2, <3>1
    <3>3. t[i].kind # e.kind
      BY <1>2, <3>2 DEF IsLast
    <3>4. \A m \in (i + 1)..n : t[m] = s[m] /\ m \in (i + 1)..Len(t)
      BY <1>2, <3>1
    <3>5. IsLast(s, i)
      BY <3>1, <3>4 DEF IsLast
    <3>6. Probed(s[i].kind, s[i].value) = said[s[i].kind]
      BY <1>2, <3>1, <3>5 DEF LastTells
    <3> QED BY <1>new, <2>1, <3>1, <3>3, <3>6
  <2> QED BY <2>2, <2>3
<1>7. Chosen(t)
  BY <1>1, <1>2, <1>new DEF Chosen
<1>8. RingBase(a)
  BY <1>2, <1>3, <1>5, <1>7 DEF RingBase
<1>9. Added(r, e) = a
  BY DEF Added, a
<1> QED BY <1>2, <1>6, <1>8, <1>9 DEF t

\* The oldest of a set, and whose turn it is in a full ring.
LEMMA OldestIs ==
    ASSUME NEW S, S \subseteq Nat, S # {}
    PROVE  Oldest(S) \in S /\ \A j \in S : Oldest(S) <= j
<1>1. \E i \in S : \A j \in S : i <= j
  BY LeastOf
<1> QED BY <1>1 DEF Oldest

LEMMA EvictKeeps ==
    ASSUME NEW r, RingBase(r), Fresh(r), Len(r.events) = capacity, capacity \in Nat \ {0}, Survive(r),
           NEW e \in EventType, e.at = r.pushes, e.card = card, card \in Nat,
           NEW said, NEW live, LastTells(r.events, said, live), NEW now, Brings(e, said, now, live)
    PROVE  RingOK(Evict(r, e)) /\ LastTells(Evict(r, e).events, now, live)
<1> DEFINE s == r.events
<1>1. /\ r \in RingType /\ s \in Seq(EventType) /\ r.pushes \in Nat
      /\ r.lost \in [ordinary : Nat, milestone : Nat]
      /\ Numbered(r) /\ Quiet(s) /\ Chosen(s)
  BY DEF RingBase, RingType
<1>2. DOMAIN s = 1..capacity /\ Len(s) = capacity
  BY <1>1
\* One goes, and the event takes the place of the last.
<1>3. ASSUME NEW i, Victim(s, i), Evict(r, e) = [Lose(r, s[i]) EXCEPT !.events = Append(Removed(@, i), e)],
             IsMilestone(s[i]) => IsMilestone(e) /\ \A j \in DOMAIN s : IsMilestone(s[j]),
             ~IsMilestone(s[i]) => r.lost.milestone = 0
      PROVE  RingOK(Evict(r, e)) /\ LastTells(Evict(r, e).events, now, live)
  <2> DEFINE l == Without(r, i)
             a == Added(l, e)
  <2>1. /\ RingBase(l) /\ Fresh(l) /\ LastTells(l.events, said, live)
        /\ l.events = Removed(s, i) /\ l.pushes = r.pushes
        /\ IsMilestone(s[i]) \/ l.lost.milestone = r.lost.milestone
    BY <1>3, LoseKeeps, Zenon
  <2>2. Evict(r, e) = a
    <3>1. Lose(r, s[i]) = [r EXCEPT !.lost[Sort(s[i])] = s[i].at]
      BY DEF Lose, Sort
    <3>2. Lose(r, s[i]).events = s /\ DOMAIN Lose(r, s[i]) = {"events", "pushes", "lost"}
      BY <1>1, <3>1 DEF RingType
    <3> HIDE DEF s
    <3> QED BY <1>3, <3>2 DEF Without, Added, s
  <2>3. e.at = l.pushes
    BY <2>1
  <2> HIDE DEF l
  <2>4. /\ RingBase(a) /\ LastTells(a.events, now, live)
        /\ a.events = Append(l.events, e) /\ a.lost = l.lost
    BY <2>1, <2>3, AppendKeeps, Zenon
  <2> HIDE DEF a
  <2>5. i \in DOMAIN s
    BY <1>3 DEF Victim
  <2>6. /\ l.events \in Seq(EventType) /\ Len(l.events) = capacity - 1
        /\ \A j \in 1..(capacity - 1) : \E h \in DOMAIN s : l.events[j] = s[h]
    <3>1. /\ Removed(s, i) \in Seq(EventType) /\ Len(Removed(s, i)) = Len(s) - 1
          /\ \A j \in 1..(Len(s) - 1) :
                /\ (IF j < i THEN j ELSE j + 1) \in DOMAIN s
                /\ Removed(s, i)[j] = s[IF j < i THEN j ELSE j + 1]
      BY <1>1, <2>5, RemovedIs
    <3> HIDE DEF s
    <3> QED BY <1>2, <2>1, <3>1
  <2>7. /\ Len(a.events) = capacity
        /\ \A j \in 1..(capacity - 1) : a.events[j] = l.events[j]
        /\ a.events[capacity] = e /\ DOMAIN a.events = 1..capacity
    BY <2>4, <2>6
  <2>8. CASE IsMilestone(s[i])
    <3>1. \A j \in 1..(capacity - 1) : IsMilestone(a.events[j])
      <4> HIDE DEF s
      <4> QED BY <1>3, <2>6, <2>7, <2>8
    <3>2. IsMilestone(a.events[capacity])
      BY <1>3, <2>7, <2>8
    <3>3. \A j \in DOMAIN a.events : IsMilestone(a.events[j])
      BY <2>7, <3>1, <3>2
    <3> QED BY <2>2, <2>4, <2>7, <3>3 DEF RingOK, Survive
  <2>9. CASE ~IsMilestone(s[i])
    <3>1. a.lost.milestone = 0
      BY <1>3, <2>1, <2>4, <2>9
    <3> QED BY <2>2, <2>4, <2>7, <3>1 DEF RingOK, Survive
  <2> QED BY <2>8, <2>9
<1>4. CASE Ordinaries(s) # {}
  <2> DEFINE i == Oldest(Ordinaries(s))
  <2>1. Ordinaries(s) \subseteq Nat /\ Ordinaries(s) \subseteq DOMAIN s
    BY <1>2 DEF Ordinaries
  <2>2. i \in Ordinaries(s) /\ \A j \in Ordinaries(s) : i <= j
    BY <1>4, <2>1, OldestIs
  <2>3. i \in DOMAIN s /\ ~IsMilestone(s[i])
    BY <2>2 DEF Ordinaries
  <2>4. \A j \in DOMAIN s : j < i => IsMilestone(s[j])
    <3> SUFFICES ASSUME NEW j \in DOMAIN s, j < i, ~IsMilestone(s[j]) PROVE FALSE
      OBVIOUS
    <3>1. j \in Ordinaries(s)
      BY DEF Ordinaries
    <3>2. i <= j /\ i \in Nat /\ j \in Nat
      BY <2>1, <2>2, <3>1
    <3> HIDE DEF i
    <3> QED BY <3>2
  <2>5. Victim(s, i)
    BY <2>3, <2>4 DEF Victim
  <2>6. Evict(r, e) = [Lose(r, s[i]) EXCEPT !.events = Append(Removed(@, i), e)]
    BY <1>4 DEF Evict
  <2>7. r.lost.milestone = 0
    BY <2>3 DEF Survive
  <2> HIDE DEF i
  <2> QED BY <1>3, <2>3, <2>5, <2>6, <2>7
<1>5. CASE Ordinaries(s) = {}
  <2>1. \A j \in DOMAIN s : IsMilestone(s[j])
    BY <1>5 DEF Ordinaries
  <2>2. CASE IsMilestone(e)
    <3>1. Victim(s, 1)
      BY <1>2 DEF Victim
    <3>2. Evict(r, e) = [Lose(r, s[1]) EXCEPT !.events = Append(Removed(@, 1), e)]
      BY <1>5, <2>2 DEF Evict
    <3>3. IsMilestone(s[1])
      BY <1>2, <2>1
    <3> QED BY <1>3, <2>1, <2>2, <3>1, <3>2, <3>3
  <2>3. CASE ~IsMilestone(e)
    <3> DEFINE l == Lose(r, e)
    <3>1. Evict(r, e) = l
      BY <1>5, <2>3 DEF Evict
    <3>2. l = [r EXCEPT !.lost["ordinary"] = e.at]
      BY <2>3 DEF Lose
    <3>3. l.events = s /\ l.pushes = r.pushes /\ l \in RingType
          /\ l.lost.ordinary = r.pushes /\ l.lost.milestone = r.lost.milestone
          /\ DOMAIN l.lost = {"ordinary", "milestone"}
      BY <1>1, <3>2 DEF RingType
    <3> HIDE DEF l
    <3>4. \A j \in DOMAIN s : Sort(s[j]) = "milestone"
      BY <2>1 DEF Sort
    <3>5. Numbered(l)
      <4> HIDE DEF s
      <4> QED BY <1>1, <3>3, <3>4 DEF Numbered, s
    <3>6. RingOK(l)
      BY <1>1, <1>2, <2>1, <3>3, <3>5 DEF RingOK, RingBase, Survive
    <3>7. LastTells(s, now, live)
      <4> SUFFICES ASSUME NEW j \in DOMAIN s, IsLast(s, j), Applies(s[j], live)
                   PROVE  Probed(s[j].kind, s[j].value) = now[s[j].kind]
        BY DEF LastTells
      <4>1. s[j].kind = Milestone /\ s[j].kind \in EventKinds /\ e.kind # Milestone
        BY <2>1, <2>3 DEF IsMilestone, Applies
      <4>2. Probed(s[j].kind, s[j].value) = said[s[j].kind]
        BY DEF LastTells
      <4> QED BY <4>1, <4>2 DEF Brings, Moves
    <3> QED BY <3>1, <3>3, <3>6, <3>7
  <2> QED BY <2>2, <2>3
<1> QED BY <1>4, <1>5

\* An event pushed while something is captured.
LEMMA PushKeeps ==
    ASSUME NEW r, RingOK(r), mode # "off", capacity \in Nat \ {0}, card \in Nat,
           NEW kind \in EventKinds \cup {"HostReset", "DiagnosticRamPatch"}, NEW value \in Part,
           NEW said, NEW live, LastTells(r.events, said, live), NEW now,
           Brings([kind |-> kind, value |-> value], said, now, live)
    PROVE  RingOK(PushEvent(r, kind, value)) /\ LastTells(PushEvent(r, kind, value).events, now, live)
<1> DEFINE e == [kind |-> kind, value |-> value, card |-> card, at |-> r.pushes + 1]
           c == [r EXCEPT !.pushes = @ + 1]
<1>1. RingBase(r) /\ r \in RingType /\ r.pushes \in Nat /\ r.events \in Seq(EventType)
      /\ Len(r.events) <= capacity /\ Survive(r)
  BY DEF RingOK, RingBase, RingType
<1>2. RingBase(c) /\ Fresh(c)
  BY <1>1, CountKeeps
<1>3. c.events = r.events /\ c.pushes = r.pushes + 1 /\ c.lost = r.lost
  BY <1>1 DEF RingType
<1>4. e \in EventType /\ e.at = r.pushes + 1 /\ e.card = card /\ e.kind = kind /\ e.value = value
  BY <1>1 DEF EventType
<1>5. PushEvent(r, kind, value) = IF Len(r.events) = capacity THEN Evict(c, e) ELSE [c EXCEPT !.events = Append(@, e)]
  BY DEF PushEvent
<1> HIDE DEF c, e
<1>brings. Brings(e, said, now, live)
  BY <1>4 DEF Brings, Moves, Due
<1>6. CASE Len(r.events) = capacity
  <2>1. Survive(c)
    BY <1>1, <1>3 DEF Survive
  <2>2. Len(c.events) = capacity /\ e.at = c.pushes /\ LastTells(c.events, said, live)
    BY <1>3, <1>4, <1>6
  <2>6. RingOK(Evict(c, e)) /\ LastTells(Evict(c, e).events, now, live)
    BY <1>2, <1>4, <1>brings, <2>1, <2>2, EvictKeeps, Zenon
  <2> QED BY <1>5, <1>6, <2>6
<1>7. CASE Len(r.events) # capacity
  <2>1. e.at = c.pushes /\ LastTells(c.events, said, live)
    BY <1>3, <1>4
  <2> DEFINE a == Added(c, e)
  <2>5. /\ RingBase(a) /\ LastTells(a.events, now, live)
        /\ a.events = Append(c.events, e) /\ a.lost = c.lost
    BY <1>2, <1>4, <1>brings, <2>1, AppendKeeps, Zenon
  <2>6. PushEvent(r, kind, value) = a
    BY <1>5, <1>7 DEF Added
  <2> HIDE DEF a
  <2>7. Len(a.events) = Len(r.events) + 1 /\ Len(r.events) < capacity
    BY <1>1, <1>3, <1>7, <2>5
  <2>8. a.lost.milestone = 0
    BY <1>1, <1>3, <1>7, <2>5 DEF Survive
  <2>9. Len(a.events) <= capacity
    BY <1>1, <2>7
  <2> QED BY <2>5, <2>6, <2>8, <2>9 DEF RingOK, Survive
<1> QED BY <1>6, <1>7

-----------------------------------------------------------------------------
(* A sample, part by part.                                                 *)

\* One part.
SamplePart(x, m, k) ==
    IF Tells(DiagnosticProbe(m), k) THEN PushEvent(x, k, m[k]) ELSE x

SampleRun(r, m) ==
    CHOOSE f : f = [n \in 0..Len(Order) |-> IF n = 0 THEN r ELSE SamplePart(f[n - 1], m, Order[n])]

LEMMA OrderIs ==
    /\ Len(Order) \in Nat /\ DOMAIN Order = 1..Len(Order)
    /\ \A i \in 1..Len(Order) : Order[i] \in EventKinds
    /\ \A k \in EventKinds : \E i \in 1..Len(Order) : Order[i] = k
    /\ \A i, j \in 1..Len(Order) : i # j => Order[i] # Order[j]
    /\ Milestone \in EventKinds /\ Card \in EventKinds
<1>1. Ordinary \in Seq(STRING)
  BY RingAssumption
<1> DEFINE n == Len(Ordinary)
           t == <<Milestone, Card>>
<1>2. /\ n \in Nat /\ Len(Order) = n + 2 /\ DOMAIN Order = 1..(n + 2)
      /\ Order[n + 1] = Milestone /\ Order[n + 2] = Card
  <2> PICK S : Ordinary \in Seq(S) /\ t \in Seq(S)
    <3>1. Ordinary \in Seq(STRING \cup {Milestone, Card}) /\ t \in Seq(STRING \cup {Milestone, Card})
      BY <1>1
    <3> QED BY <3>1
  <2>1. Order = Ordinary \o t /\ Len(t) = 2 /\ t[1] = Milestone /\ t[2] = Card
    BY DEF Order
  <2> HIDE DEF t
  <2>2. /\ Len(Order) = Len(Ordinary) + Len(t)
        /\ \A i \in 1..(Len(Ordinary) + Len(t)) :
                Order[i] = IF i <= Len(Ordinary) THEN Ordinary[i] ELSE t[i - Len(Ordinary)]
    BY <2>1, ConcatProperties
  <2>3. n \in Nat /\ Order \in Seq(S)
    BY <2>1
  <2> HIDE DEF n
  <2>4. \A i \in 1..(n + 2) : Order[i] = IF i <= n THEN Ordinary[i] ELSE t[i - n]
    BY <2>1, <2>2 DEF n
  <2>5. ~(n + 1 <= n) /\ ~(n + 2 <= n) /\ n + 1 \in 1..(n + 2) /\ n + 2 \in 1..(n + 2)
        /\ (n + 1) - n = 1 /\ (n + 2) - n = 2
    BY <2>3
  <2>6. Order[n + 1] = t[1] /\ Order[n + 2] = t[2]
    BY <2>4, <2>5
  <2> QED BY <2>1, <2>2, <2>3, <2>6 DEF n
<1> HIDE DEF n
<1>3. DOMAIN Order = 1..Len(Order)
  BY <1>2
<1>4. \A i, j \in 1..Len(Order) : i # j => Order[i] # Order[j]
  BY <1>3, RingAssumption
<1> QED BY <1>2, <1>3, <1>4 DEF EventKinds

LEMMA SampleRuns ==
    ASSUME NEW r, NEW m
    PROVE  LET run == SampleRun(r, m) IN
           /\ SampledRing(r, m) = run[Len(Order)] /\ run[0] = r
           /\ \A n \in 1..Len(Order) : run[n] = SamplePart(run[n - 1], m, Order[n])
<1> DEFINE L == Len(Order)
           run == SampleRun(r, m)
<1>1. SampledRing(r, m) = run[L]
  BY DEF SampledRing, SampleRun, SamplePart
<1>2. L \in Nat
  BY OrderIs
<1>3. run = CHOOSE f : f = [n \in 0..L |-> IF n = 0 THEN r ELSE SamplePart(f[n - 1], m, Order[n])]
  BY DEF SampleRun
<1> HIDE DEF L, run
<1>4. run = [n \in 0..L |-> IF n = 0 THEN r ELSE SamplePart(run[n - 1], m, Order[n])]
  <2> DEFINE T == {k \in Nat : \E f : f = [n \in 0..k |-> IF n = 0 THEN r ELSE SamplePart(f[n - 1], m, Order[n])]}
  <2>1. 0 \in T
    <3> DEFINE f == [n \in 0..0 |-> r]
    <3>1. f = [n \in 0..0 |-> IF n = 0 THEN r ELSE SamplePart(f[n - 1], m, Order[n])]
      OBVIOUS
    <3> QED BY <3>1
  <2>2. ASSUME NEW k \in Nat, k \in T PROVE k + 1 \in T
    <3>1. PICK e : e = [n \in 0..k |-> IF n = 0 THEN r ELSE SamplePart(e[n - 1], m, Order[n])]
      BY <2>2
    <3> DEFINE h == [n \in 0..(k + 1) |-> IF n = k + 1 THEN SamplePart(e[k], m, Order[k + 1]) ELSE e[n]]
    <3>2. ASSUME NEW n \in 0..(k + 1) PROVE h[n] = IF n = 0 THEN r ELSE SamplePart(h[n - 1], m, Order[n])
      BY <3>1
    <3>3. h = [n \in 0..(k + 1) |-> IF n = 0 THEN r ELSE SamplePart(h[n - 1], m, Order[n])]
      BY <3>2
    <3>4. \E f : f = [n \in 0..(k + 1) |-> IF n = 0 THEN r ELSE SamplePart(f[n - 1], m, Order[n])]
      BY <3>3
    <3> HIDE DEF h
    <3>5. k + 1 \in Nat
      OBVIOUS
    <3> QED BY <3>4, <3>5, Zenon
  <2>3. L \in T
    <3> HIDE DEF T
    <3> QED BY <1>2, <2>1, <2>2, Induct
  <2> QED BY <1>3, <2>3
<1>5. run[0] = r
  BY <1>2, <1>4
<1>6. ASSUME NEW n \in 1..L PROVE run[n] = SamplePart(run[n - 1], m, Order[n])
  BY <1>2, <1>4
<1> USE DEF L, run
<1> QED BY <1>1, <1>5, <1>6

\* What is said once the first n parts have been looked at.
ToldUpTo(n, now) ==
    [k \in EventKinds |-> IF Tells(now, k) /\ \E j \in 1..n : Order[j] = k THEN now[k] ELSE previous[k]]

LEMMA ProbeIs ==
    ASSUME NEW m, MachineOK(m)
    PROVE  /\ \A k \in EventKinds : DiagnosticProbe(m)[k] = Probed(k, m[k])
           /\ DOMAIN DiagnosticProbe(m) = EventKinds
           /\ HasDvc(DiagnosticProbe(m)) <=> HasDvc(m)
           /\ \A k \in EventKinds : m[k] \in Part
<1>1. DOMAIN m = EventKinds /\ Card \in EventKinds /\ m[Card] \in CardType
  BY OrderIs DEF MachineOK
<1>2. \A k \in EventKinds : DiagnosticProbe(m)[k] = Probed(k, m[k])
  BY <1>1 DEF DiagnosticProbe, Probed
<1>3. HasDvc(DiagnosticProbe(m)) <=> HasDvc(m)
  <2>1. DiagnosticProbe(m)[Card] = Steady(m[Card])
    BY <1>1, <1>2 DEF Probed
  <2>2. ASSUME NEW v \in CardType PROVE Steady(v) # <<>> <=> v # <<>>
    <3>1. CASE v = <<>>
      BY <3>1 DEF Steady
    <3>2. CASE v # <<>>
      <4>1. Steady(v) = <<v[1], 0>>
        BY <3>2 DEF Steady
      <4> QED BY <3>2, <4>1
    <3> QED BY <3>1, <3>2
  <2> QED BY <1>1, <2>1, <2>2 DEF HasDvc
<1>4. DOMAIN DiagnosticProbe(m) = EventKinds /\ \A k \in EventKinds : m[k] \in Part
  BY <1>1 DEF DiagnosticProbe, MachineOK
<1> QED BY <1>2, <1>3, <1>4

LEMMA PartKeeps ==
    ASSUME NEW m, MachineOK(m), mode # "off", capacity \in Nat \ {0}, card \in Nat,
           NEW r, RingOK(r), NEW n \in 1..Len(Order),
           LastTells(r.events, ToldUpTo(n - 1, DiagnosticProbe(m)), HasDvc(m))
    PROVE  /\ RingOK(SamplePart(r, m, Order[n]))
           /\ LastTells(SamplePart(r, m, Order[n]).events, ToldUpTo(n, DiagnosticProbe(m)), HasDvc(m))
<1> DEFINE k == Order[n]
           now == DiagnosticProbe(m)
           said == ToldUpTo(n - 1, now)
           next == ToldUpTo(n, now)
           live == HasDvc(m)
<1>1. k \in EventKinds /\ \A j \in 1..(n - 1) : Order[j] # k
  BY OrderIs
<1>2. \A x \in EventKinds : next[x] = IF x = k /\ Tells(now, k) THEN now[k] ELSE said[x]
  <2> SUFFICES ASSUME NEW x \in EventKinds
               PROVE  next[x] = IF x = k /\ Tells(now, k) THEN now[k] ELSE said[x]
    OBVIOUS
  <2>1. next[x] = IF Tells(now, x) /\ \E j \in 1..n : Order[j] = x THEN now[x] ELSE previous[x]
    BY DEF ToldUpTo
  <2>2. said[x] = IF Tells(now, x) /\ \E j \in 1..(n - 1) : Order[j] = x THEN now[x] ELSE previous[x]
    BY DEF ToldUpTo
  <2> HIDE DEF now
  <2>3. (\E j \in 1..n : Order[j] = x) <=> x = k \/ \E j \in 1..(n - 1) : Order[j] = x
    BY OrderIs
  <2> HIDE DEF next, said
  <2> QED BY <2>1, <2>2, <2>3
<1>3. said[k] = previous[k]
  BY <1>1 DEF ToldUpTo
<1>4. now[k] = Probed(k, m[k]) /\ m[k] \in Part /\ (HasDvc(now) <=> live)
  BY <1>1, ProbeIs
<1> HIDE DEF k, now, said, next, live
<1>5. CASE Tells(now, k)
  <2> DEFINE e == [kind |-> k, value |-> m[k]]
  <2>1. Due(e, said, live)
    BY <1>3, <1>4, <1>5 DEF Due, Tells
  <2>2. Moves(e, said, next)
    BY <1>2, <1>4, <1>5 DEF Moves
  <2>3. mode = "milestones" => k \notin EventKinds \ {Milestone}
    BY <1>5 DEF Tells
  <2>4. Brings(e, said, next, live)
    BY <2>1, <2>2, <2>3 DEF Brings
  <2>5. RingOK(PushEvent(r, k, m[k])) /\ LastTells(PushEvent(r, k, m[k]).events, next, live)
    <3>1. k \in EventKinds \cup {"HostReset", "DiagnosticRamPatch"}
      BY <1>1
    <3>2. LastTells(r.events, said, live)
      BY DEF said, now, live
    <3> QED BY <1>4, <2>4, <3>1, <3>2, PushKeeps, Zenon
  <2>6. SamplePart(r, m, k) = PushEvent(r, k, m[k])
    BY <1>5 DEF SamplePart, now
  <2> QED BY <2>5, <2>6 DEF k, next, now, live
<1>6. CASE ~Tells(now, k)
  <2>1. SamplePart(r, m, k) = r
    BY <1>6 DEF SamplePart, now
  <2>2. \A x \in EventKinds : next[x] = said[x]
    BY <1>2, <1>6
  <2>3. LastTells(r.events, said, live)
    BY DEF said, now, live
  <2>4. LastTells(r.events, next, live)
    BY <2>2, <2>3 DEF LastTells, Applies
  <2> QED BY <2>1, <2>4 DEF k, next, now, live
<1> QED BY <1>5, <1>6

\* A sample leaves the ring right and all said.
LEMMA SampleKeeps ==
    ASSUME NEW m, MachineOK(m), mode \in {"full", "milestones"}, capacity \in Nat \ {0}, card \in Nat,
           NEW r, RingOK(r), LastTells(r.events, previous, HasDvc(m))
    PROVE  /\ RingOK(SampledRing(r, m))
           /\ LastTells(SampledRing(r, m).events, DiagnosticProbe(m), HasDvc(m))
<1> DEFINE run == SampleRun(r, m)
           now == DiagnosticProbe(m)
           live == HasDvc(m)
           T == {n \in Nat : n <= Len(Order) =>
                    RingOK(run[n]) /\ LastTells(run[n].events, ToldUpTo(n, now), live)}
<1>1. /\ SampledRing(r, m) = run[Len(Order)] /\ run[0] = r
      /\ \A n \in 1..Len(Order) : run[n] = SamplePart(run[n - 1], m, Order[n])
  BY SampleRuns
<1> HIDE DEF run
<1>2. 0 \in T
  <2>1. \A k \in EventKinds : ToldUpTo(0, now)[k] = previous[k]
    BY DEF ToldUpTo
  <2> HIDE DEF now, live
  <2>2. LastTells(r.events, ToldUpTo(0, now), live)
    BY <2>1 DEF LastTells, Applies, live
  <2> QED BY <1>1, <2>2
<1>3. ASSUME NEW n \in Nat, n \in T PROVE n + 1 \in T
  <2> SUFFICES ASSUME n + 1 <= Len(Order)
               PROVE  RingOK(run[n + 1]) /\ LastTells(run[n + 1].events, ToldUpTo(n + 1, now), live)
    OBVIOUS
  <2>1. n + 1 \in 1..Len(Order) /\ (n + 1) - 1 = n /\ RingOK(run[n])
        /\ LastTells(run[n].events, ToldUpTo(n, now), live)
    BY <1>3, OrderIs
  <2>2. run[n + 1] = SamplePart(run[n], m, Order[n + 1])
    BY <1>1, <2>1
  <2>3. PICK h \in 1..Len(Order) : h = n + 1
    BY <2>1
  <2>4. LastTells(run[n].events, ToldUpTo(h - 1, now), live)
    BY <2>1, <2>3
  <2>5. /\ RingOK(SamplePart(run[n], m, Order[h]))
        /\ LastTells(SamplePart(run[n], m, Order[h]).events, ToldUpTo(h, now), live)
    BY <2>1, <2>4, PartKeeps
  <2> QED BY <2>2, <2>3, <2>5
<1>4. RingOK(run[Len(Order)]) /\ LastTells(run[Len(Order)].events, ToldUpTo(Len(Order), now), live)
  <2>1. Len(Order) \in T
    <3> HIDE DEF T
    <3> QED BY <1>2, <1>3, OrderIs, Induct
  <2> QED BY <2>1, OrderIs
<1> DEFINE s == run[Len(Order)].events
<1>5. LastTells(s, now, live)
  <2> SUFFICES ASSUME NEW i \in DOMAIN s, IsLast(s, i), Applies(s[i], live)
               PROVE  Probed(s[i].kind, s[i].value) = now[s[i].kind]
    BY DEF LastTells
  <2> DEFINE k == s[i].kind
  <2>1. k \in EventKinds /\ (k \in {Milestone, Card} => live)
    BY DEF Applies
  <2>2. Probed(k, s[i].value) = ToldUpTo(Len(Order), now)[k]
    BY <1>4 DEF LastTells
  <2>3. mode = "full" \/ k = Milestone
    BY <1>4, <2>1 DEF RingOK, RingBase, Chosen
  <2>4. HasDvc(now) <=> live
    BY ProbeIs
  <2> HIDE DEF now, live, s
  <2>5. Tells(now, k) \/ now[k] = previous[k]
    BY <2>1, <2>3, <2>4 DEF Tells
  <2>6. ToldUpTo(Len(Order), now)[k] = IF Tells(now, k) THEN now[k] ELSE previous[k]
    BY <2>1, OrderIs DEF ToldUpTo
  <2> QED BY <2>2, <2>5, <2>6
<1> QED BY <1>1, <1>4, <1>5

\* While nothing is captured nothing is pushed.
LEMMA SampleOff ==
    ASSUME NEW m, mode = "off", NEW r
    PROVE  SampledRing(r, m) = r
<1> DEFINE run == SampleRun(r, m)
           T == {n \in Nat : n <= Len(Order) => run[n] = r}
<1>1. /\ SampledRing(r, m) = run[Len(Order)] /\ run[0] = r
      /\ \A n \in 1..Len(Order) : run[n] = SamplePart(run[n - 1], m, Order[n])
  BY SampleRuns
<1> HIDE DEF run
<1>2. 0 \in T
  BY <1>1
<1>3. ASSUME NEW n \in Nat, n \in T PROVE n + 1 \in T
  <2> SUFFICES ASSUME n + 1 <= Len(Order) PROVE run[n + 1] = r
    OBVIOUS
  <2>1. n + 1 \in 1..Len(Order) /\ (n + 1) - 1 = n /\ run[n] = r
    BY <1>3, OrderIs
  <2>2. run[n + 1] = SamplePart(r, m, Order[n + 1])
    BY <1>1, <2>1
  <2> QED BY <2>2 DEF SamplePart, PushEvent
<1>4. Len(Order) \in T
  <2> HIDE DEF T
  <2> QED BY <1>2, <1>3, OrderIs, Induct
<1> QED BY <1>1, <1>4, OrderIs

-----------------------------------------------------------------------------
(* What holds of the capture in all states.                                *)

ModeOK ==
    /\ mode \in {"off", "full", "milestones"} /\ capacity \in Nat /\ card \in Nat
    /\ mode = "off" => events = <<>>
    /\ mode # "off" => capacity # 0

\* The ring is right, and tells all the probe knows.
RingIInv ==
    /\ ModeOK /\ MachineOK(machine) /\ DOMAIN previous = EventKinds
    /\ RingOK(Ring) /\ LastTells(events, previous, HasDvc(machine))

LEMMA RingIInvImplies == ASSUME RingIInv PROVE RingInv
<1>1. /\ Ring.events = events /\ Ring.pushes = pushes /\ Ring.lost = lost
  BY DEF Ring
<1>2. /\ ModeOK /\ DOMAIN previous = EventKinds /\ Len(events) <= capacity
      /\ Numbered(Ring) /\ Quiet(events) /\ Chosen(events) /\ Survive(Ring)
  BY <1>1 DEF RingIInv, RingOK, RingBase
<1>3. RingTypeOK
  BY <1>1, <1>2 DEF RingTypeOK, ModeOK, Numbered
<1>4. OldestGoFirst
  BY <1>1, <1>2 DEF OldestGoFirst, Numbered, Sort
<1>5. MilestonesSurvive
  BY <1>1, <1>2 DEF MilestonesSurvive, Survive
<1>6. NoNoise
  <2> SUFFICES ASSUME NEW i \in DOMAIN events, NEW j \in DOMAIN events, InARow(events, i, j)
               PROVE  events[i].card # events[j].card
                        \/ (IF events[i].kind = Card THEN Steady(events[i].value) # Steady(events[j].value)
                                                     ELSE events[i].value # events[j].value)
    BY DEF NoNoise, InARow
  <2>1. Differ(events[i], events[j]) /\ events[i].kind = events[j].kind
    BY <1>2 DEF Quiet, InARow
  <2> QED BY <2>1 DEF Differ, Probed
<1>7. OnlyMilestones
  BY <1>2 DEF OnlyMilestones, Chosen
<1> QED BY <1>3, <1>4, <1>5, <1>6, <1>7 DEF RingInv

\* An empty ring.
LEMMA EmptyIsRight ==
    ASSUME NEW r, r.events = <<>>, r = [events |-> <<>>, pushes |-> 0, lost |-> Empty], capacity \in Nat, card \in Nat
    PROVE  RingOK(r) /\ \A said, live : LastTells(<<>>, said, live)
<1>1. r \in RingType
  BY DEF RingType, Empty
<1>2. Numbered(r) /\ Quiet(r.events) /\ Chosen(r.events)
  BY DEF Numbered, Quiet, Chosen, Empty
<1>3. Survive(r) /\ Len(r.events) <= capacity
  BY DEF Survive, Empty
<1>4. \A said, live : LastTells(<<>>, said, live)
  BY DEF LastTells
<1> QED BY <1>1, <1>2, <1>3, <1>4 DEF RingOK, RingBase

LEMMA RingInitOK == ASSUME RingInit PROVE RingIInv
<1>1. ModeOK
  BY DEF RingInit, ModeOK
<1>2. MachineOK(machine)
  <2>1. machine = [k \in EventKinds |-> IF k = Card THEN <<>> ELSE 1] /\ Card \in EventKinds
    BY OrderIs DEF RingInit
  <2>2. <<>> \in CardType /\ CardType \subseteq Part /\ 1 \in Part
    BY DEF CardType, Part
  <2> QED BY <2>1, <2>2 DEF MachineOK
<1>3. DOMAIN previous = EventKinds
  BY <1>2, ProbeIs DEF RingInit
<1>4. RingOK(Ring) /\ LastTells(events, previous, HasDvc(machine))
  BY EmptyIsRight DEF Ring, RingInit
<1> QED BY <1>1, <1>2, <1>3, <1>4 DEF RingIInv

LEMMA SteppedIs ==
    ASSUME MachineOK(machine), NEW changed \in SUBSET EventKinds, NEW ticks \in {0, 1}
    PROVE  MachineOK(Stepped(changed, ticks)) /\ (HasDvc(Stepped(changed, ticks)) <=> HasDvc(machine))
<1> DEFINE m == Stepped(changed, ticks)
<1>1. Card \in EventKinds /\ machine[Card] \in CardType /\ Card # Milestone
  BY OrderIs DEF MachineOK, Card, Milestone
<1>2. m[Card] = IF ~HasDvc(machine) THEN <<>>
                ELSE <<IF Card \in changed THEN 3 - machine[Card][1] ELSE machine[Card][1], ticks>>
  BY <1>1 DEF Stepped
<1>3. ASSUME HasDvc(machine) PROVE machine[Card] \in {1, 2} \X {0, 1}
  BY <1>1, <1>3 DEF HasDvc, CardType
<1>4. m[Card] \in CardType /\ (m[Card] # <<>> <=> HasDvc(machine))
  <2>1. CASE ~HasDvc(machine)
    BY <1>2, <2>1 DEF CardType
  <2>2. CASE HasDvc(machine)
    <3>1. PICK x \in {1, 2} : m[Card] = <<x, ticks>>
      BY <1>2, <1>3, <2>2
    <3> QED BY <2>2, <3>1 DEF CardType
  <2> QED BY <2>1, <2>2
<1>5. \A k \in EventKinds \ {Card} : m[k] \in {1, 2}
  <2> SUFFICES ASSUME NEW k \in EventKinds \ {Card} PROVE m[k] \in {1, 2}
    OBVIOUS
  <2>1. machine[k] \in {1, 2}
    BY DEF MachineOK
  <2>2. m[k] \in {3 - machine[k], machine[k]}
    BY DEF Stepped
  <2> HIDE DEF m
  <2> QED BY <2>1, <2>2
<1>6. DOMAIN m = EventKinds /\ m = [k \in EventKinds |-> m[k]]
  BY DEF Stepped
<1> HIDE DEF m
<1>7. {1, 2} \subseteq Part /\ CardType \subseteq Part
  BY DEF Part
<1>8. m \in [EventKinds -> Part]
  BY <1>1, <1>4, <1>5, <1>6, <1>7
<1>9. MachineOK(m)
  BY <1>4, <1>5, <1>8 DEF MachineOK
<1> QED BY <1>4, <1>9 DEF m, HasDvc

\* A push of what the host or the SLAVE did says nothing of a part.
LEMMA NoticeKeeps ==
    ASSUME NEW r, RingOK(r), ModeOK, mode # "off", NEW kind \in {"HostReset", "DiagnosticRamPatch"},
           NEW live, LastTells(r.events, previous, live)
    PROVE  RingOK(PushEvent(r, kind, 0)) /\ LastTells(PushEvent(r, kind, 0).events, previous, live)
<1>1. kind \notin EventKinds
  BY RingAssumption
<1> DEFINE e == [kind |-> kind, value |-> 0]
<1>2. Brings(e, previous, previous, live)
  BY <1>1 DEF Brings, Moves
<1>3. 0 \in Part /\ capacity \in Nat \ {0} /\ card \in Nat
  BY DEF Part, ModeOK
<1> QED BY <1>2, <1>3, PushKeeps

\* A sample of what the machine is behind the instruction.
LEMMA SampledOK ==
    ASSUME RingIInv, NEW r, NEW kind \in {"HostReset", "DiagnosticRamPatch"}, r \in {Ring, PushEvent(Ring, kind, 0)},
           MachineOK(machine'), HasDvc(machine') <=> HasDvc(machine), UNCHANGED <<card, mode, capacity>>,
           SampleDiagnostics(r, machine')
    PROVE  RingIInv'
<1> DEFINE m == machine'
           s == SampledRing(r, m)
<1>1. /\ ModeOK /\ MachineOK(machine) /\ DOMAIN previous = EventKinds
      /\ RingOK(Ring) /\ LastTells(Ring.events, previous, HasDvc(machine)) /\ Ring.events = events
  BY DEF RingIInv, Ring
<1>2. /\ previous' = IF mode = "off" THEN previous ELSE DiagnosticProbe(m)
      /\ events' = s.events /\ pushes' = s.pushes /\ lost' = s.lost
  BY DEF SampleDiagnostics
<1>3. DOMAIN previous' = EventKinds
  BY <1>1, <1>2, ProbeIs
<1>4. Ring' = [events |-> s.events, pushes |-> s.pushes, lost |-> s.lost]
  BY <1>2 DEF Ring
<1>5. RingOK(s) /\ LastTells(s.events, previous', HasDvc(m)) /\ (mode = "off" => s.events = <<>>)
  <2>1. CASE mode = "off"
    <3>1. r = Ring
      BY <2>1 DEF PushEvent
    <3>2. s = Ring
      BY <2>1, <3>1, SampleOff
    <3>3. events = <<>>
      BY <1>1, <2>1 DEF ModeOK
    <3>4. LastTells(<<>>, previous', HasDvc(m))
      BY DEF LastTells
    <3> QED BY <1>1, <3>2, <3>3, <3>4
  <2>2. CASE mode # "off"
    <3>1. RingOK(r) /\ LastTells(r.events, previous, HasDvc(machine))
      BY <1>1, <2>2, NoticeKeeps
    <3>2. LastTells(r.events, previous, HasDvc(m))
      BY <3>1 DEF LastTells, Applies
    <3>3. mode \in {"full", "milestones"} /\ capacity \in Nat \ {0} /\ card \in Nat
      BY <1>1, <2>2 DEF ModeOK
    <3>4. RingOK(s) /\ LastTells(s.events, DiagnosticProbe(m), HasDvc(m))
      BY <3>1, <3>2, <3>3, SampleKeeps
    <3> QED BY <1>2, <2>2, <3>4
  <2> QED BY <2>1, <2>2
<1> HIDE DEF s
<1>6. s \in RingType
  BY <1>5 DEF RingOK, RingBase
<1>7. Ring' = s
  BY <1>4, <1>6 DEF RingType
<1>8. RingOK(Ring)'
  <2>1. card' = card /\ mode' = mode /\ capacity' = capacity
    OBVIOUS
  <2> QED BY <1>5, <1>7, <2>1 DEF RingOK, RingBase, Numbered, Chosen, Survive
<1>9. LastTells(events, previous, HasDvc(machine))'
  <2>1. card' = card
    OBVIOUS
  <2> QED BY <1>2, <1>5, <2>1 DEF LastTells, Applies
<1>10. ModeOK'
  BY <1>1, <1>2, <1>5 DEF ModeOK
<1> QED BY <1>3, <1>8, <1>9, <1>10 DEF RingIInv

LEMMA RingStep == ASSUME RingIInv, RingNext PROVE RingIInv'
<1>1. ASSUME NEW changed \in SUBSET EventKinds, NEW ticks \in {0, 1}, NEW hostReset \in BOOLEAN,
             Step(changed, ticks, hostReset)
      PROVE  RingIInv'
  <2>1. machine' = Stepped(changed, ticks) /\ UNCHANGED <<card, mode, capacity>>
        /\ SampleDiagnostics(IF hostReset THEN PushEvent(Ring, "HostReset", 0) ELSE Ring, machine')
    BY <1>1 DEF Step
  <2>2. MachineOK(machine') /\ (HasDvc(machine') <=> HasDvc(machine))
    BY <2>1, SteppedIs DEF RingIInv
  <2>3. CASE hostReset
    BY <2>1, <2>2, <2>3, SampledOK
  <2>4. CASE ~hostReset
    BY <2>1, <2>2, <2>4, SampledOK
  <2> QED BY <2>3, <2>4
<1>2. ASSUME ApplyDiagnosticRamPatch PROVE RingIInv'
  <2>1. UNCHANGED <<machine, card, mode, capacity>>
        /\ SampleDiagnostics(PushEvent(Ring, "DiagnosticRamPatch", 0), machine')
    BY <1>2 DEF ApplyDiagnosticRamPatch
  <2>2. MachineOK(machine') /\ (HasDvc(machine') <=> HasDvc(machine))
    BY <2>1 DEF RingIInv
  <2> QED BY <2>1, <2>2, SampledOK
\* The ring is emptied.
<1>3. ASSUME NEW new \in {"full", "milestones"}, NEW c \in Capacities, Capture(new, c) PROVE RingIInv'
  <2>1. /\ mode' = (IF c = 0 THEN "off" ELSE new) /\ capacity' = c /\ c \in Nat /\ card' = card
        /\ events' = <<>> /\ lost' = Empty /\ pushes' = 0 /\ machine' = machine
        /\ previous' = DiagnosticProbe(machine)
    BY <1>3, RingAssumption DEF Capture
  <2>2. ModeOK' /\ MachineOK(machine')
    BY <2>1 DEF RingIInv, ModeOK
  <2>3. DOMAIN previous' = EventKinds
    BY <2>1, ProbeIs DEF RingIInv
  <2>4. Ring' = [events |-> <<>>, pushes |-> 0, lost |-> Empty] /\ capacity' \in Nat /\ card' \in Nat
    BY <2>1, <2>2 DEF Ring, ModeOK
  <2>5. RingOK(Ring)' /\ LastTells(events, previous, HasDvc(machine))'
    <3>1. Ring' \in RingType
      BY <2>4 DEF RingType, Empty
    <3>2. RingOK(Ring)'
      BY <2>4, <3>1 DEF RingOK, RingBase, Numbered, Quiet, Chosen, Survive, Empty
    <3> QED BY <2>1, <3>2 DEF LastTells
  <2> QED BY <2>2, <2>3, <2>5 DEF RingIInv
<1>4. ASSUME TakeDiagnosticEvents PROVE RingIInv'
  <2>1. /\ UNCHANGED <<machine, card, mode, capacity, previous>>
        /\ events' = <<>> /\ lost' = Empty /\ pushes' = 0
    BY <1>4 DEF TakeDiagnosticEvents
  <2>2. ModeOK' /\ MachineOK(machine') /\ DOMAIN previous' = EventKinds
    BY <2>1 DEF RingIInv, ModeOK
  <2>3. Ring' = [events |-> <<>>, pushes |-> 0, lost |-> Empty] /\ capacity' \in Nat /\ card' \in Nat
    BY <2>1, <2>2 DEF Ring, ModeOK
  <2>4. RingOK(Ring)' /\ LastTells(events, previous, HasDvc(machine))'
    <3>1. Ring' \in RingType
      BY <2>3 DEF RingType, Empty
    <3>2. RingOK(Ring)'
      BY <2>3, <3>1 DEF RingOK, RingBase, Numbered, Quiet, Chosen, Survive, Empty
    <3> QED BY <2>1, <3>2 DEF LastTells
  <2> QED BY <2>2, <2>4 DEF RingIInv
\* What is said of a cartridge is not of the next one.
<1>5. ASSUME AttachDvc \/ DetachDvc PROVE RingIInv'
  <2> DEFINE m == machine'
  <2>1. /\ UNCHANGED <<mode, capacity, events, previous, pushes, lost>> /\ Ring' = Ring
        /\ \E v \in CardType : m = [machine EXCEPT ![Card] = v, ![Milestone] = 1]
        /\ \/ card' = card + 1
           \/ card' = card /\ ~HasDvc(m)
    <3>1. CASE AttachDvc
      <4>1. <<1, 0>> \in CardType
        BY DEF CardType
      <4> QED BY <3>1, <4>1 DEF AttachDvc, Ring
    <3>2. CASE DetachDvc
      <4>1. <<>> \in CardType
        BY DEF CardType
      <4>2. m[Card] = <<>>
        <5>1. Card \in DOMAIN machine /\ Card # Milestone
          BY OrderIs DEF RingIInv, MachineOK, Card, Milestone
        <5> QED BY <3>2, <5>1 DEF DetachDvc
      <4> QED BY <3>2, <4>1, <4>2 DEF DetachDvc, Ring, HasDvc
    <3> QED BY <1>5, <3>1, <3>2
  <2>2. card \in Nat /\ MachineOK(machine) /\ RingOK(Ring) /\ LastTells(events, previous, HasDvc(machine))
        /\ ModeOK /\ DOMAIN previous = EventKinds
    BY DEF RingIInv, ModeOK
  <2>3. ModeOK' /\ DOMAIN previous' = EventKinds /\ card <= card' /\ card' \in Nat
    BY <2>1, <2>2 DEF ModeOK
  <2>4. MachineOK(m)
    <3>1. PICK v \in CardType : m = [machine EXCEPT ![Card] = v, ![Milestone] = 1]
      BY <2>1
    <3>2. Card # Milestone /\ CardType \subseteq Part /\ 1 \in Part
      BY DEF Card, Milestone, Part
    <3>3. m \in [EventKinds -> Part] /\ m[Card] = v
      BY <2>2, <3>1, <3>2, OrderIs DEF MachineOK
    <3>4. \A k \in EventKinds \ {Card} : m[k] \in {1, 2}
      BY <2>2, <3>1, <3>2 DEF MachineOK
    <3> HIDE DEF m
    <3> QED BY <3>3, <3>4 DEF MachineOK
  <2>5. RingOK(Ring)'
    <3>1. RingBase(Ring) /\ Len(Ring.events) <= capacity /\ Survive(Ring)
      BY <2>2 DEF RingOK
    <3>2. Numbered(Ring)'
      <4>1. \A i \in DOMAIN Ring.events : Ring.events[i].card <= card /\ Ring.events[i].card \in Nat
        <5>1. Ring.events \in Seq(EventType) /\ \A i \in DOMAIN Ring.events : Ring.events[i].card <= card
          BY <3>1 DEF RingBase, Numbered, RingType
        <5>2. \A i \in DOMAIN Ring.events : Ring.events[i] \in EventType
          BY <5>1
        <5>3. \A e \in EventType : e.card \in Nat
          BY DEF EventType
        <5> QED BY <5>1, <5>2, <5>3
      <4>2. \A i \in DOMAIN Ring.events : Ring.events[i].card <= card'
        BY <2>2, <2>3, <4>1
      <4> QED BY <2>1, <3>1, <4>2 DEF RingBase, Numbered
    <3> QED BY <2>1, <3>1, <3>2 DEF RingOK, RingBase, Chosen, Survive
  <2>6. LastTells(events, previous, HasDvc(machine))'
    <3> SUFFICES ASSUME NEW i \in DOMAIN events, IsLast(events, i), Applies(events[i], HasDvc(machine))'
                 PROVE  Probed(events[i].kind, events[i].value) = previous[events[i].kind]
      BY <2>1 DEF LastTells
    <3>1. events[i].kind \in EventKinds /\ events[i].card <= card /\ events[i].card \in Nat
      <4>1. Ring.events \in Seq(EventType) /\ \A j \in DOMAIN Ring.events : Ring.events[j].card <= card
        BY <2>2 DEF RingOK, RingBase, Numbered, RingType
      <4>2. Ring.events = events
        BY DEF Ring
      <4>3. events[i] \in EventType /\ events[i].card <= card
        BY <4>1, <4>2
      <4>4. \A e \in EventType : e.card \in Nat
        BY DEF EventType
      <4>5. events[i].kind \in EventKinds
        BY <2>1 DEF Applies
      <4> QED BY <4>3, <4>4, <4>5
    <3>2. events[i].kind \notin {Milestone, Card}
      <4> SUFFICES ASSUME events[i].kind \in {Milestone, Card} PROVE FALSE
        OBVIOUS
      <4>1. HasDvc(m) /\ events[i].card = card'
        BY <2>1 DEF Applies
      <4> HIDE DEF m
      <4> QED BY <2>1, <2>2, <3>1, <4>1
    <3>3. Applies(events[i], HasDvc(machine))
      BY <3>1, <3>2 DEF Applies
    <3> QED BY <2>2, <3>3 DEF LastTells
  <2> QED BY <2>3, <2>4, <2>5, <2>6 DEF RingIInv
<1>6. CASE \E changed \in SUBSET EventKinds, ticks \in {0, 1}, hostReset \in BOOLEAN : Step(changed, ticks, hostReset)
  BY <1>1, <1>6
<1>7. CASE \E c \in Capacities : EnableDiagnostics(c) \/ EnableDvcMilestoneDiagnostics(c)
  BY <1>3, <1>7 DEF EnableDiagnostics, EnableDvcMilestoneDiagnostics
<1> QED BY <1>2, <1>4, <1>5, <1>6, <1>7 DEF RingNext

LEMMA RingStutter == ASSUME RingIInv, UNCHANGED ringVars PROVE RingIInv'
<1>1. /\ machine' = machine /\ card' = card /\ mode' = mode /\ capacity' = capacity
      /\ events' = events /\ previous' = previous /\ pushes' = pushes /\ lost' = lost /\ Ring' = Ring
  BY DEF ringVars, Ring
<1>2. RingOK(Ring)'
  BY <1>1 DEF RingIInv, RingOK, RingBase, Numbered, Chosen, Survive
<1>3. LastTells(events, previous, HasDvc(machine))'
  BY <1>1 DEF RingIInv, LastTells, Applies
<1> QED BY <1>1, <1>2, <1>3 DEF RingIInv, ModeOK

\* The ring gives up its oldest ordinary event first, keeps its order, and has no
\* two events in a row that tell the same of a part.
THEOREM RingCorrect == RingSpec => []RingInv
<1>1. RingInit => RingIInv
  BY RingInitOK
<1>2. RingIInv /\ [RingNext]_ringVars => RingIInv'
  BY RingStep, RingStutter
<1>3. RingIInv => RingInv
  BY RingIInvImplies
<1> QED BY <1>1, <1>2, <1>3, PTL DEF RingSpec

-----------------------------------------------------------------------------
(* Sums.                                                                   *)

\* A list that is another with one behind it.
Longer(g, f, x) ==
    \E n \in Nat : /\ n = Len(f) /\ g = [i \in 1..(n + 1) |-> g[i]]
                   /\ g[n + 1] = x /\ \A i \in 1..n : g[i] = f[i]

LEMMA AppendedIs ==
    ASSUME NEW f \in Seq(Nat), NEW x \in Nat, NEW g, Longer(g, f, x)
    PROVE  g = Append(f, x)
<1>1. PICK n \in Nat : /\ n = Len(f) /\ g = [i \in 1..(n + 1) |-> g[i]]
                       /\ g[n + 1] = x /\ \A i \in 1..n : g[i] = f[i]
  BY DEF Longer
<1>2. \A i \in 1..(n + 1) : g[i] \in Nat
  <2>1. \A i \in 1..n : f[i] \in Nat
    BY <1>1
  <2>2. \A i \in 1..(n + 1) : i \in 1..n \/ i = n + 1
    OBVIOUS
  <2> QED BY <1>1, <2>1, <2>2
<1>3. g \in [1..(n + 1) -> Nat]
  BY <1>1, <1>2
<1>4. g \in Seq(Nat) /\ Len(g) = n + 1
  BY <1>3
<1>5. /\ Append(f, x) \in Seq(Nat) /\ Len(Append(f, x)) = n + 1
      /\ \A i \in 1..n : Append(f, x)[i] = f[i]
      /\ Append(f, x)[n + 1] = x
  BY <1>1, AppendProperties
<1>6. \A i \in 1..(n + 1) : g[i] = Append(f, x)[i]
  BY <1>1, <1>5
<1> QED BY <1>4, <1>5, <1>6, SeqEqual

\* The last grows by one.
LEMMA TotalGrows ==
    ASSUME NEW sizes \in Seq(Nat), NEW L \in Nat \ {0}, L = Len(sizes)
    PROVE  Total([sizes EXCEPT ![L] = @ + 1]) = Total(sizes) + 1
<1> DEFINE front == [n \in 1..(L - 1) |-> sizes[n]]
           x == sizes[L]
<1>1. front \in Seq(Nat) /\ Len(front) = L - 1 /\ x \in Nat
  OBVIOUS
<1>2. sizes = Append(front, x)
  OBVIOUS
<1>3. [sizes EXCEPT ![L] = @ + 1] = Append(front, x + 1)
  OBVIOUS
<1> HIDE DEF front, x
<1>4. PICK y \in Nat : y = x + 1
  BY <1>1
<1>5. Total(Append(front, x)) = Total(front) + x /\ Total(front) \in Nat
  BY <1>1, TotalAppend
<1>6. Total(Append(front, y)) = Total(front) + y
  BY <1>1, TotalAppend
<1>7. Total([sizes EXCEPT ![L] = @ + 1]) = Total(front) + y
  BY <1>3, <1>4, <1>6
<1>8. Total(sizes) = Total(front) + x
  BY <1>2, <1>5
<1> QED BY <1>1, <1>4, <1>5, <1>7, <1>8

-----------------------------------------------------------------------------
(* The capture.                                                            *)

RegionType == [at : Nat, n : Nat]
WriteType == [at : Nat, n : Nat, region : RegionType]
TransferType == [channel : {0, 1}, at : Nat, n : Nat, completed : BOOLEAN]
TargetType == Decoders \cup {NoFlight.target}
FlightType == [at : Nat, n : Nat, target : TargetType]

Disjoint(s) == \A i, j \in DOMAIN s : i # j => ~Overlap(s[i], s[j])
RegionsOK(s) == s \in Seq(RegionType) /\ Len(s) <= MaxRegions /\ Disjoint(s)

\* What is retained lies apart from the region.
LEMMA ApartIs ==
    ASSUME RegionsOK(regions), NEW region
    PROVE  RegionsOK(Apart(region)) /\ \A i \in DOMAIN Apart(region) : ~Overlap(Apart(region)[i], region)
<1> DEFINE rows == {i \in DOMAIN regions : ~Overlap(regions[i], region)}
           t == Apart(region)
<1>1. regions \in Seq(RegionType) /\ Len(regions) <= MaxRegions /\ Disjoint(regions) /\ Len(regions) \in Nat
  BY DEF RegionsOK
<1>2. t = Retained(regions, rows) /\ rows \subseteq DOMAIN regions
  BY DEF Apart
<1>3. /\ Retained(regions, rows) \in Seq(RegionType) /\ Len(Retained(regions, rows)) <= Len(regions)
      /\ \E from \in [DOMAIN Retained(regions, rows) -> rows] :
            /\ \A i \in DOMAIN Retained(regions, rows) : Retained(regions, rows)[i] = regions[from[i]]
            /\ \A i, j \in DOMAIN Retained(regions, rows) : i < j => from[i] < from[j]
  <2> HIDE DEF rows
  <2> QED BY <1>1, <1>2, RetainedIs
<1> HIDE DEF t
<1>4. PICK from \in [DOMAIN t -> rows] :
        /\ \A i \in DOMAIN t : t[i] = regions[from[i]]
        /\ \A i, j \in DOMAIN t : i < j => from[i] < from[j]
  BY <1>2, <1>3
<1>5. t \in Seq(RegionType) /\ Len(t) <= MaxRegions
  <2>1. MaxRegions \in Nat
    BY ProvenanceAssumption
  <2>2. Len(t) \in Nat
    BY <1>2, <1>3
  <2> QED BY <1>1, <1>2, <1>3, <2>1, <2>2
<1>6. Disjoint(t)
  <2> SUFFICES ASSUME NEW i \in DOMAIN t, NEW j \in DOMAIN t, i # j PROVE ~Overlap(t[i], t[j])
    BY DEF Disjoint
  <2>1. from[i] \in DOMAIN regions /\ from[j] \in DOMAIN regions
    BY <1>2
  <2>2. i \in Nat /\ j \in Nat
    BY <1>5
  <2>3. from[i] \in Nat /\ from[j] \in Nat
    BY <1>1, <2>1
  <2>4. i < j \/ j < i
    BY <2>2
  <2>5. from[i] # from[j]
    BY <1>4, <2>3, <2>4
  <2>6. ~Overlap(regions[from[i]], regions[from[j]])
    BY <1>1, <2>1, <2>5 DEF Disjoint
  <2> QED BY <1>4, <2>6
<1>7. \A i \in DOMAIN t : ~Overlap(t[i], region)
  BY <1>4
<1> QED BY <1>5, <1>6, <1>7 DEF t, RegionsOK

LEMMA WatchKeeps ==
    ASSUME RegionsOK(regions), NEW region \in RegionType
    PROVE  RegionsOK(Watch(region))
<1> DEFINE kept == Apart(region)
           room == IF Len(kept) = MaxRegions THEN Tail(kept) ELSE kept
<1>1. RegionsOK(kept) /\ \A i \in DOMAIN kept : ~Overlap(kept[i], region)
  BY ApartIs
<1>2. MaxRegions \in Nat \ {0}
  BY ProvenanceAssumption
<1>3. kept \in Seq(RegionType) /\ Len(kept) \in Nat /\ Len(kept) <= MaxRegions /\ Disjoint(kept)
  BY <1>1 DEF RegionsOK
<1> HIDE DEF kept
<1>4. /\ room \in Seq(RegionType) /\ Len(room) + 1 <= MaxRegions /\ Len(room) \in Nat
      /\ \E d \in {0, 1} : \A i \in DOMAIN room : i + d \in DOMAIN kept /\ room[i] = kept[i + d]
  <2>1. CASE Len(kept) = MaxRegions
    <3>1. kept # <<>>
      BY <1>2, <1>3, <2>1
    <3>2. Tail(kept) \in Seq(RegionType) /\ Len(Tail(kept)) = Len(kept) - 1
          /\ \A i \in 1..(Len(kept) - 1) : Tail(kept)[i] = kept[i + 1]
      BY <1>3, <3>1
    <3>3. \A i \in DOMAIN Tail(kept) : i + 1 \in DOMAIN kept /\ Tail(kept)[i] = kept[i + 1]
      BY <1>3, <3>2
    <3> QED BY <1>2, <1>3, <2>1, <3>2, <3>3
  <2>2. CASE Len(kept) # MaxRegions
    <3>1. \A i \in DOMAIN kept : i + 0 \in DOMAIN kept /\ kept[i] = kept[i + 0]
      BY <1>3
    <3> QED BY <1>2, <1>3, <2>2, <3>1
  <2> QED BY <2>1, <2>2
<1>5. Watch(region) = Append(room, region)
  BY DEF Watch, kept
<1> HIDE DEF room
<1>6. PICK d \in {0, 1} : \A i \in DOMAIN room : i + d \in DOMAIN kept /\ room[i] = kept[i + d]
  BY <1>4
<1> DEFINE w == Append(room, region)
<1>7. /\ w \in Seq(RegionType) /\ Len(w) = Len(room) + 1 /\ DOMAIN w = 1..(Len(room) + 1)
      /\ w[Len(room) + 1] = region /\ DOMAIN room = 1..Len(room) /\ \A i \in 1..Len(room) : w[i] = room[i]
  BY <1>4
<1> HIDE DEF w
<1>8. \A i \in DOMAIN room : ~Overlap(w[i], region) /\ ~Overlap(region, w[i])
  BY <1>1, <1>6, <1>7 DEF Overlap
<1>9. \A i, j \in DOMAIN room : i # j => ~Overlap(w[i], w[j])
  <2> SUFFICES ASSUME NEW i \in DOMAIN room, NEW j \in DOMAIN room, i # j PROVE ~Overlap(w[i], w[j])
    OBVIOUS
  <2>1. i + d # j + d /\ i + d \in DOMAIN kept /\ j + d \in DOMAIN kept
    BY <1>6, <1>7
  <2>2. ~Overlap(kept[i + d], kept[j + d])
    BY <1>3, <2>1 DEF Disjoint
  <2> QED BY <1>6, <1>7, <2>2
<1>10. Disjoint(w)
  <2> SUFFICES ASSUME NEW i \in DOMAIN w, NEW j \in DOMAIN w, i # j PROVE ~Overlap(w[i], w[j])
    BY DEF Disjoint
  <2>1. i \in DOMAIN room \/ i = Len(room) + 1
    BY <1>4, <1>7
  <2>2. j \in DOMAIN room \/ j = Len(room) + 1
    BY <1>4, <1>7
  <2> QED BY <1>7, <1>8, <1>9, <2>1, <2>2
<1> QED BY <1>4, <1>5, <1>7, <1>10 DEF RegionsOK, w

\* The last that covers an address.
LEMMA SourceIs ==
    ASSUME regions \in Seq(RegionType), NEW addr
    PROVE  \/ SourceOf(addr) = 0
           \/ SourceOf(addr) \in DOMAIN regions
              /\ addr \in Span(regions[SourceOf(addr)].at, regions[SourceOf(addr)].n)
<1> DEFINE covers == {i \in DOMAIN regions : addr \in Span(regions[i].at, regions[i].n)}
           n == Len(regions)
<1>1. n \in Nat /\ DOMAIN regions = 1..n
  OBVIOUS
<1>2. CASE covers = {}
  BY <1>2 DEF SourceOf
<1>3. CASE covers # {}
  <2>1. \A i \in covers : i \in 1..n
    BY <1>1
  <2> HIDE DEF covers, n
  <2> DEFINE behind == {n - i : i \in covers}
  <2>2. behind \subseteq Nat /\ behind # {}
    BY <1>1, <1>3, <2>1
  <2>3. \E m \in behind : \A k \in behind : m <= k
    BY <2>2, LeastOf
  <2>4. PICK i \in covers : \A k \in behind : n - i <= k
    BY <2>3
  <2>5. \A j \in covers : j <= i
    <3> SUFFICES ASSUME NEW j \in covers PROVE j <= i
      OBVIOUS
    <3>1. n - i <= n - j
      BY <2>4
    <3> QED BY <1>1, <2>1, <3>1
  <2>6. SourceOf(addr) = CHOOSE k \in covers : \A j \in covers : j <= k
    BY <1>3 DEF SourceOf, covers
  <2>7. SourceOf(addr) \in covers
    BY <2>5, <2>6
  <2> QED BY <2>7 DEF covers
<1> QED BY <1>2, <1>3

ToldFields == {"states", "pcb", "risks", "dma", "bytes", "words"}
OneSector(s) == \A i, j \in DOMAIN s : s[i].channel = 0 /\ s[j].channel = 0 => i = j
WithinSource(s) ==
    \A i \in DOMAIN s : Span(s[i].at, s[i].n) \subseteq Span(s[i].region.at, s[i].region.n)
Written(s) == [i \in DOMAIN s |-> s[i].n]
Fed(s) == [i \in DOMAIN s |-> IF s[i].channel = 1 THEN s[i].n ELSE 0]

WritesOK(s) == s \in Seq(WriteType) /\ WithinSource(s)
TransfersOK(s) == s \in Seq(TransferType) /\ OneSector(s)

CaptureOK ==
    /\ RegionsOK(regions) /\ WritesOK(writes) /\ TransfersOK(transfers)
    /\ inFlight \in FlightType /\ dma1 \in [at : Nat, left : Nat] /\ target \in TargetType
    /\ accesses \in 0..MaxAccesses
    /\ DOMAIN told = ToldFields /\ told.bytes \in Nat /\ told.words \in Nat
    /\ Total(Written(writes)) = told.bytes /\ Total(Fed(transfers)) + inFlight.n = told.words

LEMMA WrittenMore ==
    ASSUME NEW s, WritesOK(s), NEW e \in WriteType, Span(e.at, e.n) \subseteq Span(e.region.at, e.region.n)
    PROVE  WritesOK(Append(s, e)) /\ Total(Written(Append(s, e))) = Total(Written(s)) + e.n
<1> DEFINE t == Append(s, e)
           n == Len(s)
<1>1. s \in Seq(WriteType) /\ WithinSource(s) /\ e.n \in Nat
  BY DEF WritesOK, WriteType
<1>2. /\ t \in Seq(WriteType) /\ n \in Nat /\ DOMAIN s = 1..n /\ DOMAIN t = 1..(n + 1) /\ t[n + 1] = e
      /\ \A i \in 1..n : t[i] = s[i]
  BY <1>1
<1> HIDE DEF t, n
<1>3. \A i \in 1..n : s[i] \in WriteType
  BY <1>1, <1>2
<1>4. \A i \in 1..n : s[i].n \in Nat
  BY <1>3 DEF WriteType
<1>5. Written(s) = [i \in 1..n |-> s[i].n] /\ Written(t) = [i \in 1..(n + 1) |-> t[i].n]
  BY <1>2 DEF Written
<1>6. Written(s) \in Seq(Nat) /\ Written(t) = Append(Written(s), e.n)
  <2>1. Written(s) \in [1..n -> Nat]
    BY <1>4, <1>5
  <2>2. Written(s) \in Seq(Nat) /\ Len(Written(s)) = n
    BY <1>2, <2>1
  <2>3. Written(t)[n + 1] = e.n /\ \A i \in 1..n : Written(t)[i] = Written(s)[i]
    BY <1>2, <1>5
  <2>4. Written(t) = [i \in 1..(n + 1) |-> Written(t)[i]]
    BY <1>5
  <2>5. Longer(Written(t), Written(s), e.n)
    BY <1>2, <2>2, <2>3, <2>4 DEF Longer
  <2> QED BY <1>1, <2>2, <2>5, AppendedIs
<1>7. WithinSource(t)
  <2> SUFFICES ASSUME NEW i \in 1..(n + 1)
               PROVE  Span(t[i].at, t[i].n) \subseteq Span(t[i].region.at, t[i].region.n)
    BY <1>2 DEF WithinSource
  <2>1. CASE i = n + 1
    BY <1>2, <2>1
  <2>2. CASE i # n + 1
    BY <1>1, <1>2, <2>2 DEF WithinSource
  <2> QED BY <2>1, <2>2
<1>8. Total(Append(Written(s), e.n)) = Total(Written(s)) + e.n
  BY <1>1, <1>6, TotalAppend
<1> QED BY <1>2, <1>6, <1>7, <1>8 DEF t, WritesOK

\* A byte right behind the last, of the same sector.
LEMMA WrittenOn ==
    ASSUME NEW s, WritesOK(s), NEW n \in Nat \ {0}, n = Len(s),
           s[n].at + s[n].n \in Span(s[n].region.at, s[n].region.n)
    PROVE  /\ WritesOK([s EXCEPT ![n].n = @ + 1])
           /\ Total(Written([s EXCEPT ![n].n = @ + 1])) = Total(Written(s)) + 1
<1> DEFINE t == [s EXCEPT ![n].n = @ + 1]
           e == s[n]
<1>1. s \in Seq(WriteType) /\ WithinSource(s) /\ DOMAIN s = 1..n /\ n \in 1..n
  BY DEF WritesOK
<1>2. e \in WriteType
  BY <1>1
<1>3. /\ DOMAIN t = 1..n /\ \A i \in 1..n : i # n => t[i] = s[i]
      /\ t[n] = [e EXCEPT !.n = @ + 1]
  BY <1>1
<1>4. \A i \in 1..n : s[i] \in WriteType
  BY <1>1
<1>5. t = [i \in 1..n |-> t[i]]
  BY <1>1
<1> HIDE DEF t, e
<1>6. e.at \in Nat /\ e.n \in Nat /\ e.region \in RegionType
  BY <1>2 DEF WriteType
<1>7. t[n] \in WriteType /\ t[n].at = e.at /\ t[n].n = e.n + 1 /\ t[n].region = e.region
  BY <1>2, <1>3 DEF WriteType
<1>8. \A i \in 1..n : t[i] \in WriteType
  BY <1>3, <1>4, <1>7
<1>9. t \in [1..n -> WriteType]
  BY <1>5, <1>8
<1>10. t \in Seq(WriteType)
  BY <1>9
<1>11. Span(t[n].at, t[n].n) \subseteq Span(t[n].region.at, t[n].region.n)
  <2>1. Span(e.at, e.n) \subseteq Span(e.region.at, e.region.n)
    BY <1>1 DEF WithinSource, e
  <2>2. e.at + e.n \in Span(e.region.at, e.region.n)
    BY DEF e
  <2>3. Span(e.at, e.n + 1) \subseteq Span(e.at, e.n) \cup {e.at + e.n}
    <3>1. \A i \in e.at..(e.at + (e.n + 1) - 1) : i \in e.at..(e.at + e.n - 1) \/ i = e.at + e.n
      BY <1>6
    <3> QED BY <3>1 DEF Span
  <2> QED BY <1>7, <2>1, <2>2, <2>3
<1>12. WithinSource(t)
  BY <1>1, <1>3, <1>11 DEF WithinSource
<1>13. Written(s) = [i \in 1..n |-> s[i].n] /\ Written(t) = [i \in 1..n |-> t[i].n]
  BY <1>1, <1>3 DEF Written
<1>14. Written(t) = [Written(s) EXCEPT ![n] = @ + 1]
  <2>1. \A i \in 1..n : t[i].n = IF i = n THEN s[n].n + 1 ELSE s[i].n
    BY <1>3, <1>7 DEF e
  <2> DEFINE w == Written(s)
             v == Written(t)
  <2>2. w = [i \in 1..n |-> s[i].n] /\ v = [i \in 1..n |-> IF i = n THEN s[n].n + 1 ELSE s[i].n]
    BY <1>13, <2>1
  <2>3. w[n] = s[n].n
    BY <1>1, <2>2
  <2> QED BY <2>2, <2>3
<1>15. \A i \in 1..n : s[i].n \in Nat
  BY <1>4 DEF WriteType
<1>16. Written(s) \in Seq(Nat) /\ Len(Written(s)) = n
  <2>1. Written(s) \in [1..n -> Nat]
    BY <1>13, <1>15
  <2> QED BY <2>1
<1>17. Total([Written(s) EXCEPT ![n] = @ + 1]) = Total(Written(s)) + 1
  BY <1>16, TotalGrows
<1> QED BY <1>10, <1>12, <1>14, <1>17 DEF t, WritesOK

\* A transfer more; a second sector is not one of them.
LEMMA FedMore ==
    ASSUME NEW s, TransfersOK(s), NEW e \in TransferType,
           e.channel = 0 => \A i \in DOMAIN s : s[i].channel # 0
    PROVE  /\ TransfersOK(Append(s, e)) /\ Total(Fed(s)) \in Nat
           /\ Total(Fed(Append(s, e))) = Total(Fed(s)) + (IF e.channel = 1 THEN e.n ELSE 0)
<1> DEFINE t == Append(s, e)
           n == Len(s)
           x == IF e.channel = 1 THEN e.n ELSE 0
<1>1. s \in Seq(TransferType) /\ OneSector(s) /\ x \in Nat
  BY DEF TransfersOK, TransferType
<1>2. /\ t \in Seq(TransferType) /\ n \in Nat /\ DOMAIN s = 1..n /\ DOMAIN t = 1..(n + 1) /\ t[n + 1] = e
      /\ \A i \in 1..n : t[i] = s[i]
  BY <1>1
<1> HIDE DEF t, n
<1>3. \A i \in 1..n : s[i] \in TransferType
  BY <1>1, <1>2
<1>4. \A i \in 1..n : Fed(s)[i] \in Nat
  BY <1>2, <1>3 DEF TransferType, Fed
<1>5. /\ DOMAIN Fed(s) = 1..n /\ Fed(s) = [i \in 1..n |-> Fed(s)[i]]
      /\ \A i \in 1..n : Fed(s)[i] = Fed(t)[i]
      /\ Fed(t) = [i \in 1..(n + 1) |-> Fed(t)[i]] /\ Fed(t)[n + 1] = x
  BY <1>2 DEF Fed
<1> HIDE DEF x
<1>6. Fed(s) \in Seq(Nat) /\ Fed(t) = Append(Fed(s), x)
  <2>1. Fed(s) \in [1..n -> Nat]
    BY <1>4, <1>5
  <2>2. Fed(s) \in Seq(Nat) /\ Len(Fed(s)) = n
    BY <1>2, <2>1
  <2>3. Longer(Fed(t), Fed(s), x)
    BY <1>2, <1>5, <2>2 DEF Longer
  <2> QED BY <1>1, <2>2, <2>3, AppendedIs
<1>7. OneSector(t)
  <2> SUFFICES ASSUME NEW i \in 1..(n + 1), NEW j \in 1..(n + 1), t[i].channel = 0, t[j].channel = 0
               PROVE  i = j
    BY <1>2 DEF OneSector
  <2>1. CASE i = n + 1 \/ j = n + 1
    BY <1>2, <2>1
  <2>2. CASE i # n + 1 /\ j # n + 1
    BY <1>1, <1>2, <2>2 DEF OneSector
  <2> QED BY <2>1, <2>2
<1>8. Total(Append(Fed(s), x)) = Total(Fed(s)) + x /\ Total(Fed(s)) \in Nat
  BY <1>1, <1>6, TotalAppend
<1> QED BY <1>2, <1>6, <1>7, <1>8 DEF t, x, TransfersOK

\* The parts of the invariant one at a time: the ledgers and the rest.
Told(t, bytes, words) ==
    DOMAIN t = ToldFields /\ t.bytes = bytes /\ t.words = words /\ bytes \in Nat /\ words \in Nat

LEMMA CaptureIs ==
    CaptureOK <=> /\ RegionsOK(regions) /\ WritesOK(writes) /\ TransfersOK(transfers)
                  /\ inFlight \in FlightType /\ dma1 \in [at : Nat, left : Nat] /\ target \in TargetType
                  /\ accesses \in 0..MaxAccesses
                  /\ Told(told, Total(Written(writes)), Total(Fed(transfers)) + inFlight.n)
BY DEF CaptureOK, Told

LEMMA CdicDmaCaptures ==
    ASSUME CaptureOK, NEW at \in Memory, NEW n \in Payload, CdicDma(at, n)
    PROVE  CaptureOK'
<1> DEFINE e == [channel |-> 0, at |-> at, n |-> n, completed |-> TRUE]
           region == [at |-> at, n |-> n]
<1>1. at \in Nat /\ n \in Nat
  BY ProvenanceAssumption
<1>2. e \in TransferType /\ region \in RegionType /\ e.channel = 0
  BY <1>1 DEF TransferType, RegionType
<1>3. /\ transfers' = Append(transfers, e) /\ \A i \in DOMAIN transfers : transfers[i].channel # 0
      /\ regions' = (IF n >= RealTime THEN Watch(region) ELSE regions)
      /\ writes' = writes /\ inFlight' = inFlight /\ dma1' = dma1 /\ target' = target /\ told' = told
      /\ accesses < MaxAccesses /\ accesses' = accesses + 1
  BY DEF CdicDma, AnotherAccess
<1> HIDE DEF e, region
<1>4. RegionsOK(regions')
  BY <1>2, <1>3, WatchKeeps DEF CaptureOK
<1>5. TransfersOK(transfers') /\ Total(Fed(transfers)) \in Nat
      /\ Total(Fed(transfers')) = Total(Fed(transfers)) + (IF e.channel = 1 THEN e.n ELSE 0)
  BY <1>2, <1>3, FedMore DEF CaptureOK
<1>6. Total(Fed(transfers')) = Total(Fed(transfers))
  BY <1>2, <1>5
<1>7. accesses' \in 0..MaxAccesses
  BY <1>3, ProvenanceAssumption DEF CaptureOK
<1> QED BY <1>3, <1>4, <1>5, <1>6, <1>7 DEF CaptureOK

LEMMA ToldMore ==
    ASSUME NEW t, NEW bytes, NEW words, Told(t, bytes, words), NEW k \in Nat
    PROVE  /\ Told([t EXCEPT !.bytes = @ + k], bytes + k, words)
           /\ Told([t EXCEPT !.words = @ + k], bytes, words + k)
BY DEF Told, ToldFields

LEMMA GuestWriteCaptures ==
    ASSUME CaptureOK, NEW addr \in Memory, GuestWrite(addr)
    PROVE  CaptureOK'
<1> DEFINE s == SourceOf(addr)
           last == Len(writes)
           joins == last # 0 /\ writes[last].region = regions[s]
                    /\ writes[last].at + writes[last].n = addr
           e == [at |-> addr, n |-> 1, region |-> regions[s]]
           k == IF s = 0 THEN 0 ELSE 1
<1>1. /\ writes' = (CASE s = 0 -> writes
                      [] s # 0 /\ joins -> [writes EXCEPT ![last].n = @ + 1]
                      [] OTHER -> Append(writes, e))
      /\ told' = [told EXCEPT !.bytes = @ + k]
      /\ regions' = regions /\ transfers' = transfers /\ inFlight' = inFlight /\ dma1' = dma1
      /\ target' = target /\ accesses < MaxAccesses /\ accesses' = accesses + 1
  BY DEF GuestWrite, AnotherAccess
<1>2. \/ s = 0
      \/ s \in DOMAIN regions /\ addr \in Span(regions[s].at, regions[s].n)
  <2>1. regions \in Seq(RegionType)
    BY DEF CaptureOK, RegionsOK
  <2> QED BY <2>1, SourceIs
<1>3. addr \in Nat /\ k \in Nat
  BY ProvenanceAssumption
<1>4. last \in Nat /\ WritesOK(writes) /\ Told(told, Total(Written(writes)), Total(Fed(transfers)) + inFlight.n)
  BY CaptureIs DEF CaptureOK, WritesOK
<1> HIDE DEF s, last, e
<1>5. WritesOK(writes') /\ Total(Written(writes')) = Total(Written(writes)) + k
  <2>1. CASE s = 0
    <3>1. Total(Written(writes)) \in Nat
      BY <1>4 DEF Told
    <3> QED BY <1>1, <1>4, <2>1, <3>1
  <2>2. CASE s # 0 /\ joins
    <3>1. writes' = [writes EXCEPT ![last].n = @ + 1]
      BY <1>1, <2>2
    <3>2. last \in Nat \ {0} /\ writes[last].at + writes[last].n \in Span(writes[last].region.at, writes[last].region.n)
      BY <1>2, <1>4, <2>2
    <3> QED BY <1>4, <2>2, <3>1, <3>2, WrittenOn DEF last
  <2>3. CASE s # 0 /\ ~joins
    <3>1. writes' = Append(writes, e)
      BY <1>1, <2>3
    <3>2. regions[s] \in RegionType
      BY <1>2, <2>3 DEF CaptureOK, RegionsOK
    <3>3. e \in WriteType /\ e.n = 1 /\ e.at = addr /\ e.region = regions[s]
      BY <1>3, <3>2 DEF WriteType, e
    <3>4. Span(e.at, e.n) \subseteq Span(e.region.at, e.region.n)
      <4>1. Span(e.at, e.n) = {addr}
        BY <1>3, <3>3 DEF Span
      <4> QED BY <1>2, <2>3, <3>3, <4>1
    <3>5. WritesOK(Append(writes, e)) /\ Total(Written(Append(writes, e))) = Total(Written(writes)) + e.n
      BY <1>4, <3>3, <3>4, WrittenMore
    <3> QED BY <2>3, <3>1, <3>3, <3>5
  <2> QED BY <2>1, <2>2, <2>3
<1>6. Told(told', Total(Written(writes)) + k, Total(Fed(transfers)) + inFlight.n)
  <2> HIDE DEF k
  <2> QED BY <1>1, <1>3, <1>4, ToldMore
<1>7. accesses' \in 0..MaxAccesses
  BY <1>1, ProvenanceAssumption DEF CaptureOK
<1>8. Told(told', Total(Written(writes')), Total(Fed(transfers')) + inFlight'.n)
  BY <1>1, <1>5, <1>6
<1> QED BY <1>1, <1>5, <1>7, <1>8 DEF CaptureOK, Told

\* An observation of the words of a flight.
LEMMA ObservedFlight ==
    ASSUME NEW s, TransfersOK(s), NEW flight \in FlightType, NEW completed \in BOOLEAN
    PROVE  /\ TransfersOK(Append(s, Observation(flight, completed))) /\ Total(Fed(s)) \in Nat
           /\ Total(Fed(Append(s, Observation(flight, completed)))) = Total(Fed(s)) + flight.n
<1> DEFINE e == Observation(flight, completed)
<1>1. e \in TransferType /\ e.channel = 1 /\ e.n = flight.n
  BY DEF Observation, TransferType, FlightType
<1> HIDE DEF e
<1>2. /\ TransfersOK(Append(s, e)) /\ Total(Fed(s)) \in Nat
      /\ Total(Fed(Append(s, e))) = Total(Fed(s)) + (IF e.channel = 1 THEN e.n ELSE 0)
  BY <1>1, FedMore
<1> QED BY <1>1, <1>2 DEF e

LEMMA FlushIs ==
    ASSUME TransfersOK(transfers), NEW flight \in FlightType, NEW completed \in BOOLEAN
    PROVE  /\ TransfersOK(Flush(flight, completed)) /\ Total(Fed(transfers)) \in Nat
           /\ Total(Fed(Flush(flight, completed))) = Total(Fed(transfers)) + flight.n
<1>1. /\ TransfersOK(Append(transfers, Observation(flight, completed))) /\ Total(Fed(transfers)) \in Nat
      /\ Total(Fed(Append(transfers, Observation(flight, completed)))) = Total(Fed(transfers)) + flight.n
  BY ObservedFlight
<1>2. CASE flight.n = 0
  BY <1>1, <1>2 DEF Flush
<1>3. CASE flight.n # 0
  BY <1>1, <1>3 DEF Flush
<1> QED BY <1>2, <1>3

LEMMA NoFlightIs == NoFlight \in FlightType /\ NoFlight.n = 0
<1>1. NoFlight.target \in TargetType
  BY DEF TargetType
<1> QED BY <1>1 DEF NoFlight, FlightType

LEMMA FeedWordCaptures ==
    ASSUME CaptureOK, FeedWord
    PROVE  CaptureOK'
<1> DEFINE jumps == inFlight.n # 0 /\ (inFlight.at + inFlight.n # dma1.at \/ inFlight.target # target)
           begun == [at |-> dma1.at, n |-> 1, target |-> target]
           flight == IF jumps \/ inFlight.n = 0 THEN begun ELSE [inFlight EXCEPT !.n = @ + 1]
           flushed == IF jumps THEN Flush(inFlight, FALSE) ELSE transfers
           total == Total(Fed(transfers)) + inFlight.n
<1>1. /\ \/ /\ dma1.left = 1 /\ inFlight' = NoFlight
            /\ transfers' = Append(flushed, Observation(flight, TRUE))
            /\ regions' = Consumed(flight)
         \/ dma1.left # 1 /\ inFlight' = flight /\ transfers' = flushed /\ regions' = regions
      /\ dma1' = [at |-> dma1.at + 1, left |-> dma1.left - 1] /\ dma1.left > 0
      /\ told' = [told EXCEPT !.words = @ + 1] /\ writes' = writes /\ target' = target
      /\ accesses < MaxAccesses /\ accesses' = accesses + 1
  <2>1. CASE dma1.left = 1
    BY <2>1 DEF FeedWord, AnotherAccess
  <2>2. CASE dma1.left # 1
    BY <2>2 DEF FeedWord, AnotherAccess
  <2> QED BY <2>1, <2>2
<1>2. /\ RegionsOK(regions) /\ WritesOK(writes) /\ TransfersOK(transfers)
      /\ inFlight \in FlightType /\ dma1 \in [at : Nat, left : Nat] /\ target \in TargetType
      /\ accesses \in 0..MaxAccesses /\ Told(told, Total(Written(writes)), total)
  BY CaptureIs
<1>3. inFlight.n \in Nat /\ dma1.at \in Nat /\ begun \in FlightType
  BY <1>2 DEF FlightType
<1>4. Total(Fed(transfers)) \in Nat
  BY <1>2, FlushIs
<1>5. /\ flight \in FlightType /\ TransfersOK(flushed) /\ Total(Fed(flushed)) \in Nat
      /\ Total(Fed(flushed)) + flight.n = total + 1
  <2>1. CASE jumps
    <3>1. TransfersOK(Flush(inFlight, FALSE)) /\ Total(Fed(Flush(inFlight, FALSE))) = total
      BY <1>2, FlushIs
    <3>2. flight = begun /\ flushed = Flush(inFlight, FALSE) /\ begun.n = 1
      BY <2>1
    <3>3. total \in Nat
      BY <1>3, <1>4
    <3> HIDE DEF begun, flight, flushed, total
    <3> QED BY <1>3, <3>1, <3>2, <3>3
  <2>2. CASE inFlight.n = 0
    <3>1. flight = begun /\ flushed = transfers /\ begun.n = 1
      BY <2>2
    <3>2. total = Total(Fed(transfers))
      BY <1>4, <2>2
    <3> HIDE DEF begun, flight, flushed, total
    <3>3. TransfersOK(transfers)
      BY <1>2
    <3>4. Total(Fed(flushed)) + flight.n = total + 1 /\ Total(Fed(flushed)) \in Nat
      BY <1>4, <3>1, <3>2
    <3>5. flight \in FlightType /\ TransfersOK(flushed)
      BY <1>3, <3>1, <3>3
    <3> QED BY <3>4, <3>5
  <2>3. CASE ~jumps /\ inFlight.n # 0
    <3>1. flight = [inFlight EXCEPT !.n = @ + 1] /\ flushed = transfers
      BY <2>3
    <3>2. flight \in FlightType /\ flight.n = inFlight.n + 1
      BY <1>2, <1>3, <3>1 DEF FlightType
    <3> HIDE DEF begun, flight, flushed
    <3>3. TransfersOK(flushed)
      BY <1>2, <3>1
    <3>4. Total(Fed(flushed)) + flight.n = total + 1 /\ Total(Fed(flushed)) \in Nat
      BY <1>3, <1>4, <3>1, <3>2
    <3> QED BY <3>2, <3>3, <3>4
  <2> QED BY <2>1, <2>2, <2>3
<1>6. Told(told', Total(Written(writes)), total + 1)
  <2> HIDE DEF total
  <2> QED BY <1>1, <1>2, ToldMore
<1> HIDE DEF flight, flushed, total
<1>7. accesses' \in 0..MaxAccesses
  BY <1>1, <1>2, ProvenanceAssumption
<1>8. dma1' \in [at : Nat, left : Nat]
  BY <1>1, <1>2
<1>9. /\ RegionsOK(regions') /\ TransfersOK(transfers') /\ inFlight' \in FlightType
      /\ Total(Fed(transfers')) + inFlight'.n = total + 1
  <2>1. CASE dma1.left = 1
    <3>1. inFlight' = NoFlight /\ transfers' = Append(flushed, Observation(flight, TRUE))
          /\ regions' = Consumed(flight)
      BY <1>1, <2>1
    <3>2. TransfersOK(transfers') /\ Total(Fed(transfers')) = Total(Fed(flushed)) + flight.n
      BY <1>5, <3>1, ObservedFlight
    <3>3. RegionsOK(regions')
      <4>1. CASE flight.n = 0
        BY <1>2, <3>1, <4>1 DEF Consumed
      <4>2. CASE flight.n # 0
        BY <1>2, <3>1, <4>2, ApartIs DEF Consumed
      <4> QED BY <4>1, <4>2
    <3>4. flight.n \in Nat
      BY <1>5 DEF FlightType
    <3>5. Total(Fed(transfers')) + 0 = total + 1
      BY <1>5, <3>2, <3>4
    <3>6. inFlight' \in FlightType /\ inFlight'.n = 0
      BY <3>1, NoFlightIs
    <3> QED BY <3>2, <3>3, <3>5, <3>6
  <2>2. CASE dma1.left # 1
    BY <1>1, <1>2, <1>5, <2>2
  <2> QED BY <2>1, <2>2
<1>10. Told(told', Total(Written(writes')), Total(Fed(transfers')) + inFlight'.n)
  BY <1>1, <1>6, <1>9
<1> QED BY <1>1, <1>2, <1>7, <1>8, <1>9, <1>10 DEF CaptureOK, Told

LEMMA FindInactiveCaptures ==
    ASSUME CaptureOK, FindInactive
    PROVE  CaptureOK'
<1>1. /\ transfers' = Flush(inFlight, FALSE) /\ inFlight' = NoFlight
      /\ regions' = regions /\ writes' = writes /\ dma1' = dma1 /\ target' = target /\ told' = told
      /\ accesses < MaxAccesses /\ accesses' = accesses + 1
  BY DEF FindInactive, AnotherAccess
<1>2. /\ TransfersOK(Flush(inFlight, FALSE)) /\ Total(Fed(transfers)) \in Nat
      /\ Total(Fed(Flush(inFlight, FALSE))) = Total(Fed(transfers)) + inFlight.n
  BY FlushIs DEF CaptureOK
<1>3. accesses' \in 0..MaxAccesses
  BY <1>1, ProvenanceAssumption DEF CaptureOK
<1>4. Total(Fed(transfers')) + inFlight'.n = told'.words
  <2>1. inFlight.n \in Nat
    BY DEF CaptureOK, FlightType
  <2>2. inFlight'.n = 0 /\ told'.words = told.words
    BY <1>1, NoFlightIs
  <2>3. Total(Fed(transfers)) + inFlight.n = told.words
    BY DEF CaptureOK
  <2>4. Total(Fed(transfers')) = Total(Fed(transfers)) + inFlight.n
    BY <1>1, <1>2
  <2> QED BY <1>2, <2>1, <2>2, <2>3, <2>4
<1> QED BY <1>1, <1>2, <1>3, <1>4, NoFlightIs DEF CaptureOK

LEMMA NothingCaptured ==
    /\ WritesOK(<<>>) /\ TransfersOK(<<>>) /\ RegionsOK(<<>>)
    /\ Total(Written(<<>>)) = 0 /\ Total(Fed(<<>>)) = 0
<1>1. /\ <<>> \in Seq(WriteType) /\ <<>> \in Seq(TransferType) /\ <<>> \in Seq(RegionType)
      /\ Len(<<>>) = 0 /\ DOMAIN <<>> = {}
  OBVIOUS
<1>2. Written(<<>>) = <<>> /\ Fed(<<>>) = <<>>
  BY <1>1 DEF Written, Fed
<1>3. MaxRegions \in Nat
  BY ProvenanceAssumption
<1> QED BY <1>1, <1>2, <1>3, TotalNothing DEF WritesOK, TransfersOK, RegionsOK, WithinSource, OneSector, Disjoint

LEMMA SampleCaptures ==
    ASSUME CaptureOK, SampleDmaAndPcl
    PROVE  CaptureOK'
<1>1. /\ writes' = <<>> /\ transfers' = <<>> /\ accesses' = 0
      /\ regions' = regions /\ inFlight' = inFlight /\ dma1' = dma1 /\ target' = target
      /\ DOMAIN told' = ToldFields /\ told'.bytes = 0 /\ told'.words = inFlight.n
  BY DEF SampleDmaAndPcl, ToldFields
<1>2. inFlight.n \in Nat
  BY DEF CaptureOK, FlightType
<1>3. accesses' \in 0..MaxAccesses
  BY <1>1, ProvenanceAssumption
<1> QED BY <1>1, <1>2, <1>3, NothingCaptured DEF CaptureOK

\* Nothing in the capture.
NoCapture ==
    /\ regions = <<>> /\ writes = <<>> /\ transfers = <<>> /\ inFlight = NoFlight
    /\ dma1 = [at |-> 0, left |-> 0] /\ target = NoFlight.target
    /\ accesses = 0 /\ told = Silent

LEMMA NoCaptureIs == NoCapture => CaptureOK
<1> SUFFICES ASSUME NoCapture PROVE CaptureOK
  OBVIOUS
<1>1. DOMAIN told = ToldFields /\ told.bytes = 0 /\ told.words = 0
  BY DEF NoCapture, Silent, ToldFields
<1>2. accesses \in 0..MaxAccesses /\ target \in TargetType
  BY ProvenanceAssumption DEF NoCapture, TargetType
<1> QED BY <1>1, <1>2, NothingCaptured, NoFlightIs DEF NoCapture, CaptureOK

\* What an edit of the guest, of the registers or of the route leaves.
LEMMA OtherCaptures ==
    ASSUME CaptureOK, UNCHANGED <<captureVars, told>>, accesses' \in 0..MaxAccesses,
           dma1' \in [at : Nat, left : Nat], target' \in TargetType
    PROVE  CaptureOK'
<1>1. regions' = regions /\ writes' = writes /\ transfers' = transfers /\ inFlight' = inFlight /\ told' = told
  BY DEF captureVars
<1> QED BY <1>1 DEF CaptureOK

EditsPcl(p) ==
    \/ Advance(p) \/ Fill(p) \/ Release(p) \/ LinkPcl(p)
    \/ \E next \in Pcl \cup {Nil} : Relink(p, next)
    \/ \E b \in Buffers : Rebase(p, b)

LEMMA EditCaptures ==
    ASSUME CaptureOK, (\E p \in Pcl : EditsPcl(p)) \/ PlayRecord
    PROVE  CaptureOK'
<1>1. UNCHANGED <<captureVars, dma1, target, told>> /\ accesses' = 1
  BY DEF EditsPcl, PlayRecord, Advance, Fill, Release, LinkPcl, Relink, Rebase, EditPcl
<1>2. accesses' \in 0..MaxAccesses
  BY <1>1, ProvenanceAssumption
<1> QED BY <1>1, <1>2, OtherCaptures DEF CaptureOK

LEMMA CaptureStays ==
    ASSUME CaptureOK, [ProvenanceNext]_provenanceVars
    PROVE  CaptureOK'
<1>1. ASSUME NEW at \in Memory, NEW n \in Payload, CdicDma(at, n) PROVE CaptureOK'
  BY <1>1, CdicDmaCaptures
<1>2. ASSUME NEW addr \in Memory, GuestWrite(addr) PROVE CaptureOK'
  BY <1>2, GuestWriteCaptures
<1>3. ASSUME NEW at \in Memory, NEW left \in Nat, WriteDma1(at, left) PROVE CaptureOK'
  <2>1. /\ dma1' = [at |-> at, left |-> left] /\ at \in Nat
        /\ UNCHANGED <<captureVars, told>> /\ target' = target
        /\ accesses < MaxAccesses /\ accesses' = accesses + 1
    BY <1>3, ProvenanceAssumption DEF WriteDma1, AnotherAccess
  <2>2. accesses' \in 0..MaxAccesses
    BY <2>1, ProvenanceAssumption DEF CaptureOK
  <2> QED BY <2>1, <2>2, OtherCaptures DEF CaptureOK
<1>4. ASSUME NEW t \in Decoders, Retarget(t) PROVE CaptureOK'
  <2>1. /\ dma1' = dma1 /\ UNCHANGED <<captureVars, told>> /\ target' = t
        /\ accesses < MaxAccesses /\ accesses' = accesses + 1
    BY <1>4 DEF Retarget, AnotherAccess
  <2>2. accesses' \in 0..MaxAccesses
    BY <2>1, ProvenanceAssumption DEF CaptureOK
  <2>3. target' \in TargetType
    BY <2>1 DEF TargetType
  <2> QED BY <2>1, <2>2, <2>3, OtherCaptures DEF CaptureOK
<1>5. CASE ResetDiagnostics
  <2>1. NoCapture'
    BY <1>5 DEF ResetDiagnostics, NoCapture
  <2>2. NoCapture' => CaptureOK'
    BY NoCaptureIs, PTL
  <2> QED BY <2>1, <2>2
<1>6. CASE UNCHANGED provenanceVars
  <2>1. UNCHANGED <<captureVars, dma1, target, told>> /\ accesses' = accesses
    BY <1>6 DEF provenanceVars
  <2> QED BY <2>1, OtherCaptures DEF CaptureOK
<1>7. \/ \E at \in Memory, n \in Payload : CdicDma(at, n)
      \/ \E addr \in Memory : GuestWrite(addr)
      \/ FeedWord \/ FindInactive
      \/ \E at \in Memory, left \in Nat : WriteDma1(at, left)
      \/ \E t \in Decoders : Retarget(t)
      \/ (\E p \in Pcl : EditsPcl(p)) \/ PlayRecord
      \/ SampleDmaAndPcl \/ ResetDiagnostics
      \/ UNCHANGED provenanceVars
  BY Zenon DEF ProvenanceNext, EditsPcl
<1> QED BY <1>1, <1>2, <1>3, <1>4, <1>5, <1>6, <1>7, FeedWordCaptures, FindInactiveCaptures, EditCaptures,
           SampleCaptures

-----------------------------------------------------------------------------
(* The tracker: chains are of PCLs, and what is watched is as it is.       *)

PclType == [full : BOOLEAN, count : Nat, next : Pcl \cup {Nil}, buffer : Buffers]

\* A step along a chain.
Walked(w, known) ==
    IF w.at = Nil \/ w.at \in known \cup w.members \/ ~Plausible(pcl[w.at]) THEN w
    ELSE [at |-> pcl[w.at].next, members |-> w.members \cup {w.at}]
Walk(first, known) ==
    CHOOSE f : f = [i \in 0..Cardinality(Pcl) |->
                        IF i = 0 THEN [at |-> first, members |-> {}] ELSE Walked(f[i - 1], known)]
WalkType == [at : Pcl \cup {Nil}, members : SUBSET Pcl]

LEMMA WalkedIs ==
    ASSUME pcl \in [Pcl -> PclType], NEW w \in WalkType, NEW known
    PROVE  Walked(w, known) \in WalkType
<1>1. CASE w.at = Nil \/ w.at \in known \cup w.members \/ ~Plausible(pcl[w.at])
  BY <1>1 DEF Walked
<1>2. CASE ~(w.at = Nil \/ w.at \in known \cup w.members \/ ~Plausible(pcl[w.at]))
  <2>1. w.at \in Pcl /\ w.members \in SUBSET Pcl
    BY <1>2 DEF WalkType
  <2>2. pcl[w.at] \in PclType
    BY <2>1
  <2>3. pcl[w.at].next \in Pcl \cup {Nil}
    BY <2>2 DEF PclType
  <2>4. Walked(w, known) = [at |-> pcl[w.at].next, members |-> w.members \cup {w.at}]
    BY <1>2 DEF Walked
  <2> QED BY <2>1, <2>3, <2>4 DEF WalkType
<1> QED BY <1>1, <1>2

LEMMA ChainIs ==
    ASSUME pcl \in [Pcl -> PclType], NEW first \in Pcl, NEW known
    PROVE  ChainFrom(first, known) \subseteq Pcl
<1> DEFINE L == Cardinality(Pcl)
           start == [at |-> first, members |-> {}]
           walk == Walk(first, known)
           step(w) == Walked(w, known)
<1>1. L \in Nat
  BY ProvenanceAssumption, FS_CardinalityType
<1>2. ChainFrom(first, known) = walk[L].members
  BY DEF ChainFrom, Walk, Walked
<1>3. walk = CHOOSE f : f = [i \in 0..L |-> IF i = 0 THEN start ELSE step(f[i - 1])]
  BY DEF Walk
<1>4. start \in WalkType
  BY DEF WalkType
<1>5. \A w \in WalkType : step(w) \in WalkType
  BY WalkedIs
<1> HIDE DEF L, start, walk, step
<1>6. walk = [i \in 0..L |-> IF i = 0 THEN start ELSE step(walk[i - 1])]
  <2> DEFINE T == {k \in Nat : \E f : f = [i \in 0..k |-> IF i = 0 THEN start ELSE step(f[i - 1])]}
  <2>1. 0 \in T
    <3> DEFINE f == [n \in 0..0 |-> start]
    <3>1. f = [i \in 0..0 |-> IF i = 0 THEN start ELSE step(f[i - 1])]
      OBVIOUS
    <3> QED BY <3>1
  <2>2. ASSUME NEW k \in Nat, k \in T PROVE k + 1 \in T
    <3>1. PICK e : e = [i \in 0..k |-> IF i = 0 THEN start ELSE step(e[i - 1])]
      BY <2>2
    <3> DEFINE h == [i \in 0..(k + 1) |-> IF i = k + 1 THEN step(e[k]) ELSE e[i]]
    <3>2. ASSUME NEW i \in 0..(k + 1) PROVE h[i] = IF i = 0 THEN start ELSE step(h[i - 1])
      BY <3>1
    <3>3. h = [i \in 0..(k + 1) |-> IF i = 0 THEN start ELSE step(h[i - 1])]
      BY <3>2
    <3>4. \E f : f = [i \in 0..(k + 1) |-> IF i = 0 THEN start ELSE step(f[i - 1])]
      BY <3>3
    <3> HIDE DEF h
    <3>5. k + 1 \in Nat
      OBVIOUS
    <3> QED BY <3>4, <3>5, Zenon
  <2>3. L \in T
    <3> HIDE DEF T
    <3> QED BY <1>1, <2>1, <2>2, Induct
  <2> QED BY <1>3, <2>3
<1> DEFINE U == {n \in Nat : n <= L => walk[n] \in WalkType}
<1>7. 0 \in U
  BY <1>1, <1>4, <1>6
<1>8. ASSUME NEW n \in Nat, n \in U PROVE n + 1 \in U
  <2> SUFFICES ASSUME n + 1 <= L PROVE walk[n + 1] \in WalkType
    OBVIOUS
  <2>1. n + 1 \in 0..L /\ n + 1 # 0 /\ (n + 1) - 1 = n /\ walk[n] \in WalkType
    BY <1>1, <1>8
  <2>2. walk[n + 1] = step(walk[n])
    BY <1>6, <2>1
  <2> QED BY <1>5, <2>1, <2>2
<1>9. L \in U
  <2> HIDE DEF U
  <2> QED BY <1>1, <1>7, <1>8, Induct
<1>10. walk[L] \in WalkType
  BY <1>1, <1>9
<1>11. walk[L].members \subseteq Pcl
  BY <1>10 DEF WalkType
<1> QED BY <1>2, <1>11

\* PCLs watched, each as it is.
Current(w) == DOMAIN w \subseteq Pcl /\ \A p \in DOMAIN w : w[p].snapshot = pcl[p]
\* More are watched, and those that were stay as they were.
MoreWatched(w, v) == DOMAIN w \subseteq DOMAIN v /\ \A p \in DOMAIN w : v[p] = w[p]

LEMMA WatchChainIs ==
    ASSUME pcl \in [Pcl -> PclType], NEW w, Current(w), NEW first \in Pcl
    PROVE  Current(WatchChain(w, first)) /\ MoreWatched(w, WatchChain(w, first))
<1> DEFINE new == ChainFrom(first, DOMAIN w)
           v == WatchChain(w, first)
<1>1. new \subseteq Pcl
  BY ChainIs
<1>2. v = [p \in DOMAIN w \cup new |->
            IF p \in DOMAIN w THEN w[p]
            ELSE [snapshot |-> pcl[p], context |-> first \in linked, retried |-> FALSE]]
  BY DEF WatchChain
<1> HIDE DEF new, v
<1>3. DOMAIN v = DOMAIN w \cup new
  BY <1>2
<1>4. \A p \in DOMAIN w : v[p] = w[p]
  BY <1>2
<1>5. ASSUME NEW p \in DOMAIN v PROVE v[p].snapshot = pcl[p]
  <2>1. CASE p \in DOMAIN w
    BY <1>4, <2>1 DEF Current
  <2>2. CASE p \notin DOMAIN w
    <3>1. v[p] = [snapshot |-> pcl[p], context |-> first \in linked, retried |-> FALSE]
      BY <1>2, <1>3, <1>5, <2>2
    <3> QED BY <3>1
  <2> QED BY <2>1, <2>2
<1>6. Current(v)
  BY <1>1, <1>3, <1>5 DEF Current
<1>7. MoreWatched(w, v)
  BY <1>3, <1>4 DEF MoreWatched
<1> QED BY <1>6, <1>7 DEF v

LEMMA ObservedIs ==
    ASSUME pcl \in [Pcl -> PclType], NEW w, Current(w), NEW d
    PROVE  Current(Observed(w, d)) /\ MoreWatched(w, Observed(w, d))
<1> DEFINE found == Ascending({p \in Pcl : Discoverable(pcl[p], d.at, d.n)})
           L == Len(found)
           run == CHOOSE f : f = [i \in 0..L |-> IF i = 0 THEN w ELSE WatchChain(f[i - 1], found[i])]
<1>1. MoreWatched(w, w)
  BY DEF MoreWatched
<1>2. Observed(w, d) = IF Matching(w, d) # {} THEN w ELSE run[L]
  BY DEF Observed
<1>3. run = CHOOSE f : f = [i \in 0..L |-> IF i = 0 THEN w ELSE WatchChain(f[i - 1], found[i])]
  OBVIOUS
<1>4. L \in Nat /\ \A i \in 1..L : found[i] \in Pcl
  <2> DEFINE S == {p \in Pcl : Discoverable(pcl[p], d.at, d.n)}
  <2>1. S \subseteq Pcl
    OBVIOUS
  <2> HIDE DEF S
  <2>2. S \subseteq Nat /\ IsFiniteSet(S)
    BY <2>1, ProvenanceAssumption, FS_Subset
  <2>3. Ascending(S) \in Seq(S)
    BY <2>2, AscendingIs
  <2>4. Len(Ascending(S)) \in Nat /\ \A i \in 1..Len(Ascending(S)) : Ascending(S)[i] \in S
    BY <2>3
  <2> QED BY <2>1, <2>4 DEF S
<1> HIDE DEF found, L, run
<1>5. run = [i \in 0..L |-> IF i = 0 THEN w ELSE WatchChain(run[i - 1], found[i])]
  <2> DEFINE T == {k \in Nat : \E f : f = [i \in 0..k |-> IF i = 0 THEN w ELSE WatchChain(f[i - 1], found[i])]}
  <2>1. 0 \in T
    <3> DEFINE f == [n \in 0..0 |-> w]
    <3>1. f = [i \in 0..0 |-> IF i = 0 THEN w ELSE WatchChain(f[i - 1], found[i])]
      OBVIOUS
    <3> QED BY <3>1
  <2>2. ASSUME NEW k \in Nat, k \in T PROVE k + 1 \in T
    <3>1. PICK e : e = [i \in 0..k |-> IF i = 0 THEN w ELSE WatchChain(e[i - 1], found[i])]
      BY <2>2
    <3> DEFINE h == [i \in 0..(k + 1) |-> IF i = k + 1 THEN WatchChain(e[k], found[k + 1]) ELSE e[i]]
    <3>2. ASSUME NEW i \in 0..(k + 1) PROVE h[i] = IF i = 0 THEN w ELSE WatchChain(h[i - 1], found[i])
      BY <3>1
    <3>3. h = [i \in 0..(k + 1) |-> IF i = 0 THEN w ELSE WatchChain(h[i - 1], found[i])]
      BY <3>2
    <3>4. \E f : f = [i \in 0..(k + 1) |-> IF i = 0 THEN w ELSE WatchChain(f[i - 1], found[i])]
      BY <3>3
    <3> HIDE DEF h
    <3>5. k + 1 \in Nat
      OBVIOUS
    <3> QED BY <3>4, <3>5, Zenon
  <2>3. L \in T
    <3> HIDE DEF T
    <3> QED BY <1>4, <2>1, <2>2, Induct
  <2> QED BY <1>3, <2>3
<1> DEFINE U == {n \in Nat : n <= L => Current(run[n]) /\ MoreWatched(w, run[n])}
<1>6. 0 \in U
  <2>1. run[0] = w
    BY <1>4, <1>5
  <2> QED BY <1>1, <2>1
<1>7. ASSUME NEW n \in Nat, n \in U PROVE n + 1 \in U
  <2> SUFFICES ASSUME n + 1 <= L PROVE Current(run[n + 1]) /\ MoreWatched(w, run[n + 1])
    OBVIOUS
  <2>1. n + 1 \in 1..L /\ n + 1 \in 0..L /\ n + 1 # 0 /\ (n + 1) - 1 = n
        /\ Current(run[n]) /\ MoreWatched(w, run[n])
    BY <1>4, <1>7
  <2>2. PICK p \in Pcl : p = found[n + 1]
    BY <1>4, <2>1
  <2>3. run[n + 1] = WatchChain(run[n], p)
    BY <1>5, <2>1, <2>2
  <2>4. PICK v : v = run[n]
    OBVIOUS
  <2>5. Current(WatchChain(v, p)) /\ MoreWatched(v, WatchChain(v, p))
    BY <2>1, <2>4, WatchChainIs
  <2>6. MoreWatched(w, WatchChain(v, p))
    BY <2>1, <2>4, <2>5 DEF MoreWatched
  <2> QED BY <2>3, <2>4, <2>5, <2>6
<1>8. L \in U
  <2> HIDE DEF U
  <2> QED BY <1>4, <1>6, <1>7, Induct
<1>9. Current(run[L]) /\ MoreWatched(w, run[L])
  BY <1>4, <1>8
<1> QED BY <1>1, <1>2, <1>9

LEMMA SampledIs ==
    ASSUME DOMAIN watched \subseteq Pcl
    PROVE  Current(Sampled(watched)) /\ DOMAIN Sampled(watched) = DOMAIN watched
<1> DEFINE entry(p) ==
        LET retry == pcl[p] # watched[p].snapshot /\ ~watched[p].context /\ ~watched[p].retried IN
        [snapshot |-> pcl[p],
         context |-> watched[p].context \/ (retry /\ p \in linked),
         retried |-> watched[p].retried \/ retry]
<1>1. Sampled(watched) = [p \in DOMAIN watched |-> entry(p)]
  BY DEF Sampled
<1>2. \A p \in DOMAIN watched : entry(p).snapshot = pcl[p]
  OBVIOUS
<1> HIDE DEF entry
<1> QED BY <1>1, <1>2 DEF Current

\* A sector that comes in over a PCL's full buffer.
Overwrites(p, d) == RangeContains(pcl[p], d.at, d.n) /\ pcl[p].full
OverwritesOf(p, sectors) == {d \in sectors : RangeContains(pcl[p], d.at, d.n) /\ pcl[p].full}

LEMMA FullIs ==
    ASSUME NEW w, Current(w), NEW d
    PROVE  Full(w, Matching(w, d)) = {p \in DOMAIN w : Overwrites(p, d)}
BY DEF Full, Matching, Current, Overwrites

LEMMA RisksAre ==
    ASSUME NEW w, Current(w), NEW v, Current(v), MoreWatched(w, v), NEW d
    PROVE  /\ DOMAIN Risks(w, v, d) = DOMAIN v
           /\ \A p \in DOMAIN v : Risks(w, v, d)[p] = Cardinality(OverwritesOf(p, {d}))
<1> DEFINE first == Full(w, Matching(w, d))
           all == Full(v, Matching(v, d))
<1>1. first = {p \in DOMAIN w : Overwrites(p, d)} /\ all = {p \in DOMAIN v : Overwrites(p, d)}
  BY FullIs
<1>2. Risks(w, v, d) = [p \in DOMAIN v |-> (IF p \in first THEN 1 ELSE 0) + (IF p \in all \ first THEN 1 ELSE 0)]
  BY DEF Risks
<1> HIDE DEF first, all
<1>3. ASSUME NEW p \in DOMAIN v PROVE Risks(w, v, d)[p] = Cardinality(OverwritesOf(p, {d}))
  <2>1. CASE Overwrites(p, d)
    <3>1. OverwritesOf(p, {d}) = {d}
      BY <2>1 DEF OverwritesOf, Overwrites
    <3>2. Cardinality({d}) = 1
      BY FS_Singleton
    <3>3. p \in all
      BY <1>1, <2>1
    <3> QED BY <1>2, <3>1, <3>2, <3>3
  <2>2. CASE ~Overwrites(p, d)
    <3>1. OverwritesOf(p, {d}) = {}
      BY <2>2 DEF OverwritesOf, Overwrites
    <3>2. Cardinality({}) = 0
      BY FS_EmptySet
    <3>3. p \notin all /\ p \notin first
      BY <1>1, <2>2
    <3> QED BY <1>2, <3>1, <3>2, <3>3
  <2> QED BY <2>1, <2>2
<1> QED BY <1>2, <1>3

SectorsOf(s) == {s[i] : i \in {j \in DOMAIN s : s[j].channel = 0}}

LEMMA SectorsAre ==
    ASSUME OneSector(transfers)
    PROVE  SectorsOf(transfers) = {} \/ \E d : SectorsOf(transfers) = {d}
<1>1. CASE \E i \in DOMAIN transfers : transfers[i].channel = 0
  <2>1. PICK i \in DOMAIN transfers : transfers[i].channel = 0
    BY <1>1
  <2>2. SectorsOf(transfers) = {transfers[i]}
    BY <2>1 DEF SectorsOf, OneSector
  <2> QED BY <2>2
<1>2. CASE ~\E i \in DOMAIN transfers : transfers[i].channel = 0
  BY <1>2 DEF SectorsOf
<1> QED BY <1>1, <1>2

TrackerOK ==
    /\ pcl \in [Pcl -> PclType] /\ records \in 0..1 /\ watchedPcb \in -1..1
    /\ DOMAIN watched \subseteq Pcl /\ DOMAIN told.states = DOMAIN watched
    /\ \A p \in DOMAIN watched : told.states[p] = watched[p].snapshot
    /\ accesses = 0 => Current(watched)
    /\ (\E p \in DOMAIN watched : watched[p].context) => watchedPcb # -1
    /\ watchedPcb # -1 => told.pcb = watchedPcb /\ (accesses = 0 => watchedPcb = records)
    /\ accesses = 0 =>
        \A p \in DOMAIN watched : told.risks[p] = Cardinality(OverwritesOf(p, told.dma))

\* Between the accesses of an instruction nothing is told.
SameTold(t, u) == u.states = t.states /\ u.pcb = t.pcb

LEMMA AccessTracks ==
    ASSUME TrackerOK, UNCHANGED trackerVars, SameTold(told, told'), accesses' # 0,
           pcl' \in [Pcl -> PclType], records' \in 0..1
    PROVE  TrackerOK'
<1>1. watched' = watched /\ watchedPcb' = watchedPcb
  BY DEF trackerVars
<1>2. told'.states = told.states /\ told'.pcb = told.pcb
  BY DEF SameTold
<1>3. DOMAIN told'.states = DOMAIN watched' /\ \A p \in DOMAIN watched' : told'.states[p] = watched'[p].snapshot
  BY <1>1, <1>2 DEF TrackerOK
<1>4. watchedPcb' # -1 => told'.pcb = watchedPcb'
  BY <1>1, <1>2 DEF TrackerOK
<1>5. /\ watchedPcb' \in -1..1 /\ DOMAIN watched' \subseteq Pcl
      /\ (\E p \in DOMAIN watched' : watched'[p].context) => watchedPcb' # -1
  BY <1>1, Zenon DEF TrackerOK
<1> QED BY <1>3, <1>4, <1>5 DEF TrackerOK

LEMMA EditsAre ==
    ASSUME pcl \in [Pcl -> PclType], records \in 0..1, (\E p \in Pcl : EditsPcl(p)) \/ PlayRecord
    PROVE  pcl' \in [Pcl -> PclType] /\ records' \in 0..1
<1>1. CASE PlayRecord
  BY <1>1 DEF PlayRecord
<1>2. ASSUME NEW p \in Pcl, EditsPcl(p) PROVE pcl' \in [Pcl -> PclType] /\ records' \in 0..1
  <2>1. pcl[p] \in PclType
    OBVIOUS
  <2> DEFINE e == pcl[p]
  <2>2. CASE LinkPcl(p)
    BY <2>2 DEF LinkPcl
  <2>3. ASSUME NEW value \in PclType, EditPcl(p, value) PROVE pcl' \in [Pcl -> PclType] /\ records' \in 0..1
    BY <2>3 DEF EditPcl
  <2>4. CASE Advance(p)
    <3>1. e.count \in Nat /\ RealTime \in Nat
      BY <2>1, ProvenanceAssumption DEF PclType
    <3>2. [e EXCEPT !.count = @ + RealTime] \in PclType
      BY <2>1, <3>1 DEF PclType
    <3> QED BY <2>3, <2>4, <3>2 DEF Advance
  <2>5. CASE Fill(p)
    <3>1. [e EXCEPT !.full = TRUE] \in PclType
      BY <2>1 DEF PclType
    <3> QED BY <2>3, <2>5, <3>1 DEF Fill
  <2>6. CASE Release(p)
    <3>1. [e EXCEPT !.full = FALSE, !.count = 0] \in PclType
      BY <2>1 DEF PclType
    <3> QED BY <2>3, <2>6, <3>1 DEF Release
  <2>7. ASSUME NEW next \in Pcl \cup {Nil}, Relink(p, next) PROVE pcl' \in [Pcl -> PclType] /\ records' \in 0..1
    <3>1. [e EXCEPT !.next = next] \in PclType
      BY <2>1 DEF PclType
    <3> QED BY <2>3, <2>7, <3>1 DEF Relink
  <2>8. ASSUME NEW b \in Buffers, Rebase(p, b) PROVE pcl' \in [Pcl -> PclType] /\ records' \in 0..1
    <3>1. [e EXCEPT !.buffer = b] \in PclType
      BY <2>1 DEF PclType
    <3> QED BY <2>3, <2>8, <3>1 DEF Rebase
  <2> QED BY <1>2, <2>2, <2>4, <2>5, <2>6, <2>7, <2>8 DEF EditsPcl
<1> QED BY <1>1, <1>2

LEMMA SampleTracks ==
    ASSUME CaptureOK, TrackerOK, SampleDmaAndPcl
    PROVE  TrackerOK'
<1> DEFINE sectors == SectorsOf(transfers)
           before == Sampled(watched)
           after == IF sectors = {} THEN before ELSE Observed(before, CHOOSE d \in sectors : TRUE)
           pcbKnown == watchedPcb # -1 \/ \E p \in DOMAIN after : after[p].context
           changed(p) == p \notin DOMAIN watched \/ watched[p].snapshot # after[p].snapshot
           states == [p \in DOMAIN after |-> IF changed(p) THEN after[p].snapshot ELSE told.states[p]]
           risks == IF sectors = {} THEN [p \in DOMAIN after |-> 0]
                    ELSE Risks(before, after, CHOOSE d \in sectors : TRUE)
<1>1. /\ watched' = after /\ watchedPcb' = (IF pcbKnown THEN records ELSE -1)
      /\ told'.states = states /\ told'.risks = risks /\ told'.dma = sectors
      /\ told'.pcb = (IF watchedPcb' # watchedPcb THEN records ELSE told.pcb)
      /\ accesses' = 0 /\ pcl' = pcl /\ records' = records
  BY DEF SampleDmaAndPcl, SectorsOf, guestVars
<1>2. /\ pcl \in [Pcl -> PclType] /\ records \in 0..1 /\ watchedPcb \in -1..1
      /\ DOMAIN watched \subseteq Pcl /\ DOMAIN told.states = DOMAIN watched
      /\ \A p \in DOMAIN watched : told.states[p] = watched[p].snapshot
      /\ watchedPcb # -1 => told.pcb = watchedPcb
  BY DEF TrackerOK
<1>3. Current(before) /\ DOMAIN before = DOMAIN watched
  BY <1>2, SampledIs
<1>4. sectors = {} \/ \E d : sectors = {d}
  BY SectorsAre DEF CaptureOK, TransfersOK
<1> HIDE DEF sectors, before
<1>5. /\ Current(after) /\ DOMAIN risks = DOMAIN after
      /\ \A p \in DOMAIN after : risks[p] = Cardinality(OverwritesOf(p, sectors))
  <2>1. CASE sectors = {}
    <3>1. \A p \in DOMAIN after : OverwritesOf(p, sectors) = {}
      BY <2>1 DEF OverwritesOf
    <3>2. Cardinality({}) = 0
      BY FS_EmptySet
    <3> QED BY <1>3, <2>1, <3>1, <3>2
  <2>2. ASSUME NEW d, sectors = {d}
        PROVE  /\ Current(after) /\ DOMAIN risks = DOMAIN after
               /\ \A p \in DOMAIN after : risks[p] = Cardinality(OverwritesOf(p, sectors))
    <3>1. after = Observed(before, d) /\ risks = Risks(before, after, d)
      BY <2>2
    <3> HIDE DEF after, risks
    <3>2. Current(after) /\ MoreWatched(before, after)
      BY <1>2, <1>3, <3>1, ObservedIs
    <3>3. /\ DOMAIN Risks(before, after, d) = DOMAIN after
          /\ \A p \in DOMAIN after : Risks(before, after, d)[p] = Cardinality(OverwritesOf(p, {d}))
      BY <1>3, <3>2, RisksAre
    <3> QED BY <2>2, <3>1, <3>2, <3>3
  <2> QED BY <1>4, <2>1, <2>2
<1> HIDE DEF after, risks
<1>6. DOMAIN states = DOMAIN after /\ \A p \in DOMAIN after : states[p] = after[p].snapshot
  BY <1>2
<1> HIDE DEF states
<1>7. /\ watchedPcb' \in -1..1
      /\ (\E p \in DOMAIN after : after[p].context) => watchedPcb' # -1
      /\ watchedPcb' # -1 => told'.pcb = watchedPcb' /\ watchedPcb' = records
  BY <1>1, <1>2
<1>8. DOMAIN watched' \subseteq Pcl /\ Current(watched)'
  BY <1>1, <1>5 DEF Current
<1>9. DOMAIN told'.states = DOMAIN watched' /\ \A p \in DOMAIN watched' : told'.states[p] = watched'[p].snapshot
  BY <1>1, <1>6
<1>10. \A p \in DOMAIN watched' : told'.risks[p] = Cardinality(OverwritesOf(p, told.dma)')
  BY <1>1, <1>5 DEF OverwritesOf
<1>11. (\E p \in DOMAIN watched' : watched'[p].context) => watchedPcb' # -1
  BY <1>1, <1>7
<1>12. pcl' \in [Pcl -> PclType] /\ records' \in 0..1
  BY <1>1, <1>2
<1>13. watchedPcb' # -1 => told'.pcb = watchedPcb' /\ (accesses' = 0 => watchedPcb' = records')
  BY <1>1, <1>7
<1> QED BY <1>7, <1>8, <1>9, <1>10, <1>11, <1>12, <1>13 DEF TrackerOK

NoTracker == watched = <<>> /\ watchedPcb = -1 /\ told = Silent /\ accesses = 0

LEMMA NoTrackerIs ==
    pcl \in [Pcl -> PclType] /\ records \in 0..1 /\ NoTracker => TrackerOK
<1>1. DOMAIN <<>> = {} /\ -1 \in -1..1
  OBVIOUS
<1>2. Silent.states = <<>>
  BY DEF Silent
<1> QED BY <1>1, <1>2 DEF NoTracker, TrackerOK, Current

LEMMA TrackerStays ==
    ASSUME CaptureOK, TrackerOK, [ProvenanceNext]_provenanceVars
    PROVE  TrackerOK'
<1>1. DOMAIN told = ToldFields /\ accesses \in Nat
  BY ProvenanceAssumption DEF CaptureOK
<1>2. pcl \in [Pcl -> PclType] /\ records \in 0..1
  BY DEF TrackerOK
<1>3. ASSUME UNCHANGED <<guestVars, trackerVars>>, SameTold(told, told'), accesses' = accesses + 1
      PROVE  TrackerOK'
  <2>1. pcl' = pcl /\ records' = records
    BY <1>3 DEF guestVars
  <2>2. accesses' # 0
    BY <1>1, <1>3
  <2> QED BY <1>2, <1>3, <2>1, <2>2, AccessTracks
<1>4. ASSUME NEW at \in Memory, NEW n \in Payload, CdicDma(at, n) PROVE TrackerOK'
  BY <1>3, <1>4 DEF CdicDma, AnotherAccess, SameTold
<1>5. ASSUME NEW addr \in Memory, GuestWrite(addr) PROVE TrackerOK'
  <2>1. \E k : told' = [told EXCEPT !.bytes = k]
    BY <1>5 DEF GuestWrite
  <2>2. SameTold(told, told')
    BY <1>1, <2>1 DEF ToldFields, SameTold
  <2> QED BY <1>3, <1>5, <2>2 DEF GuestWrite, AnotherAccess
<1>6. ASSUME FeedWord PROVE TrackerOK'
  <2>1. \E k : told' = [told EXCEPT !.words = k]
    BY <1>6 DEF FeedWord
  <2>2. SameTold(told, told')
    BY <1>1, <2>1 DEF ToldFields, SameTold
  <2> QED BY <1>3, <1>6, <2>2 DEF FeedWord, AnotherAccess
<1>7. ASSUME FindInactive PROVE TrackerOK'
  BY <1>3, <1>7 DEF FindInactive, AnotherAccess, SameTold
<1>8. ASSUME NEW at \in Memory, NEW left \in Nat, WriteDma1(at, left) PROVE TrackerOK'
  BY <1>3, <1>8 DEF WriteDma1, AnotherAccess, SameTold
<1>9. ASSUME NEW t \in Decoders, Retarget(t) PROVE TrackerOK'
  BY <1>3, <1>9 DEF Retarget, AnotherAccess, SameTold
<1>10. ASSUME (\E p \in Pcl : EditsPcl(p)) \/ PlayRecord PROVE TrackerOK'
  <2>1. UNCHANGED <<trackerVars, told>> /\ accesses' = 1
    BY <1>10 DEF EditsPcl, PlayRecord, Advance, Fill, Release, LinkPcl, Relink, Rebase, EditPcl
  <2>2. pcl' \in [Pcl -> PclType] /\ records' \in 0..1
    BY <1>2, <1>10, EditsAre
  <2> QED BY <2>1, <2>2, AccessTracks DEF SameTold
<1>11. ASSUME ResetDiagnostics PROVE TrackerOK'
  <2>1. NoTracker' /\ pcl' = pcl /\ records' = records
    BY <1>11 DEF ResetDiagnostics, NoTracker, guestVars
  <2>2. (pcl \in [Pcl -> PclType] /\ records \in 0..1 /\ NoTracker)' => TrackerOK'
    BY NoTrackerIs, PTL
  <2> QED BY <1>2, <2>1, <2>2
<1>12. ASSUME UNCHANGED provenanceVars PROVE TrackerOK'
  <2>1. /\ pcl' = pcl /\ records' = records /\ watched' = watched /\ watchedPcb' = watchedPcb
        /\ told' = told /\ accesses' = accesses
    BY <1>12 DEF provenanceVars, guestVars, trackerVars
  <2> QED BY <2>1 DEF TrackerOK, Current, OverwritesOf, RangeContains
<1>13. \/ \E at \in Memory, n \in Payload : CdicDma(at, n)
       \/ \E addr \in Memory : GuestWrite(addr)
       \/ FeedWord \/ FindInactive
       \/ \E at \in Memory, left \in Nat : WriteDma1(at, left)
       \/ \E t \in Decoders : Retarget(t)
       \/ (\E p \in Pcl : EditsPcl(p)) \/ PlayRecord
       \/ SampleDmaAndPcl \/ ResetDiagnostics
       \/ UNCHANGED provenanceVars
  BY Zenon DEF ProvenanceNext, EditsPcl
<1> QED BY <1>4, <1>5, <1>6, <1>7, <1>8, <1>9, <1>10, <1>11, <1>12, <1>13, SampleTracks

-----------------------------------------------------------------------------
LEMMA ProvenanceStarts ==
    ASSUME ProvenanceInit PROVE CaptureOK /\ TrackerOK
<1>1. NoCapture /\ NoTracker /\ records \in 0..1
  BY DEF ProvenanceInit, NoCapture, NoTracker
<1>2. pcl \in [Pcl -> PclType]
  <2> DEFINE Unplayed == [full : {FALSE}, count : {0}, next : {Nil}, buffer : Buffers]
  <2>1. pcl \in [Pcl -> Unplayed]
    BY DEF ProvenanceInit
  <2>2. ASSUME NEW e \in Unplayed PROVE e \in PclType
    <3>1. FALSE \in BOOLEAN /\ 0 \in Nat /\ Nil \in Pcl \cup {Nil}
      OBVIOUS
    <3> QED BY <3>1 DEF PclType
  <2> HIDE DEF Unplayed
  <2> QED BY <2>1, <2>2
<1> QED BY <1>1, <1>2, NoCaptureIs, NoTrackerIs

\* What was found of the parts is what the invariant says.
LEMMA ProvenanceFollows ==
    ASSUME CaptureOK, TrackerOK PROVE ProvenanceInv
<1>1. ProvenanceTypeOK
  BY DEF CaptureOK, TrackerOK, ProvenanceTypeOK, FlightType
<1>2. RegionsDisjoint
  BY DEF CaptureOK, RegionsOK, Disjoint, RegionsDisjoint
<1>3. NothingLost
  <2>1. WriteSizes = Written(writes) /\ FedSizes = Fed(transfers)
    BY DEF WriteSizes, FedSizes, Written, Fed
  <2>2. WithinSource(writes)
    BY DEF CaptureOK, WritesOK
  <2> QED BY <2>1, <2>2 DEF CaptureOK, NothingLost, WithinSource
<1>4. TrackerCurrent
  BY DEF TrackerOK, TrackerCurrent, Current
<1>5. OverwritesTold
  BY DEF TrackerOK, OverwritesTold, OverwritesOf
<1> QED BY <1>1, <1>2, <1>3, <1>4, <1>5 DEF ProvenanceInv

\* In every state the watched sectors are apart, no changed byte and no word of
\* the cartridge is lost, and after each instruction what was told of PCLs, the
\* PCB and overwritten buffers is as it is in memory (machine.rs, diagnostics.rs).
THEOREM ProvenanceCorrect == ProvenanceSpec => []ProvenanceInv
<1>1. ProvenanceInit => CaptureOK /\ TrackerOK
  BY ProvenanceStarts
<1>2. CaptureOK /\ TrackerOK /\ [ProvenanceNext]_provenanceVars => (CaptureOK /\ TrackerOK)'
  BY CaptureStays, TrackerStays
<1>3. CaptureOK /\ TrackerOK => ProvenanceInv
  BY ProvenanceFollows
<1> QED BY <1>1, <1>2, <1>3, PTL DEF ProvenanceSpec

\* The diagnostics record what happens, and lose nothing but the events the ring
\* gives up (machine.rs, diagnostics.rs).
THEOREM DiagnosticsCorrect == RingSpec /\ ProvenanceSpec => []DiagnosticsInv
<1>1. RingInv /\ ProvenanceInv => DiagnosticsInv
  BY DEF DiagnosticsInv
<1> QED BY <1>1, RingCorrect, ProvenanceCorrect, PTL
=============================================================================
