------------------------------ MODULE MCBoard ------------------------------
(***************************************************************************)
(* Instances of the processor, its address space and the video controller  *)
(* of the board, of the keyboard, of the machine's diagnostics and of the  *)
(* disc images. What the board composes of them is in Machine; a scenario  *)
(* lets one move and leaves the others where they start.                   *)
(***************************************************************************)
EXTENDS Mcd212, Cpu, Alu, Operands, MemoryMap, Keyboard, Diagnostics, DiscImages, TLC

VARIABLES
    scenario,
    turns       \* how many of its bounded steps were taken

Scenarios == {"video", "cpu", "alu", "operands", "bus", "keyboard", "ring", "transfers", "pcls",
              "layout", "inventory"}

-----------------------------------------------------------------------------
\* Control programs of the video controller: mattes of both paths in the ICA
\* and a relinked DCA; modes, cursor and display parameters, with a DCA that
\* relinks itself; a path that never stops. One slot is four commands.
Control(op) == [op |-> op]
Reload(op, at) == [op |-> op, addr |-> at]
SetMatte(i, x, op, mf, wf) ==
    [op |-> "register", reg |-> "matte", index |-> i,
     control |-> [x |-> x, op |-> op, mf |-> mf, wf |-> wf]]

Relinked(d) ==
    0 :> Reload("4x", 2) @@ 1 :> Reload("4x", 5) @@ 2 :> Reload("reload dcp", d)
    @@ 3 :> Control("interrupt") @@ 4 :> Reload("5x", 1) @@ 5 :> Reload("reload dcp", d)
    @@ 6 :> Reload("5x", 2)

Mattes ==
    0 :> (8 :> SetMatte(0, 0, 12, 0, 5) @@ 12 :> SetMatte(0, 1, 8, 0, 5) @@ 13 :> Control("stop")
          @@ Relinked(8))
    @@ 1 :> (8 :> SetMatte(0, 2, 4, 1, 3) @@ 9 :> [op |-> "register", reg |-> "weight", wf |-> 2]
             @@ Relinked(8))

Modes ==
    0 :> (0 :> [op |-> "register", reg |-> "icm", nm |-> TRUE, mode |-> (0 :> "clut8" @@ 1 :> "rgb555")]
          @@ 1 :> [op |-> "register", reg |-> "transparency", hidden |-> (0 :> FALSE @@ 1 :> FALSE)]
          @@ 2 :> [op |-> "register", reg |-> "cursor", cursor |-> [on |-> 1, off |-> 1]]
          @@ 3 :> Reload("5x", 3) @@ 4 :> Reload("stop dcp", 8))
    @@ 1 :> (0 :> Reload("stop dcp", 8) @@ 8 :> Control("nop") @@ 9 :> Reload("stop dcp", 16)
             @@ 16 :> Reload("4x", 3) @@ 17 :> [op |-> "params", bp |-> 1, ft |-> "rle"]
             @@ 20 :> Control("interrupt") @@ 21 :> Reload("stop dcp", 8))

Endless == 0 :> (0 :> Reload("4x", 0) @@ 1 :> Reload("4x", 0)) @@ 1 :> (0 :> Reload("4x", 0) @@ 1 :> Reload("4x", 0))

MCImage == {Mattes, Modes, Endless}

DisplayOff == [de |-> FALSE, cf |-> FALSE, fd |-> FALSE, sm |-> FALSE, ica |-> FALSE, dca |-> FALSE]
Displaying == [DisplayOff EXCEPT !.de = TRUE, !.ica = TRUE, !.dca = TRUE]
Dcr0 == {DisplayOff, Displaying, [Displaying EXCEPT !.sm = TRUE, !.cf = TRUE]}
SecondPath == [DisplayOff EXCEPT !.ica = TRUE, !.dca = TRUE]

\* Bound: three writes of the guest. The first two start the display.
GuestWritesVideo ==
    \/ turns = 0 /\ WriteDcr(1, SecondPath)
    \/ turns = 1 /\ \E v \in Dcr0 : v.de /\ WriteDcr(0, v)
    \/ /\ turns = 2
       /\ \/ \E di \in BOOLEAN, st \in BOOLEAN : (di \/ st) /\ WriteCsr(0, di, st)
          \/ WriteCsr(1, TRUE, FALSE)
          \/ \E v \in Dcr0 : WriteDcr(0, v)
          \/ WriteDcr(1, [SecondPath EXCEPT !.dca = FALSE])
          \/ \E i \in Image : i # memory /\ Rewrite(i)
          \/ WritePointer(0, "vsr", 1) \/ WritePointer(1, "dca", 12)
          \/ ResetMcd

VideoMoves ==
    \/ (Line \/ (turns > 0 /\ ReadCsr2)) /\ UNCHANGED turns
    \/ GuestWritesVideo /\ turns' = turns + 1

-----------------------------------------------------------------------------
\* Main: as supervisor under trace, then as user under trace, then without.
Coded(op, n) == [op |-> op, words |-> n, fetched |-> n]
ToSr(op, t, s, level) == Coded(op, 2) @@ [sr |-> [t |-> t, s |-> s, ipl |-> level]]

MainProgram ==
    0 :> Coded("move usp", 1) @@ 1 :> ToSr("write sr", TRUE, TRUE, 2)
    @@ 3 :> Coded("plain", 2) @@ 5 :> Coded("move usp", 1)
    @@ 6 :> ([fetched |-> 1] @@ ToSr("stop", TRUE, TRUE, 3)) @@ 8 :> ToSr("write sr", TRUE, FALSE, 2)
    @@ 10 :> Coded("access", 3) @@ 13 :> Coded("trap", 1)
    @@ 14 :> Coded("illegal", 1) @@ 15 :> Coded("rte", 1)
    @@ 16 :> (Coded("branch", 2) @@ [to |-> 10])

Programs == {"main", "bus error", "interrupt", "illegal", "privilege", "trap", "trace"}
MCCode ==
    [p \in Programs |->
        CASE p = "main" -> MainProgram
          [] p \in {"bus error", "illegal", "privilege"} -> 0 :> Coded("edit", 2) @@ 2 :> Coded("rte", 1)
          [] p = "interrupt" -> 0 :> Coded("access", 2) @@ 2 :> Coded("rte", 1)
          [] OTHER -> 0 :> Coded("rte", 1)]

MCDecimal == {16 * t + u : t \in {0, 1, 4, 5, 9}, u \in {0, 1, 5, 9}}
MCWords == {<<0, 1, 1, 0>>, <<1, 0, 0, 1>>}
MCOrdinary == <<"Frame">>

-----------------------------------------------------------------------------
\* Boards of 20 pages of four bytes: RAM that ends with a page and in one, with
\* entries over one another, a hole behind RAM, the cartridge over no entry.
Entry(device, base, size) == [device |-> device, base |-> base, size |-> size]
MonoBoard ==
    <<Entry("ram", 0, 8), Entry("ram", 16, 8), Entry("cdic", 32, 16), Entry("slave", 36, 8),
      Entry("null", 40, 4), Entry("nvram", 44, 8), Entry("rom", 52, 8), Entry("vdsc", 62, 2)>>
OverlappingBoard ==
    <<Entry("ram", 0, 6), Entry("ram", 14, 8), Entry("slave", 32, 4), Entry("nvram", 44, 8),
      Entry("rom", 40, 24), Entry("ram", 52, 4), Entry("vdsc", 61, 3), Entry("ram", 70, 6)>>
MCWirings == {MonoBoard, OverlappingBoard}
MCFirmware == [a \in Bus |-> 1]
MCHoles == 8..11 \cup 64..67
MCWindow == 72..75

\* Both ends of entries, pages and holes, the mirror of the space and what is
\* on the chip. Bound: three moves, the third the host's.
Touched == {1, 7, 21, 37, 44, 53, 61, 72, 86, 160}
BusMoves ==
    \/ /\ turns < 3 /\ turns' = turns + 1
       /\ \/ turns < 2 /\ \E addr \in Touched :
                \/ WriteByte(addr, 2) \/ WriteWord(addr, 1, 2)
                \/ turns = 0 /\ (ReadBus(addr, 1) \/ ReadBus(addr, 2))
          \/ ResetBus \/ PowerCycleBus \/ AttachCartridge \/ DetachCartridge
          \/ \E from \in {4, 5} : PatchRam(from, 2, 2)
    \/ TakeBusError /\ UNCHANGED turns

-----------------------------------------------------------------------------
\* DMA of both controllers with the guest's writes, and the lists of a player.
TransferMoves ==
    \/ \E at \in {0, 1, 2}, n \in Payload : CdicDma(at, n)
    \/ \E a \in 1..2 : GuestWrite(a)
    \/ FeedWord \/ FindInactive
    \/ \E at \in {0, 2}, n \in {0, 2} : WriteDma1(at, n)
    \/ \E t \in Decoders : Retarget(t)

\* Bound: of the rebased PCLs one, to one other buffer; the DMA to one place.
PclMoves ==
    \/ \E p \in Pcl : Advance(p) \/ Fill(p) \/ Release(p) \/ Relink(p, 3 - p)
    \/ Rebase(1, 2)
    \/ LinkPcl(1)
    \/ PlayRecord
    \/ CdicDma(2, 2)

-----------------------------------------------------------------------------
\* Discs: rings and gaps of directories under either label or both, and the volumes of
\* a Video CD and a Photo CD with all that can be wrong with their lists.
File(n) == [name |-> n, dir |-> FALSE, lba |-> 0]
Directory(l) == [name |-> "DIR", dir |-> TRUE, lba |-> l]
Listings ==
    {<<>>, <<Directory(1)>>, <<Directory(2), Directory(3)>>, <<File("A"), Directory(3)>>,
     <<Directory(2)>>, <<File("A"), File("B")>>}

Volume1(dirs) == [rooted |-> TRUE, root |-> 1, dirs |-> dirs]
Unrooted(dirs) == [rooted |-> FALSE, root |-> 0, dirs |-> dirs]
EmptyDisc ==
    [volumes |-> ("iso" :> Volume1(1 :> <<>>)), bridge |-> FALSE,
     sectors |-> ("A" :> <<"plain", "mpeg", "unreadable">> @@ "B" :> <<"plain">>),
     lot |-> <<>>, psd |-> <<>>, multiplier |-> 1, maximum |-> 0]

DirectoryDiscs ==
    {[EmptyDisc EXCEPT !.volumes = v] :
        v \in UNION {{l :> Volume1(d), l :> Unrooted(d)} :
            l \in {"iso", "cdi"}, d \in [{1, 2, 3} -> Listings] \cup [{1, 3} -> Listings]}}

\* The root of an ISO volume may be the sector 0. A directory found behind a
\* directory before it is found at its own depth.
Detour ==
    1 :> <<Directory(2), Directory(3)>> @@ 2 :> <<Directory(3)>>
    @@ 3 :> <<Directory(4)>> @@ 4 :> <<File("A")>>
DetourDiscs ==
    {[EmptyDisc EXCEPT !.volumes = v] :
        v \in {"iso" :> Volume1(Detour), "cdi" :> Volume1(Detour),
               "iso" :> [Volume1(Detour @@ 0 :> <<Directory(4), File("B")>>) EXCEPT !.root = 0]}}

\* Discs of both labels, of one tree or of two, and with either root missing.
SharedDiscs ==
    {[EmptyDisc EXCEPT !.volumes = "cdi" :> c @@ "iso" :> i] :
        c \in {Volume1(1 :> <<Directory(2)>> @@ 2 :> <<File("A")>>), Unrooted(1 :> <<>> @@ 2 :> <<>>),
               Volume1(1 :> <<Directory(3), File("A")>> @@ 2 :> <<>>)},
        i \in {Volume1(1 :> <<Directory(2)>> @@ 2 :> <<File("A")>>), Unrooted(1 :> <<>> @@ 2 :> <<>>),
               Volume1(1 :> <<Directory(3), File("B")>> @@ 2 :> <<>>)}}

VideoCdFiles == <<File("MPEGAV/AVSEQ01.DAT"), File("VCD/INFO.VCD"), File("VCD/ENTRIES.VCD")>>
PhotoCdFiles == <<File("PHOTO_CD/INFO.PCD"), File("PHOTO_CD/IMAGES")>>
Contents == VideoCdFiles \o PhotoCdFiles

ContentDiscs ==
    {[EmptyDisc EXCEPT !.volumes = [l \in labels |-> Volume1(1 :> f)], !.bridge = b,
        !.sectors = [n \in {Contents[i].name : i \in DOMAIN Contents} |->
                        IF n = "MPEGAV/AVSEQ01.DAT" THEN <<"plain", "mpeg">> ELSE <<"plain">>],
        !.lot = lot, !.maximum = m, !.multiplier = k,
        !.psd = (0 :> [kind |-> "play", id |-> 1] @@ 2 :> [kind |-> "end", id |-> 0]
                 @@ 8 :> [kind |-> "none", id |-> 0])] :
        labels \in {{"iso"}, {"cdi"}, {}, {"cdi", "iso"}}, b \in BOOLEAN,
        f \in {VideoCdFiles, PhotoCdFiles, Contents, <<>>}, k \in Multiplier,
        lot \in {<<>>, <<0, 99, 2>>, <<0, 8, 1, 0>>, <<5, 0, 99, 1>>}, m \in {0, 3}}

AnyDisc == [EmptyDisc EXCEPT !.volumes = <<>>]
MCDiscs == DirectoryDiscs \cup DetourDiscs \cup SharedDiscs \cup ContentDiscs \cup {AnyDisc}

-----------------------------------------------------------------------------
mcvars == <<mcdVars, cpuVars, aluVars, operandVars, mapVars, keyboardVars, ringVars, provenanceVars,
            layoutVars, inventoryVars, scenario, turns>>

BoardInit ==
    /\ McdInit /\ CpuInit /\ AluInit /\ OperandsInit /\ MapInit /\ KeyboardInit /\ RingInit
    /\ ProvenanceInit /\ LayoutInit /\ InventoryInit
    /\ pcl[1].buffer = 6 /\ pcl[2].buffer = 2
    /\ scenario \in Scenarios /\ turns = 0
    \* What a scenario does not move is the same in all its states.
    /\ scenario # "video" => memory = Mattes
    /\ scenario # "inventory" => cd = AnyDisc
    /\ scenario # "bus" => wiring = MonoBoard

\* Bound: five instructions of the operand scenario.
BoardNext ==
    /\ \/ /\ scenario = "video" /\ VideoMoves
          /\ UNCHANGED <<mapVars, cpuVars, aluVars, operandVars, keyboardVars, ringVars, provenanceVars, layoutVars, inventoryVars>>
       \/ /\ scenario = "cpu" /\ CpuNext /\ UNCHANGED turns
          /\ UNCHANGED <<mapVars, mcdVars, aluVars, operandVars, keyboardVars, ringVars, provenanceVars, layoutVars, inventoryVars>>
       \/ /\ scenario = "alu" /\ AluNext /\ UNCHANGED turns
          /\ UNCHANGED <<mapVars, mcdVars, cpuVars, operandVars, keyboardVars, ringVars, provenanceVars, layoutVars, inventoryVars>>
       \/ /\ scenario = "operands" /\ turns < 5 /\ OperandsNext /\ turns' = turns + 1
          /\ UNCHANGED <<mapVars, mcdVars, cpuVars, aluVars, keyboardVars, ringVars, provenanceVars, layoutVars, inventoryVars>>
       \/ /\ scenario = "bus" /\ BusMoves
          /\ UNCHANGED <<mcdVars, cpuVars, aluVars, operandVars, keyboardVars, ringVars, provenanceVars, layoutVars, inventoryVars>>
       \/ /\ scenario = "keyboard" /\ KeyboardNext /\ UNCHANGED turns
          /\ UNCHANGED <<mapVars, mcdVars, cpuVars, aluVars, operandVars, ringVars, provenanceVars, layoutVars, inventoryVars>>
       \/ /\ scenario = "ring" /\ RingNext /\ UNCHANGED turns
          /\ UNCHANGED <<mapVars, mcdVars, cpuVars, aluVars, operandVars, keyboardVars, provenanceVars, layoutVars, inventoryVars>>
       \/ /\ \/ scenario = "transfers" /\ (TransferMoves \/ SampleDmaAndPcl \/ ResetDiagnostics)
             \/ scenario = "pcls" /\ (PclMoves \/ SampleDmaAndPcl \/ ResetDiagnostics)
          /\ UNCHANGED <<mapVars, mcdVars, cpuVars, aluVars, operandVars, keyboardVars, ringVars, layoutVars, inventoryVars, turns>>
       \/ /\ scenario = "layout" /\ LayoutNext /\ UNCHANGED turns
          /\ UNCHANGED <<mapVars, mcdVars, cpuVars, aluVars, operandVars, keyboardVars, ringVars, provenanceVars, inventoryVars>>
       \/ /\ scenario = "inventory" /\ (Inspect \/ InspectAgain(cd)) /\ UNCHANGED turns
          /\ UNCHANGED <<mapVars, mcdVars, cpuVars, aluVars, operandVars, keyboardVars, ringVars, provenanceVars, layoutVars>>
    /\ UNCHANGED scenario

BoardSpec == BoardInit /\ [][BoardNext]_mcvars
=============================================================================
