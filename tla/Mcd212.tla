------------------------------- MODULE Mcd212 -------------------------------
(***************************************************************************)
(* The MCD212 video controller (mcd212.rs): what happens at each display   *)
(* line. Two planes, paths 0 (A) and 1 (B), are driven by control programs *)
(* in their own memory: the image control area (ICA) is run once a field,  *)
(* one slot of the dynamic control area (DCA) for every line of picture.   *)
(* The programs and the guest write the same registers, the interrupt      *)
(* status feeds INT1, and the lines of two fields are woven into a picture.*)
(*                                                                         *)
(* An address counts commands (four bytes) and VSRs count display lines.   *)
(* Colours, cursor shapes and CLUT entries are left out.                   *)
(***************************************************************************)
EXTENDS Integers, FiniteSets

CONSTANTS
    IcaLines,       \* `geometry`: lines before the picture
    TotalLines,     \* `geometry`: lines of a field
    MaskLines,      \* 20: lines masked at either end in Compatibility Mode
    Pal,            \* the board's crystal
    Slot,           \* 16: commands between the starts of two DCA slots
    IcaMax,         \* commands an ICA program may execute
    MemoryTop,      \* addresses wrap here
    Wide, Narrow,   \* 768 and 720: the width of the picture
    BlinkUnit,      \* CURSOR_BLINK_FIELDS_PER_UNIT
    Image           \* the control programs the guest may leave in memory

Path == {0, 1}
Other(p) == 1 - p
MatteIndex == 0..7

ASSUME GeometryAssumption ==
    /\ {IcaLines, TotalLines, MaskLines, Slot, IcaMax, MemoryTop, Wide, Narrow, BlinkUnit} \subseteq Nat
    /\ 0 < IcaLines /\ IcaLines + 2 * MaskLines < TotalLines
    /\ 1 < Slot /\ 1 < MemoryTop /\ Narrow <= Wide /\ 0 < BlinkUnit

-----------------------------------------------------------------------------
(* What the guest and the programs may write.                              *)

PixelAddress == 0..(MemoryTop - 1)
Bits == [de : BOOLEAN, cf : BOOLEAN, fd : BOOLEAN, sm : BOOLEAN, ica : BOOLEAN, dca : BOOLEAN]
Matte == [x : Nat, op : 0..15, mf : Path, wf : Nat]
Cursor == [on : 0..7, off : 0..7]

Command ==
    [op : {"nop", "interrupt", "stop"}]
    \cup [op : {"reload dcp", "stop dcp", "4x", "5x"}, addr : PixelAddress]
    \cup [op : {"params"}, bp : {0, 1}, ft : STRING]
    \cup [op : {"register"}, reg : {"icm"}, nm : BOOLEAN, mode : [Path -> STRING]]
    \cup [op : {"register"}, reg : {"transparency"}, hidden : [Path -> BOOLEAN]]
    \cup [op : {"register"}, reg : {"cursor"}, cursor : Cursor]
    \cup [op : {"register"}, reg : {"weight"}, wf : Nat]
    \cup [op : {"register"}, reg : {"matte"}, index : MatteIndex, control : Matte]

\* A program is a command at some of the addresses.
ASSUME ImageAssumption ==
    \A i \in Image : \A p \in Path : \A a \in DOMAIN i[p] : i[p][a] \in Command

VARIABLES
    mcd,        \* the registers the guest, the programs and the display share
    memory,     \* the control programs: Path -> address -> command
    line,
    blink,      \* [time, active]: the blinking of the cursor
    rows,       \* `field_framebuffer`: the ICA entry of the field that drew a row
    shown,      \* `framebuffer`: the rows last published
    field       \* history of this field, see FieldStart

mcdVars == <<mcd, memory, line, blink, rows, shown, field>>

\* What a row may hold other than an ICA entry.
Black == 2
Undrawn == 3

-----------------------------------------------------------------------------
(* Geometry.                                                               *)

Compatibility(m) == m.st
Width(m) == IF m.dcr[0].cf /\ ~Compatibility(m) THEN Wide ELSE Narrow
Masked(m) == Pal /\ Compatibility(m) /\ ~m.dcr[0].fd
Active == IcaLines..(TotalLines - 1)
Row == 0..(2 * (TotalLines - IcaLines) - 1)

DisplayFileLine(m, l) ==
    /\ l \in Active
    /\ Masked(m) => l \in (IcaLines + MaskLines)..(TotalLines - MaskLines - 1)

\* The rows one line fills: both, or in interlaced mode that of the field.
OutputRows(m, l) ==
    LET first == 2 * (l - IcaLines) IN
    IF m.dcr[0].sm THEN {first + m.pa} ELSE {first, first + 1}

-----------------------------------------------------------------------------
(* Interrupt status.                                                       *)

IntCause(m) == \E p \in Path : m.it[p] /\ ~m.di[p]
RefreshIntLine(m) == [m EXCEPT !.int = IntCause(m)]
RaiseIt(m, p) == RefreshIntLine([m EXCEPT !.it[p] = TRUE])

-----------------------------------------------------------------------------
(* Mattes. A control acts where the scan reaches its x: op 0 ends the list, *)
(* bit 3 sets a flag to bit 0, bit 2 sets the weight of plane bit 1. The   *)
(* controls are one list of eight, or with NM two lists of four.           *)

ListEnd(nm, k) == IF nm THEN 4 * (k + 1) ELSE 8
Lists(nm) == IF nm THEN {0, 1} ELSE {0}

Matched(s, nm, matte, x, k) ==
    k \in Lists(nm) /\ s.at[k] < ListEnd(nm, k) /\ matte[s.at[k]].x = x

Apply(s, nm, matte, x, k) ==
    IF ~Matched(s, nm, matte, x, k) THEN s
    ELSE LET c == matte[s.at[k]]
             flag == IF nm THEN k ELSE c.mf
             plane == (c.op \div 2) % 2
         IN [at |-> [s.at EXCEPT ![k] = IF c.op = 0 THEN 8 ELSE @ + 1],
             wf |-> IF c.op \in {4, 6} \cup 12..15 THEN [s.wf EXCEPT ![plane] = c.wf] ELSE s.wf,
             mf |-> IF c.op \in {8, 9} \cup 12..15 THEN [s.mf EXCEPT ![flag] = c.op % 2 = 1]
                    ELSE s.mf]

\* `update_matte_arrays`: the weights and flags at every x of the line.
Expand(m) ==
    LET scan[x \in -1..(Width(m) - 1)] ==
          IF x < 0 THEN [at |-> [k \in Path |-> 4 * k], wf |-> m.weight, mf |-> [f \in Path |-> FALSE]]
          ELSE Apply(Apply(scan[x - 1], m.nm, m.matte, x, 0), m.nm, m.matte, x, 1)
    IN [x \in 0..(Width(m) - 1) |-> [wf |-> scan[x].wf, mf |-> scan[x].mf]]

UpdateMatteArrays(m) ==
    LET new == Expand(m) IN
    [m EXCEPT !.spans = [x \in 0..(Wide - 1) |-> IF x < Width(m) THEN new[x] ELSE m.spans[x]]]

-----------------------------------------------------------------------------
(* Control programs. `s` is the state of one run: the registers `m`, the   *)
(* address, the commands executed, whether it stopped, and the matte       *)
(* registers it has written. `before` are those path A wrote in this phase.*)

\* Mutant: path B's write is not held back.
SetRegisterLastWins(s, p, c, before) ==
    CASE c.reg = "icm" -> IF p = 0 THEN [s EXCEPT !.m.nm = c.nm, !.m.mode = c.mode] ELSE s
      [] c.reg = "transparency" -> IF p = 0 THEN [s EXCEPT !.m.hidden = c.hidden] ELSE s
      [] c.reg = "cursor" -> IF p = 0 THEN [s EXCEPT !.m.cursor = c.cursor] ELSE s
      [] c.reg = "weight" -> [s EXCEPT !.m = UpdateMatteArrays([@ EXCEPT !.weight[p] = c.wf])]
      [] c.reg = "matte" ->
            [s EXCEPT !.m = UpdateMatteArrays([@ EXCEPT !.matte[c.index] = c.control]),
                      !.writes = @ \cup {c.index}]

SetRegister(s, p, c, before) ==
    CASE c.reg = "icm" -> IF p = 0 THEN [s EXCEPT !.m.nm = c.nm, !.m.mode = c.mode] ELSE s
      [] c.reg = "transparency" -> IF p = 0 THEN [s EXCEPT !.m.hidden = c.hidden] ELSE s
      [] c.reg = "cursor" -> IF p = 0 THEN [s EXCEPT !.m.cursor = c.cursor] ELSE s
      [] c.reg = "weight" -> [s EXCEPT !.m = UpdateMatteArrays([@ EXCEPT !.weight[p] = c.wf])]
      [] c.reg = "matte" ->
            IF p = 1 /\ c.index \in before THEN s
            ELSE [s EXCEPT !.m = UpdateMatteArrays([@ EXCEPT !.matte[c.index] = c.control]),
                           !.writes = @ \cup {c.index}]

\* The commands the two areas share.
Common(s, p, c, before) ==
    CASE c.op = "nop" -> s
      [] c.op = "interrupt" -> [s EXCEPT !.m = RaiseIt(@, p)]
      [] c.op = "params" -> [s EXCEPT !.m.cm[p] = c.bp = 1, !.m.ddr[p] = c.ft]
      [] c.op = "register" -> SetRegister(s, p, c, before)

Fetch(p, addr) == IF addr \in DOMAIN memory[p] THEN memory[p][addr] ELSE [op |-> "stop"]

IcaStep(s, p, before) ==
    LET c == Fetch(p, s.addr)
        t == [s EXCEPT !.addr = @ + 1]
    IN IF s.stopped THEN s
       ELSE CASE c.op = "stop" -> [t EXCEPT !.stopped = TRUE]
            [] c.op = "reload dcp" -> [t EXCEPT !.m.dcp[p] = c.addr]
            [] c.op = "stop dcp" -> [t EXCEPT !.m.dcp[p] = c.addr, !.stopped = TRUE]
            [] c.op = "4x" -> [t EXCEPT !.addr = c.addr]
            [] c.op = "5x" -> [t EXCEPT !.m.vsr[p] = c.addr, !.stopped = TRUE]
            [] OTHER -> Common(t, p, c, before)

\* The even field of an interlaced picture enters one command later.
IcaEntry(m) == IF m.dcr[0].sm /\ m.pa = 0 THEN 1 ELSE 0

ProcessIca(m, p, before) ==
    LET start == [m |-> m, addr |-> IcaEntry(m), stopped |-> FALSE, writes |-> {}]
        run[n \in 0..IcaMax] == IF n = 0 THEN start ELSE IcaStep(run[n - 1], p, before)
    IN run[IcaMax]

\* A link ends the slot and says where the next one is.
DcaStep(s, p, before) ==
    LET c == Fetch(p, s.addr)
        t == [s EXCEPT !.addr = @ + 1, !.count = @ + 1]
    IN IF s.stopped THEN s
       ELSE CASE c.op = "stop" -> [t EXCEPT !.stopped = TRUE]
            [] c.op = "reload dcp" -> t
            [] c.op = "stop dcp" -> [t EXCEPT !.m.dcp[p] = c.addr, !.m.dca[p] = c.addr,
                                              !.stopped = TRUE, !.linked = TRUE]
            [] c.op = "4x" -> [t EXCEPT !.m.vsr[p] = c.addr]
            [] c.op = "5x" -> [t EXCEPT !.m.vsr[p] = c.addr, !.stopped = TRUE]
            [] OTHER -> Common(t, p, c, before)

\* The budget is half a slot unless the fast crystal is selected.
FetchMax(m) == IF m.dcr[0].cf THEN Slot ELSE Slot \div 2

\* What a slot that was not linked leaves for the next line.
NextSlot(s) == (s.addr + Slot - s.count) % MemoryTop

ProcessDca(m, p, before) ==
    LET start == [m |-> m, addr |-> m.dca[p], count |-> 0, stopped |-> FALSE,
                  linked |-> FALSE, writes |-> {}]
        run[n \in 0..FetchMax(m)] == IF n = 0 THEN start ELSE DcaStep(run[n - 1], p, before)
        last == run[FetchMax(m)]
    IN IF last.linked THEN last ELSE [last EXCEPT !.m.dca[p] = NextSlot(last)]

IcaEnabled(m, p) == m.dcr[0].de /\ m.dcr[p].ica
DcaEnabled(m, p) == m.dcr[0].de /\ m.dcr[p].ica /\ m.dcr[p].dca

-----------------------------------------------------------------------------
(* A phase runs path A's program and then path B's. `ran` are the DCA      *)
(* slots the phase ran, for the history.                                   *)

FieldTable(m, p, before) ==
    IF ~IcaEnabled(m, p) THEN [m |-> m, ica |-> {}, dca |-> {}]
    ELSE LET i == ProcessIca(m, p, before.ica) IN
         IF ~DcaEnabled(i.m, p) THEN [m |-> i.m, ica |-> i.writes, dca |-> {}]
         ELSE LET d == ProcessDca([i.m EXCEPT !.dca[p] = i.m.dcp[p]], p, before.dca)
              IN [m |-> d.m, ica |-> i.writes, dca |-> d.writes]

NoWrites == [ica |-> {}, dca |-> {}]

FieldTables(m) ==
    LET a == FieldTable(m, 0, NoWrites) IN FieldTable(a.m, 1, a).m

AdvanceDca(m, l) == DisplayFileLine(m, l) /\ DisplayFileLine(m, l + 1)

LineTables(m, l) ==
    IF ~AdvanceDca(m, l) THEN m
    ELSE LET a == IF DcaEnabled(m, 0) THEN ProcessDca(m, 0, {}) ELSE [m |-> m, writes |-> {}]
         IN IF DcaEnabled(a.m, 1) THEN ProcessDca(a.m, 1, a.writes).m ELSE a.m

\* `process_vsr`: the pointer of a plane that shows its display file moves on
\* a line; an RGB picture of plane B takes the other half from plane A's file.
ProcessVsr(m, p) ==
    IF m.hidden[p] \/ m.mode[p] = "off" \/ m.vsr[p] = 0 THEN m
    ELSE [m EXCEPT !.vsr = [q \in Path |->
            IF q = p \/ (p = 1 /\ m.mode[1] = "rgb555") THEN (m.vsr[q] + 1) % MemoryTop ELSE m.vsr[q]]]

Rendered(m, l) == IF DisplayFileLine(m, l) THEN ProcessVsr(ProcessVsr(m, 0), 1) ELSE m

Blinked(m) ==
    LET time == blink.time + 1
        off == ~blink.active /\ time >= m.cursor.on * BlinkUnit
        t == IF off THEN 0 ELSE time
        hidden == blink.active \/ off
        on == hidden /\ t >= m.cursor.off * BlinkUnit
    IN [time |-> IF on THEN 0 ELSE t, active |-> hidden /\ ~on]

-----------------------------------------------------------------------------
Power(m) ==
    [m EXCEPT !.di = [p \in Path |-> FALSE], !.st = FALSE, !.da = FALSE, !.pa = 0,
       !.it = [p \in Path |-> FALSE], !.int = FALSE,
       !.dcr = [p \in Path |-> [de |-> FALSE, cf |-> FALSE, fd |-> FALSE, sm |-> FALSE,
                                ica |-> FALSE, dca |-> FALSE]],
       !.cm = [p \in Path |-> FALSE], !.ddr = [p \in Path |-> "bitmap"],
       !.vsr = [p \in Path |-> 0], !.dcp = [p \in Path |-> 0], !.dca = [p \in Path |-> 0],
       !.nm = FALSE, !.mode = [p \in Path |-> "off"], !.hidden = [p \in Path |-> TRUE],
       !.cursor = [on |-> 0, off |-> 0], !.weight = [p \in Path |-> 0],
       !.matte = [k \in MatteIndex |-> [x |-> 0, op |-> 0, mf |-> 0, wf |-> 0]],
       !.spans = [x \in 0..(Wide - 1) |-> [wf |-> [p \in Path |-> 0], mf |-> [p \in Path |-> FALSE]]]]

McdFields == {"di", "st", "da", "pa", "it", "int", "dcr", "cm", "ddr", "vsr", "dcp", "dca", "nm",
              "mode", "hidden", "cursor", "weight", "matte", "spans"}

\* History: the ICA entry this field took, whether no one wrote a register or
\* the memory since the field began, and for how many fields that has held.
FieldStart(steady) == [entry |-> IcaEntry(mcd'), calm |-> TRUE, steady |-> steady]
Disturbed == field' = [field EXCEPT !.calm = FALSE, !.steady = 0]

McdInit ==
    /\ mcd = Power([f \in McdFields |-> 0])
    /\ memory \in Image
    /\ line = 0
    /\ blink = [time |-> 0, active |-> FALSE]
    /\ rows = [r \in Row |-> Undrawn] /\ shown = rows
    /\ field = [entry |-> 0, calm |-> FALSE, steady |-> 0]
-----------------------------------------------------------------------------
(* One display line, the loop body of `tick_with_external`.                *)

FieldBegins ==
    /\ line = TotalLines - 1
    /\ line' = 0
    /\ mcd' = FieldTables([mcd EXCEPT !.da = FALSE])
    /\ blink' = Blinked(mcd')
    /\ field' = FieldStart(IF field.calm THEN 1 ELSE 0)
    /\ UNCHANGED <<memory, rows, shown>>

BlankLine ==
    /\ line + 1 < IcaLines
    /\ line' = line + 1
    /\ UNCHANGED <<mcd, memory, blink, rows, shown, field>>

\* The last line of the field publishes the picture and turns the parity.
ActiveLine ==
    LET l == line + 1
        last == l = TotalLines - 1
        drawn == IF DisplayFileLine(mcd, l) THEN field.entry ELSE Black
        m == [mcd EXCEPT !.da = TRUE]
        after == LineTables(IF m.dcr[0].de THEN Rendered(m, l) ELSE m, l)
    IN /\ l \in Active
       /\ line' = l
       /\ rows' = IF mcd.dcr[0].de
                  THEN [r \in Row |-> IF r \in OutputRows(mcd, l) THEN drawn ELSE rows[r]]
                  ELSE rows
       /\ shown' = IF last THEN rows' ELSE shown
       /\ mcd' = IF last THEN [after EXCEPT !.pa = 1 - @] ELSE after
       /\ UNCHANGED <<memory, blink, field>>

Line == FieldBegins \/ BlankLine \/ ActiveLine

-----------------------------------------------------------------------------
(* The guest.                                                              *)

\* A read of CSR2R takes the interrupt status away.
ReadCsr2 ==
    /\ mcd' = RefreshIntLine([mcd EXCEPT !.it = [p \in Path |-> FALSE]])
    /\ UNCHANGED <<memory, line, blink, rows, shown, field>>

WriteCsr(p, di, st) ==
    /\ mcd' = RefreshIntLine([mcd EXCEPT !.di[p] = di, !.st = IF p = 0 THEN st ELSE @])
    /\ Disturbed
    /\ UNCHANGED <<memory, line, blink, rows, shown>>

WriteDcr(p, value) ==
    /\ mcd' = [mcd EXCEPT !.dcr[p] = value]
    /\ Disturbed
    /\ UNCHANGED <<memory, line, blink, rows, shown>>

\* The pointers are writable too, until the programs load them again.
WritePointer(p, which, value) ==
    /\ mcd' = IF which = "vsr" THEN [mcd EXCEPT !.vsr[p] = value] ELSE [mcd EXCEPT !.dca[p] = value]
    /\ Disturbed
    /\ UNCHANGED <<memory, line, blink, rows, shown>>

\* The control programs are in the guest's RAM.
Rewrite(program) ==
    /\ memory' = program
    /\ Disturbed
    /\ UNCHANGED <<mcd, line, blink, rows, shown>>

ResetMcd ==
    /\ mcd' = Power(mcd)
    /\ line' = 0
    /\ blink' = [time |-> 0, active |-> FALSE]
    /\ rows' = [r \in Row |-> Undrawn] /\ shown' = rows'
    /\ field' = [entry |-> 0, calm |-> FALSE, steady |-> 0]
    /\ UNCHANGED memory

McdNext ==
    \/ Line \/ ReadCsr2 \/ ResetMcd
    \/ \E p \in Path, di \in BOOLEAN, st \in BOOLEAN : WriteCsr(p, di, st)
    \/ \E p \in Path, value \in Bits : WriteDcr(p, value)
    \/ \E p \in Path, which \in {"vsr", "dca"}, value \in PixelAddress : WritePointer(p, which, value)
    \/ \E program \in Image : Rewrite(program)

McdSpec == McdInit /\ [][McdNext]_mcdVars

-----------------------------------------------------------------------------
McdTypeOK ==
    /\ DOMAIN mcd = McdFields
    /\ mcd.dcr \in [Path -> Bits] /\ mcd.pa \in {0, 1}
    /\ \A q \in {mcd.vsr, mcd.dcp, mcd.dca} : q \in [Path -> 0..(MemoryTop - 1)]
    /\ mcd.matte \in [MatteIndex -> Matte]
    /\ \A x \in 0..(Wide - 1) : mcd.spans[x].mf \in [Path -> BOOLEAN]
    /\ line \in 0..(TotalLines - 1)
    /\ blink.active \in BOOLEAN /\ blink.time \in 0..(7 * BlinkUnit)
    /\ rows \in [Row -> {0, 1, Black, Undrawn}] /\ shown \in [Row -> {0, 1, Black, Undrawn}]

\* The pin is up exactly while a path's status is set and not masked,
\* whichever of the programs, the masks and the status read came last
\* (mcd212.rs:510).
PinFollowsStatus == mcd.int = IntCause(mcd)

ContentSoFar(m) == Cardinality({l \in IcaLines..line : DisplayFileLine(m, l)})
ContentLines(m) == Cardinality({l \in Active : DisplayFileLine(m, l)})
Linked(p) == \E a \in DOMAIN memory[p] : memory[p][a].op = "stop dcp"

\* In a field nobody disturbs, the pointer of a path whose slots do not link
\* has moved one slot for every line of the display file drawn, and one for
\* the slot fetched at the start, but none after the last: the masked lines
\* of Compatibility Mode use none (mcd212.rs:1438).
OneSlotPerLine ==
    \A p \in Path :
        field.calm /\ DcaEnabled(mcd, p) /\ ~Linked(p) =>
            LET slots == IF ContentSoFar(mcd) = ContentLines(mcd) THEN ContentLines(mcd)
                         ELSE ContentSoFar(mcd) + 1
            IN mcd.dca[p] = (mcd.dcp[p] + Slot * slots) % MemoryTop

\* Two undisturbed interlaced fields weave into one picture: every row that
\* is not masked was drawn by the field whose program starts at its own entry
\* (mcd212.rs:1097, 1272).
FieldsWeave ==
    (line = TotalLines - 1 /\ field.calm /\ field.steady >= 1 /\ mcd.dcr[0].de /\ mcd.dcr[0].sm) =>
        \A r \in Row :
            shown[r] = IF DisplayFileLine(mcd, IcaLines + r \div 2) THEN 1 - (r % 2) ELSE Black

McdInv == McdTypeOK /\ PinFollowsStatus /\ OneSlotPerLine /\ FieldsWeave

\* A matte register that a slot of path A writes holds path A's value when the
\* line is over, whatever the slot of path B writes to it (mcd212.rs:619).
PathAKeepsItsMattes ==
    [][ (line' # line /\ line' \in Active /\ AdvanceDca(mcd, line') /\ DcaEnabled(mcd, 0)) =>
            LET a == ProcessDca(mcd, 0, {}) IN
            \A k \in a.writes : mcd'.matte[k] = a.m.matte[k] ]_mcdVars

\* Both: what holds between the lines, and what a line leaves alone (mcd212.rs:510, 619).
McdKept == []McdInv /\ PathAKeepsItsMattes

\* "Per-pixel matte results, recomputed when matte state changes"
\* (mcd212.rs:72): not when NM or the width of the picture does.
MattesCurrent ==
    LET new == Expand(mcd) IN \A x \in DOMAIN new : mcd.spans[x] = new[x]
=============================================================================
