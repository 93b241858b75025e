----------------------------- MODULE MemoryMap -----------------------------
(***************************************************************************)
(* What an address of the processor reaches (machine.rs: MachineBus): the  *)
(* regions a board's entries make, the table of pages that answers for     *)
(* them, the cartridge's memory in front, the holes that assert a bus      *)
(* error, and what resets and power cycles leave of the memories.          *)
(*                                                                         *)
(* Addresses are numbers below PageSize * PageCount, repeated up to        *)
(* OnChipBase. A register of a device is reached, and modelled elsewhere.  *)
(***************************************************************************)
EXTENDS Integers, Sequences, FiniteSets

CONSTANTS
    Wirings,    \* boards: sequences of [device, base, size]
    PageSize,   \* 1 << PAGE_SHIFT
    PageCount,  \* PAGE_COUNT
    OnChipBase, \* ONCHIP_BASE
    Holes,      \* addresses of the motherboard that assert BERRN
    Window,     \* addresses of the cartridge's memory
    Value8,     \* values of a byte
    Blank,      \* the byte memory is cleared to
    OpenBus,    \* and the one nothing drives
    Firmware,   \* the system ROM: offset -> byte
    NvramCells, \* bytes of the NVRAM, with the clock's
    ClockCells, \* bytes of the clock, the last ones of the NVRAM's
    Vectors     \* bytes of the vector pair at the start of the ROM

\* The entry of the on-chip block is not one of these: it is at OnChipBase.
Devices == {"ram", "rom", "cdic", "slave", "nvram", "vdsc", "null"}
Bus == 0..(PageSize * PageCount - 1)

VARIABLES
    wiring,     \* the board's entries
    pages,      \* the table: page -> [kind, entry]
    blocks,     \* RAM: entry and offset -> byte
    cartridge,  \* whether one is attached
    extension,  \* `extension_ram`, cleared by default
    nvram,      \* the SRAM, without the clock's bytes
    clock,
    latched,    \* `pending_bus_error`
    reached,    \* history: the registers the last access reached, in its order
    expected    \* history: what was last put at each address

mapVars == <<wiring, pages, blocks, cartridge, extension, nvram, clock, latched, reached, expected>>

-----------------------------------------------------------------------------
(* Regions and pages.                                                      *)

\* The windows of CDIC and SLAVE extend to the next entry.
RegionSize(w, i) ==
    IF w[i].device \in {"cdic", "slave"} /\ i < Len(w) /\ w[i + 1].base > w[i].base
    THEN w[i + 1].base - w[i].base ELSE w[i].size

Decodes(w, i, a) == w[i].base <= a /\ a < w[i].base + RegionSize(w, i)

EntriesTyped(w) == w \in Seq([device : Devices, base : Nat, size : Nat \ {0}])
\* No region lies within a page without an end of the page in it.
ReachesPageEnds(w) ==
    \A i \in DOMAIN w, a \in Bus :
        LET first == PageSize * (a \div PageSize) IN
        Decodes(w, i, a) => Decodes(w, i, first) \/ Decodes(w, i, first + PageSize - 1)
\* The first entry is RAM at address 0, and nothing lies over the vectors.
VectorsInRam(w) ==
    /\ w # <<>> /\ w[1].device = "ram" /\ w[1].base = 0 /\ w[1].size >= Vectors
    /\ \A i \in 2..Len(w), a \in 0..(Vectors - 1) : ~Decodes(w, i, a)

ASSUME MapAssumption ==
    /\ PageSize \in Nat \ {0} /\ PageCount \in Nat \ {0} /\ OnChipBase \in Nat
    /\ \A w \in Wirings : EntriesTyped(w) /\ ReachesPageEnds(w) /\ VectorsInRam(w)
    /\ Holes \subseteq Bus /\ Window \subseteq Bus
    /\ Blank \in Value8 /\ OpenBus \in Value8
    /\ Vectors \in Nat \ {0} /\ Vectors <= PageSize * PageCount
    /\ Firmware \in [Bus -> Value8]
    /\ NvramCells \in Nat \ {0} /\ ClockCells \in 0..NvramCells

\* `build_page_table`. Later entries win; a page that an entry has a part of,
\* and is not the last to have all of it, is resolved at each access.
Holding(w, p) ==
    {i \in DOMAIN w : Decodes(w, i, PageSize * p) /\ Decodes(w, i, PageSize * p + PageSize - 1)}
Touching(w, p) ==
    {i \in DOMAIN w : Decodes(w, i, PageSize * p) \/ Decodes(w, i, PageSize * p + PageSize - 1)}
IsCovering(w, p, i) == i \in Holding(w, p) /\ \A j \in Holding(w, p) : j <= i

PageTable(w) ==
    [p \in 0..(PageCount - 1) |->
        IF Touching(w, p) = {} THEN [kind |-> "open", entry |-> 0]
        ELSE IF \E i \in Touching(w, p) :
                    /\ \A j \in Touching(w, p) : j = i
                    /\ IsCovering(w, p, i) /\ w[i].device \in {"ram", "rom"}
        THEN [kind |-> "memory", entry |-> CHOOSE i \in Touching(w, p) : TRUE]
        ELSE [kind |-> "slow", entry |-> 0]]

\* The last entry that decodes an address, as `slow_read8` looks it up.
Resolves(w, a, i) == i \in DOMAIN w /\ Decodes(w, i, a) /\ \A j \in (i + 1)..Len(w) : ~Decodes(w, j, a)
Lookup(w, a) == IF \E i \in DOMAIN w : Resolves(w, a, i) THEN CHOOSE i \in DOMAIN w : Resolves(w, a, i) ELSE 0

\* What `raw_read8` and `raw_write8` take an address for: 0 if nothing is there.
Decoded(a) ==
    LET page == pages[a \div PageSize] IN
    IF page.kind = "slow" THEN Lookup(wiring, a) ELSE page.entry

-----------------------------------------------------------------------------
(* Accesses, byte by byte. What they may change is a record.               *)

Now == [blocks |-> blocks, extension |-> extension, nvram |-> nvram, clock |-> clock,
        reached |-> <<>>, expected |-> expected]

Becomes(m) ==
    /\ blocks' = m.blocks /\ extension' = m.extension /\ nvram' = m.nvram /\ clock' = m.clock
    /\ reached' = m.reached /\ expected' = m.expected

Offset(i, a) == a - wiring[i].base
\* Where in the NVRAM: on even bytes, and twice in its window.
NvramCell(off) == (off \div 2) % NvramCells
IsClock(cell) == cell >= NvramCells - ClockCells

Register == {"slave", "cdic", "vdsc", "on chip"} \X Nat
\* The register of a device, if an access to the byte reaches one.
Registers(i, off) ==
    CASE wiring[i].device = "slave" -> IF off % 2 = 1 THEN << <<"slave", (off \div 2) % 4>> >> ELSE <<>>
      [] wiring[i].device \in {"cdic", "vdsc"} -> << <<wiring[i].device, off>> >>
      [] OTHER -> <<>>

Reach(m, what) == [m EXCEPT !.reached = @ \o what]

\* `dev_write8`.
PutDevice(m, i, off, v) ==
    IF wiring[i].device # "nvram" THEN Reach(m, Registers(i, off))
    ELSE IF off % 2 = 1 THEN m
    ELSE IF IsClock(NvramCell(off)) THEN [m EXCEPT !.clock[NvramCell(off)] = v]
    ELSE [m EXCEPT !.nvram[NvramCell(off)] = v]

\* Mutant: a write to the cartridge goes on to the board behind it.
PutByteThrough(m, addr, v) ==
    LET a == addr % (PageSize * PageCount)  i == Decoded(a)
        front == IF cartridge /\ a \in Window THEN [m EXCEPT !.extension[a] = v] ELSE [m EXCEPT !.expected[a] = v]
    IN IF addr >= OnChipBase THEN Reach(m, << <<"on chip", addr - OnChipBase>> >>)
       ELSE IF i # 0 /\ wiring[i].device = "ram" THEN [front EXCEPT !.blocks[<<i, Offset(i, a)>>] = v]
       ELSE front

\* `raw_write8` and `slow_write8`.
PutByte(m, addr, v) ==
    LET a == addr % (PageSize * PageCount)  i == Decoded(a) IN
    IF addr >= OnChipBase THEN Reach(m, << <<"on chip", addr - OnChipBase>> >>)
    ELSE IF cartridge /\ a \in Window THEN [m EXCEPT !.extension[a] = v]
    ELSE IF i = 0 \/ wiring[i].device \in {"rom", "null"} THEN [m EXCEPT !.expected[a] = v]
    ELSE IF wiring[i].device = "ram"
    THEN [m EXCEPT !.blocks[<<i, Offset(i, a)>>] = v, !.expected[a] = v]
    ELSE PutDevice([m EXCEPT !.expected[a] = v], i, Offset(i, a), v)

\* What a read of a byte reaches; `GetByte` is what it returns of memory.
TouchByte(m, addr) ==
    LET a == addr % (PageSize * PageCount)  i == Decoded(a) IN
    IF addr >= OnChipBase THEN Reach(m, << <<"on chip", addr - OnChipBase>> >>)
    ELSE IF (cartridge /\ a \in Window) \/ i = 0 THEN m
    ELSE Reach(m, Registers(i, Offset(i, a)))

GetByte(a) ==
    LET i == Decoded(a) IN
    IF cartridge /\ a \in Window THEN extension[a]
    ELSE IF i = 0 THEN OpenBus
    ELSE CASE wiring[i].device = "ram" -> blocks[<<i, Offset(i, a)>>]
           [] wiring[i].device = "rom" -> Firmware[Offset(i, a)]
           [] wiring[i].device = "nvram" /\ Offset(i, a) % 2 = 0 ->
                LET c == NvramCell(Offset(i, a)) IN IF IsClock(c) THEN clock[c] ELSE nvram[c]
           [] OTHER -> Blank

\* `cpu_bus_error_address`: any byte of the access in a hole.
IsBusError(addr, n) ==
    addr < OnChipBase /\ \E k \in 0..(n - 1) : (addr + k) % (PageSize * PageCount) \in Holes

NoError == [at |-> -1, bytes |-> 0, read |-> FALSE]
\* The first of an instruction is kept.
LatchBusError(addr, n, read) ==
    latched' = IF latched # NoError THEN latched
               ELSE [at |-> addr % (PageSize * PageCount), bytes |-> n, read |-> read]

Fails(addr, n, read) ==
    /\ LatchBusError(addr, n, read)
    /\ reached' = <<>>
    /\ UNCHANGED <<blocks, extension, nvram, clock, expected>>

ReadBus(addr, n) ==
    /\ IF IsBusError(addr, n) THEN Fails(addr, n, TRUE)
       ELSE /\ Becomes(IF n = 1 THEN TouchByte(Now, addr)
                       ELSE TouchByte(TouchByte(Now, addr), addr + 1))
            /\ UNCHANGED latched
    /\ UNCHANGED <<wiring, pages, cartridge>>

WriteByte(addr, v) ==
    /\ IF IsBusError(addr, 1) THEN Fails(addr, 1, FALSE)
       ELSE Becomes(PutByte(Now, addr, v)) /\ UNCHANGED latched
    /\ UNCHANGED <<wiring, pages, cartridge>>

WriteWord(addr, high, low) ==
    /\ IF IsBusError(addr, 2) THEN Fails(addr, 2, FALSE)
       ELSE Becomes(PutByte(PutByte(Now, addr, high), addr + 1, low)) /\ UNCHANGED latched
    /\ UNCHANGED <<wiring, pages, cartridge>>

\* The processor takes the error up (Cpu.tla).
TakeBusError ==
    /\ latched # NoError /\ latched' = NoError
    /\ UNCHANGED <<wiring, pages, blocks, cartridge, extension, nvram, clock, reached, expected>>

-----------------------------------------------------------------------------
(* The host.                                                               *)

\* A reset puts the vectors of the ROM where the processor fetches them.
WithVectors(b) == [c \in DOMAIN b |-> IF c[1] = 1 /\ c[2] < Vectors THEN Firmware[c[2]] ELSE b[c]]
ExpectVectors(e) == [a \in Bus |-> IF a < Vectors THEN Firmware[a] ELSE e[a]]

ResetBus ==
    /\ blocks' = WithVectors(blocks) /\ expected' = ExpectVectors(expected)
    /\ latched' = NoError /\ reached' = <<>>
    /\ UNCHANGED <<wiring, pages, cartridge, extension, nvram, clock>>

\* Volatile memory is lost; the NVRAM, the clock and the cartridge stay.
PowerCycleBus ==
    /\ blocks' = WithVectors([c \in DOMAIN blocks |-> Blank])
    /\ expected' = ExpectVectors([a \in Bus |-> Blank])
    /\ extension' = [a \in Window |-> Blank]
    /\ latched' = NoError /\ reached' = <<>>
    /\ UNCHANGED <<wiring, pages, cartridge, nvram, clock>>

\* Attaching a cartridge in place of another brings new memory.
AttachCartridge ==
    /\ cartridge' = TRUE /\ extension' = [a \in Window |-> Blank]
    /\ UNCHANGED <<wiring, pages, blocks, nvram, clock, latched, reached, expected>>
DetachCartridge ==
    /\ cartridge' = FALSE /\ extension' = [a \in Window |-> Blank]
    /\ UNCHANGED <<wiring, pages, blocks, nvram, clock, latched, reached, expected>>

\* `apply_diagnostic_ram_patch`: nothing, unless it is all in one RAM. How long
\* it may be is not said here.
PatchRam(from, v, n) ==
    LET span == from..(from + n - 1)  i == Lookup(wiring, from) IN
    /\ span \subseteq Bus /\ i # 0 /\ wiring[i].device = "ram"
    /\ \A a \in span : Lookup(wiring, a) = i
    /\ blocks' = [c \in DOMAIN blocks |->
                    IF c[1] = i /\ wiring[i].base + c[2] \in span THEN v ELSE blocks[c]]
    /\ expected' = [a \in Bus |-> IF a \in span THEN v ELSE expected[a]]
    /\ UNCHANGED <<wiring, pages, cartridge, extension, nvram, clock, latched, reached>>

Cells(w) == {c \in (DOMAIN w) \X Bus : w[c[1]].device = "ram" /\ c[2] < w[c[1]].size}

MapInit ==
    /\ wiring \in Wirings /\ pages = PageTable(wiring)
    /\ blocks = [c \in Cells(wiring) |-> Blank]
    /\ cartridge = FALSE /\ extension = [a \in Window |-> Blank]
    /\ nvram = [c \in 0..(NvramCells - ClockCells - 1) |-> Blank]
    /\ clock = [c \in (NvramCells - ClockCells)..(NvramCells - 1) |-> Blank]
    /\ latched = NoError /\ reached = <<>>
    /\ expected = [a \in Bus |-> Blank]

MapNext ==
    \/ \E addr \in Nat : \/ \E n \in {1, 2} : ReadBus(addr, n)
                         \/ \E v \in Value8 : WriteByte(addr, v)
                         \/ \E v, low \in Value8 : WriteWord(addr, v, low)
    \/ TakeBusError \/ ResetBus \/ PowerCycleBus \/ AttachCartridge \/ DetachCartridge
    \/ \E from \in Bus, v \in Value8, n \in Nat \ {0} : PatchRam(from, v, n)

MapSpec == MapInit /\ [][MapNext]_mapVars

-----------------------------------------------------------------------------
MapTypeOK ==
    /\ wiring \in Wirings /\ pages = PageTable(wiring) /\ cartridge \in BOOLEAN
    /\ blocks \in [Cells(wiring) -> Value8] /\ extension \in [Window -> Value8]
    /\ nvram \in [0..(NvramCells - ClockCells - 1) -> Value8]
    /\ clock \in [(NvramCells - ClockCells)..(NvramCells - 1) -> Value8]
    /\ latched \in [at : Bus \cup {-1}, bytes : 0..2, read : BOOLEAN]
    /\ reached \in Seq(Register)
    /\ expected \in [Bus -> Value8]

\* A page answers for each of its addresses as the list of regions would
\* (machine.rs:420).
PagesAgree == \A a \in Bus : Decoded(a) = Lookup(wiring, a)

\* Each address of RAM holds what was last put there, by the guest, a reset, a
\* power cycle or a patch: no other address reaches it, through whichever page,
\* and what was written to the cartridge in front of it never does. Where no
\* cartridge is in front, a read finds it (machine.rs:1072).
RamHoldsWhatWasPut ==
    \A a \in Bus :
        LET i == Lookup(wiring, a) IN
        (i # 0 /\ wiring[i].device = "ram") =>
            /\ blocks[<<i, Offset(i, a)>>] = expected[a]
            /\ ~(cartridge /\ a \in Window) => GetByte(a) = expected[a]

MapInv == MapTypeOK /\ PagesAgree /\ RamHoldsWhatWasPut

\* All of this always: of the map as it starts, and of each step that changes it
\* (machine.rs:420, 1072).
MapKept == MapInv /\ [][mapVars' # mapVars => MapInv']_mapVars
=============================================================================
