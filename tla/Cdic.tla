-------------------------------- MODULE Cdic --------------------------------
(***************************************************************************)
(* The CD interface controller (crates/cdi-core/src/cdic.rs, Cdic): a      *)
(* drive that reads one sector per 75 Hz pump edge into ping-pong buffers, *)
(* an audio processor that plays memory sound maps, CD-fed ADPCM and       *)
(* CD-DA, and four registers the guest polls behind one interrupt line,    *)
(* IN4.  The guest writes mailbox words and registers, its DMA fills the   *)
(* sound-map halves, the frontend swaps discs; all interleave with the     *)
(* pump at any point.                                                      *)
(*                                                                         *)
(* Variables group the fields of the struct:                               *)
(*   box       the DSP mailbox words in shared RAM and their live copies   *)
(*   regs      the informative bits of ABUF, XBUF, AUDCTL and DBUF         *)
(*   drive     disc_command and disc_mode (one is 0 iff the other is Idle),*)
(*             disc_read_enabled, stop_after_next_sector,                  *)
(*             disc_spinup_counter, curr_lba                               *)
(*   map       decoding_audio_map, audio_map_stop_requested, decode_addr,  *)
(*             audio_format_sectors, audio_sector_counter                  *)
(*   fed       the realtime_audio_* fields and cdda_pending                *)
(*   ram       which sector each buffer of the 16 KB RAM holds             *)
(*   int_line  the line                                                    *)
(*   audio_out the blocks pushed to the audio queue by the last step       *)
(*   disc      the medium the machine hands to tick                        *)
(*                                                                         *)
(* Data kept abstract: a buffer half is 0 ($2800) or 1 ($3200); a sector   *)
(* is the record of the header fields the filters look at; LBAs are those  *)
(* of the image (lba_base is undone by the addition in process_disc_sector)*)
(* and all those at or beyond the end of the medium are one; samples,      *)
(* attenuation, subcode Q, TOC contents, the vector and ZBUF's other bits  *)
(* are data no decision depends on.  committed_audio_channel is written by *)
(* command $2E and read only by the diagnostics: left out.                 *)
(***************************************************************************)
EXTENDS Integers, Sequences

CONSTANTS
    Commands,         \* the command words the guest writes, by hexadecimal name
    Starts,           \* the LBAs the guest's time words name
    Files,            \* the file numbers the guest selects
    ChannelWrites,    \* the <<word, channel set>> pairs written to CHAN
    AudioChannels,    \* the channel sets written to ACHAN
    DbufWrites,       \* the values of <<command, enable, audio, slot bit>> written to DBUF
    AudctlWrites,     \* the values of <<play bit, map bit>> written to AUDCTL
    BufferWrites,     \* the <<register, bit 15>> pairs written to ABUF and XBUF
    MapCodings,       \* the coding bytes DMA puts into a sound-map half
    Discs, NoDisc,    \* the media, functions from LBAs to sectors, and their absence
    MaxLba,           \* every LBA from here on is past the end of every medium
    SpinupTicks,      \* 6 in init_disc_read
    QInterval         \* 75 in process_disc_sector

Modes == {"idle", "mode1", "mode2", "cdda", "toc"}
Halves == {0, 1}
NoHalf == 2           \* decode_addr $FFFF (and 0, before any map)
Unfilled == -1        \* the buffer was not filled from the disc

(* A coding byte is <<bits per sample, kHz, channels>>, 0 for a reserved    *)
(* value; the byte $FF, which ends a map, is the only one of its shape.     *)
Coding == {0, 4, 8, 16} \X {0, 18, 37, 44} \X {0, 1, 2}
EndOfMap == <<0, 44, 0>>
ZeroCoding == <<4, 37, 1>>  \* the byte 0 of cleared RAM

Sector == [mode : {0, 1, 2}, file : Files, chan : 0..255, event : BOOLEAN,
           kind : {"none", "data", "audio"}, form2 : BOOLEAN, coding : Coding]

Words == [w \in {0, 1} |-> IF w = 0 THEN 0..15 ELSE 16..31]

ASSUME CdicAssumption ==
    /\ Starts \subseteq 0..MaxLba
    /\ ChannelWrites \subseteq {0, 1} \X SUBSET (0..31)
    /\ AudioChannels \subseteq SUBSET (0..15)
    /\ DbufWrites \subseteq BOOLEAN \X BOOLEAN \X BOOLEAN \X Halves
    /\ AudctlWrites \subseteq BOOLEAN \X BOOLEAN
    /\ BufferWrites \subseteq {"abuf", "xbuf"} \X BOOLEAN
    /\ MapCodings \subseteq Coding
    /\ MaxLba \in Nat
    /\ SpinupTicks \in Nat
    /\ QInterval \in Nat \ {0}
    /\ Files # {}
    /\ NoDisc \notin Discs
    /\ \A d \in Discs : DOMAIN d \subseteq 0..(MaxLba - 1) /\ \A l \in DOMAIN d : d[l] \in Sector

VARIABLES box, regs, drive, map, fed, ram, int_line, audio_out, disc

vars == <<box, regs, drive, map, fed, ram, int_line, audio_out, disc>>

-----------------------------------------------------------------------------
(* States *)

IdleDrive == [mode |-> "idle", enabled |-> FALSE, stopping |-> FALSE, spinup |-> 0, lba |-> 0]
ClearRegs == [abuf |-> FALSE, xbuf |-> FALSE, play |-> FALSE, map |-> FALSE, ended |-> FALSE,
              enable |-> FALSE, audio |-> FALSE, slot |-> 0]
NoMap == [decoding |-> FALSE, stop_requested |-> FALSE, addr |-> NoHalf,
          format_sectors |-> 0, counter |-> 0]
SilentFed == [next_write |-> 0, ready |-> [h \in Halves |-> FALSE], next_play |-> 0,
              counter |-> 0, playing |-> FALSE, cdda_pending |-> Unfilled]
ClearRam == [header |-> [h \in Halves |-> Unfilled], body |-> [h \in Halves |-> Unfilled],
             adpcm |-> [h \in Halves |-> [coding |-> ZeroCoding, lba |-> Unfilled]]]
DefaultBox == [command |-> "00", file |-> 0, channel |-> 0..31, audio_channel |-> 0..15, time |-> 0]

Lba == 0..MaxLba
Held == Lba \cup {Unfilled}
Block == [from : {"xa", "map", "cdda"}, lba : Held]

BoxType == [command : Commands \cup {"00"}, file : Files \cup {0}, channel : SUBSET (0..31),
            audio_channel : SUBSET (0..15), time : Starts \cup {0}]
RegsType == [abuf : BOOLEAN, xbuf : BOOLEAN, play : BOOLEAN, map : BOOLEAN, ended : BOOLEAN,
             enable : BOOLEAN, audio : BOOLEAN, slot : Halves]
DriveType == [mode : Modes, enabled : BOOLEAN, stopping : BOOLEAN,
              spinup : 0..SpinupTicks, lba : Lba]
MapType == [decoding : BOOLEAN, stop_requested : BOOLEAN, addr : Halves \cup {NoHalf},
            format_sectors : 0..16, counter : 0..16]
FedType == [next_write : Halves, ready : [Halves -> BOOLEAN], next_play : Halves,
            counter : 0..16, playing : BOOLEAN, cdda_pending : Held]
RamType == [header : [Halves -> Held], body : [Halves -> Held],
            adpcm : [Halves -> [coding : Coding, lba : Held]]]

TypeOK ==
    /\ box \in BoxType
    /\ regs \in RegsType
    /\ drive \in DriveType
    /\ map \in MapType
    /\ fed \in FedType
    /\ ram \in RamType
    /\ int_line \in BOOLEAN
    /\ audio_out \in Seq(Block)
    /\ disc \in Discs \cup {NoDisc}

Init ==
    /\ box = DefaultBox
    /\ regs = ClearRegs
    /\ drive = IdleDrive
    /\ map = NoMap
    /\ fed = SilentFed
    /\ ram = ClearRam
    /\ int_line = FALSE
    /\ audio_out = <<>>
    /\ disc \in Discs \cup {NoDisc}

-----------------------------------------------------------------------------
(* The controller as one value s, which the steps of a handler pass on.     *)

Now == [regs |-> regs, drive |-> drive, map |-> map, fed |-> fed, ram |-> ram,
        int_line |-> int_line, audio_out |-> <<>>]

Becomes(s) ==
    /\ regs' = s.regs /\ drive' = s.drive /\ map' = s.map /\ fed' = s.fed /\ ram' = s.ram
    /\ int_line' = s.int_line /\ audio_out' = s.audio_out

UpdateInterruptState(s) ==
    [s EXCEPT !.int_line = s.regs.xbuf \/ (s.regs.abuf /\ s.regs.map)]

\* Mutant: the line is not updated with the register.
RaiseAbufOnly(s) == [s EXCEPT !.regs.abuf = TRUE]

RaiseAbuf(s) == UpdateInterruptState([s EXCEPT !.regs.abuf = TRUE])

CancelDiscRead(s) == [s EXCEPT !.drive = IdleDrive]

StopRealtimeAudio(s) ==
    [s EXCEPT !.fed.playing = FALSE, !.fed.counter = 0, !.fed.cdda_pending = Unfilled]

\* Sector times a buffer of this coding lasts; 0 for a reserved coding.
SectorCountForCoding(c) ==
    LET bits     == CASE c[1] = 4 -> 4 [] c[1] \in {8, 16} -> 2 [] OTHER -> 0
        rate     == CASE c[2] = 18 -> 2 [] c[2] \in {37, 44} -> 1 [] OTHER -> 0
        channels == CASE c[3] = 1 -> 2 [] c[3] = 2 -> 1 [] OTHER -> 0
    IN bits * rate * channels

\* play_audio_data: a coding it does not support yields no samples.
PlayAudioData(s, from, half) ==
    LET c == s.ram.adpcm[half].coding
    IN IF c[1] \in {4, 8} /\ c[2] \in {18, 37} /\ c[3] \in {1, 2}
       THEN [s EXCEPT !.audio_out = Append(@, [from |-> from, lba |-> s.ram.adpcm[half].lba])]
       ELSE s

PlayCdda(s, lba) == [s EXCEPT !.audio_out = Append(@, [from |-> "cdda", lba |-> lba])]

\* The end of a map, or of CD-fed audio, by a coding byte $FF.
SetEnded(s) == [s EXCEPT !.regs.play = FALSE, !.regs.ended = TRUE]

\* Mutant: CD-fed audio ignores a decoding map.
TryPlayOverMap(s) ==
    LET half  == s.fed.next_play
        taken == [s EXCEPT !.fed.ready[half] = FALSE, !.fed.next_play = 1 - half]
        c     == s.ram.adpcm[half].coding
    IN IF ~s.fed.playing \/ s.fed.counter # 0 \/ ~s.fed.ready[half] THEN s
       ELSE PlayAudioData([taken EXCEPT !.fed.counter = SectorCountForCoding(c)], "xa", half)

\* Mutant: the player stays on the half it has just played.
TryPlaySameHalf(s) ==
    LET half  == s.fed.next_play
        taken == [s EXCEPT !.fed.ready[half] = FALSE]
        c     == s.ram.adpcm[half].coding
    IN IF ~s.fed.playing \/ s.map.decoding \/ s.fed.counter # 0 \/ ~s.fed.ready[half] THEN s
       ELSE PlayAudioData([taken EXCEPT !.fed.counter = SectorCountForCoding(c)], "xa", half)

TryPlayRealtimeAudio(s) ==
    LET half  == s.fed.next_play
        c     == s.ram.adpcm[half].coding
        taken == [s EXCEPT !.fed.ready[half] = FALSE, !.fed.next_play = 1 - half]
    IN IF ~s.fed.playing \/ s.map.decoding \/ s.fed.counter # 0 \/ ~s.fed.ready[half]
       THEN s
       ELSE IF c = EndOfMap
       THEN SetEnded([taken EXCEPT !.fed.playing = FALSE])
       ELSE PlayAudioData([taken EXCEPT !.fed.counter = SectorCountForCoding(c)], "xa", half)

StartRealtimeAudio(s) ==
    LET on == [s EXCEPT !.fed.playing = TRUE]
    IN IF s.fed.playing THEN s
       ELSE IF s.drive.mode # "cdda"
       THEN TryPlayRealtimeAudio([on EXCEPT !.fed.next_play = 0])
       ELSE IF s.fed.cdda_pending = Unfilled THEN on
       ELSE PlayCdda([on EXCEPT !.fed.cdda_pending = Unfilled], s.fed.cdda_pending)

-----------------------------------------------------------------------------
(* The pump: one edge runs sector_tick, then audio_tick.  Both accumulators *)
(* always agree, and the machine ends its slices at the next edge.          *)

NextLba(l) == IF l = MaxLba THEN l ELSE l + 1

IsMode2SectorSelected(x) ==
    /\ x.file = box.file
    /\ \/ x.event
       \/ x.kind # "none" /\ x.chan % 32 \in box.channel

\* The shift of a 16-bit one by the channel number wraps in a release build.
IsMode2AudioSelected(x) ==
    x.form2 /\ x.kind = "audio" /\ x.chan % 16 \in box.audio_channel

ReceiveCddaSector(s, lba) ==
    IF s.fed.playing /\ ~s.map.decoding THEN PlayCdda(s, lba)
    ELSE IF s.fed.cdda_pending = Unfilled THEN [s EXCEPT !.fed.cdda_pending = lba]
    ELSE s

\* An XA sector selected for audio: its header to the data half of the same
\* number, its image to the ADPCM half.
DeliverAudio(s, x) ==
    LET half == s.fed.next_write
        l    == s.drive.lba
        put  == [s EXCEPT
                   !.fed = [@ EXCEPT !.next_write = 1 - half, !.ready[half] = TRUE],
                   !.regs = [@ EXCEPT !.slot = half, !.audio = TRUE, !.xbuf = TRUE, !.enable = TRUE],
                   !.ram = [@ EXCEPT !.header[half] = l, !.adpcm[half] = [coding |-> x.coding, lba |-> l]]]
    IN TryPlayRealtimeAudio(UpdateInterruptState(put))

\* Mutant: data always goes to the half DBUF names.
DeliverDataInPlace(s) ==
    UpdateInterruptState(
      [s EXCEPT !.regs.audio = FALSE, !.regs.xbuf = TRUE, !.regs.enable = TRUE,
                !.ram.header[s.regs.slot] = s.drive.lba, !.ram.body[s.regs.slot] = s.drive.lba])

DeliverData(s) ==
    LET half == 1 - s.regs.slot
        l    == s.drive.lba
    IN UpdateInterruptState(
         [s EXCEPT !.regs.slot = half, !.regs.audio = FALSE,
                   !.regs.xbuf = TRUE, !.regs.enable = TRUE,
                   !.ram.header[half] = l, !.ram.body[half] = l])

\* Mutant: the stop request is forgotten at the sector it waited for.
DeliverAndReadOn(s, x) ==
    IF s.drive.mode = "mode2" /\ IsMode2AudioSelected(x) THEN DeliverAudio(s, x) ELSE DeliverData(s)

DeliverSector(s, x) ==
    LET put == IF s.drive.mode = "mode2" /\ IsMode2AudioSelected(x)
               THEN DeliverAudio(s, x) ELSE DeliverData(s)
    IN IF s.drive.stopping THEN CancelDiscRead(put) ELSE put

ProcessDiscSector(s, x) ==
    LET received == ReceiveCddaSector([s EXCEPT !.map.counter = 2, !.map.decoding = FALSE],
                                      s.drive.lba)
    IN IF s.drive.mode = "mode2" /\ x.mode = 2
       THEN IF IsMode2SectorSelected(x) THEN DeliverSector(s, x) ELSE s
       ELSE IF s.drive.mode = "cdda"
       THEN IF s.drive.lba % QInterval = 0 THEN DeliverSector(received, x) ELSE received
       ELSE DeliverSector(s, x)

Advance(s) ==
    IF s.drive.mode = "idle" THEN CancelDiscRead(s)
    ELSE [s EXCEPT !.drive.lba = NextLba(@)]

\* Mutant: a read past the end of the disc waits for it to grow.
SectorTickPastEnd(s) ==
    IF s.drive.mode = "idle" THEN s
    ELSE IF s.drive.spinup # 0 THEN [s EXCEPT !.drive.spinup = @ - 1]
    ELSE IF ~s.drive.enabled THEN Advance(s)
    ELSE IF disc = NoDisc \/ s.drive.lba \notin DOMAIN disc THEN s
    ELSE Advance(ProcessDiscSector(s, disc[s.drive.lba]))

SectorTick(s) ==
    IF s.drive.mode = "idle" THEN s
    ELSE IF s.drive.spinup # 0 THEN [s EXCEPT !.drive.spinup = @ - 1]
    ELSE IF ~s.drive.enabled THEN Advance(s)
    ELSE IF disc = NoDisc THEN s
    ELSE IF s.drive.lba \notin DOMAIN disc THEN CancelDiscRead(s)
    ELSE Advance(ProcessDiscSector(s, disc[s.drive.lba]))

\* Mutant: the last half gone, the map goes on decoding.
EndMapDecoding(s) == [s EXCEPT !.map = [@ EXCEPT !.addr = NoHalf, !.format_sectors = 0]]

EndMap(s) ==
    [s EXCEPT !.map = [@ EXCEPT !.decoding = FALSE, !.addr = NoHalf, !.format_sectors = 0]]

\* Mutant: only the end of the map is reported.
ReportAtEndOnly(s) ==
    LET half   == s.map.addr
        c      == s.ram.adpcm[half].coding
        passed == [s EXCEPT !.map.addr = 1 - half]
    IN IF c = EndOfMap THEN RaiseAbuf(SetEnded(EndMap([passed EXCEPT !.map.counter = 0])))
       ELSE PlayAudioData([passed EXCEPT !.map.format_sectors = SectorCountForCoding(c),
                                         !.map.counter = SectorCountForCoding(c)], "map", half)

ProcessAudioMap(s) ==
    LET half   == s.map.addr
        c      == s.ram.adpcm[half].coding
        passed == [s EXCEPT !.map.addr = 1 - half]
        played == PlayAudioData(
                    [passed EXCEPT !.map.format_sectors = SectorCountForCoding(c),
                                   !.map.counter = SectorCountForCoding(c)], "map", half)
        ended  == SetEnded(EndMap([passed EXCEPT !.map.counter = 0]))
        next   == IF c = EndOfMap THEN ended ELSE played
    IN IF half = NoHalf THEN RaiseAbuf(EndMap([s EXCEPT !.map.counter = 0]))
       ELSE IF s.map.format_sectors # 0 THEN RaiseAbuf(next)
       ELSE next

FinishStop(s) == RaiseAbuf(EndMap([s EXCEPT !.map.stop_requested = FALSE]))

\* Mutant: the counter of CD-fed audio is not tested for zero.
CountBelowZero(s) == [s EXCEPT !.fed.counter = @ - 1]

CountRealtime(s) ==
    IF s.fed.counter = 0 THEN s
    ELSE IF s.fed.counter = 1 THEN TryPlayRealtimeAudio([s EXCEPT !.fed.counter = 0])
    ELSE [s EXCEPT !.fed.counter = @ - 1]

\* Mutant: a stop request is honoured only by the map's own end.
AudioTickWithoutStop(s) ==
    LET fedDone == CountRealtime(s)
        counted == IF fedDone.map.counter = 0 THEN fedDone
                   ELSE [fedDone EXCEPT !.map.counter = @ - 1]
    IN IF counted.map.counter > 0 \/ ~counted.map.decoding THEN counted
       ELSE ProcessAudioMap(counted)

AudioTick(s) ==
    LET fedDone == CountRealtime(s)
        counted == IF fedDone.map.counter = 0 THEN fedDone
                   ELSE [fedDone EXCEPT !.map.counter = @ - 1]
    IN IF counted.map.counter > 0 \/ ~counted.map.decoding THEN counted
       ELSE IF counted.map.stop_requested THEN FinishStop(counted)
       ELSE ProcessAudioMap(counted)

Pump == Becomes(AudioTick(SectorTick(Now))) /\ UNCHANGED <<box, disc>>

-----------------------------------------------------------------------------
(* The guest *)

WriteCommand(c) == box' = [box EXCEPT !.command = c] /\ Becomes(Now) /\ UNCHANGED disc
WriteTime(l) == box' = [box EXCEPT !.time = l] /\ Becomes(Now) /\ UNCHANGED disc
WriteFile(f) == box' = [box EXCEPT !.file = f] /\ Becomes(Now) /\ UNCHANGED disc

\* CHAN is two words; a filter sees each as soon as it is written.
WriteChannel(w, set) ==
    /\ box' = [box EXCEPT !.channel = (@ \ Words[w]) \cup set]
    /\ Becomes(Now) /\ UNCHANGED disc

WriteAchan(set) == box' = [box EXCEPT !.audio_channel = set] /\ Becomes(Now) /\ UNCHANGED disc

\* The CDDA mode only discards the sector held for it.
InitDiscRead(s, mode) ==
    LET started == [s EXCEPT !.drive = [mode |-> mode, enabled |-> s.regs.enable, stopping |-> FALSE,
                                        spinup |-> SpinupTicks, lba |-> box.time]]
    IN CASE mode = "mode2" ->
              [started EXCEPT !.fed = [SilentFed EXCEPT !.playing = s.fed.playing,
                                                        !.cdda_pending = s.fed.cdda_pending]]
         [] mode = "cdda" -> [started EXCEPT !.fed.cdda_pending = Unfilled]
         [] OTHER -> started

\* "23" stands for $23 and $24, "29" for $29 and $2C; any other word changes
\* nothing the model keeps.
ReadMode == [c \in {"27", "28", "29", "2A"} |->
    CASE c = "27" -> "toc" [] c = "28" -> "cdda" [] c = "29" -> "mode1" [] c = "2A" -> "mode2"]

HandleCommand(s) ==
    CASE box.command = "23" /\ s.drive.mode # "idle" ->
           [s EXCEPT !.drive.enabled = s.regs.enable, !.drive.stopping = TRUE]
      [] box.command = "2B" -> CancelDiscRead(s)
      [] box.command \in DOMAIN ReadMode -> InitDiscRead(s, ReadMode[box.command])
      [] OTHER -> s

\* The word is stored as written: the guest may move the slot bit under the
\* deliveries.
WriteDbuf(command, enable, audio, slot) ==
    LET s == [Now EXCEPT !.regs.enable = enable, !.regs.audio = audio, !.regs.slot = slot]
    IN /\ IF command THEN Becomes(HandleCommand(s))
          ELSE Becomes([s EXCEPT !.drive.enabled = enable /\ s.drive.mode # "idle"])
       /\ UNCHANGED <<box, disc>>

StopPlaying(s) ==
    LET quiet == StopRealtimeAudio(s)
    IN IF s.map.decoding THEN [quiet EXCEPT !.map.stop_requested = TRUE]
       ELSE [quiet EXCEPT !.map.addr = NoHalf]

\* A map aborts CD-DA and starts at z_buffer & $3A00.  In this branch bits 13
\* and 11 are set, so that is $2800, never the other half's $3200: the guest
\* writes bits 12 and 9, with which it would be no half's address, as zeros.
StartMap(s) ==
    LET alone == IF s.drive.mode = "cdda" THEN CancelDiscRead(s) ELSE s
    IN [alone EXCEPT !.map = [decoding |-> TRUE, stop_requested |-> FALSE, addr |-> 0,
                              format_sectors |-> 0, counter |-> 1]]

WriteAudctl(play, mapBit) ==
    LET s == [Now EXCEPT !.regs.play = play, !.regs.map = mapBit]
        t == CASE ~play -> StopPlaying(s)
               [] play /\ mapBit /\ ~map.decoding -> StartMap(s)
               [] play /\ ~mapBit /\ ~map.decoding -> StartRealtimeAudio(s)
               [] OTHER -> s
    IN Becomes(UpdateInterruptState(t)) /\ UNCHANGED <<box, disc>>

ReadAbuf ==
    /\ Becomes(UpdateInterruptState([Now EXCEPT !.regs.abuf = FALSE]))
    /\ UNCHANGED <<box, disc>>
ReadXbuf ==
    /\ Becomes(UpdateInterruptState([Now EXCEPT !.regs.xbuf = FALSE]))
    /\ UNCHANGED <<box, disc>>
ReadAudctl == Becomes([Now EXCEPT !.regs.ended = FALSE]) /\ UNCHANGED <<box, disc>>

\* Writing a buffer register stores the word, bit 15 set or clear, and unlike
\* reading it leaves the line alone.
WriteBuffer(reg, bit) == Becomes([Now EXCEPT !.regs[reg] = bit]) /\ UNCHANGED <<box, disc>>

\* The machine's cdic_dma copies a sector image from memory to a half.
FillMapHalf(half, coding) ==
    /\ Becomes([Now EXCEPT !.ram.adpcm[half] = [coding |-> coding, lba |-> Unfilled]])
    /\ UNCHANGED <<box, disc>>

-----------------------------------------------------------------------------
(* The machine *)

\* The RAM and the mailbox words in it survive a reset.
Reset ==
    /\ Becomes([regs |-> ClearRegs, drive |-> IdleDrive, map |-> NoMap, fed |-> SilentFed,
                ram |-> ram, int_line |-> FALSE, audio_out |-> <<>>])
    /\ UNCHANGED <<box, disc>>

PowerCycle ==
    /\ Becomes([regs |-> ClearRegs, drive |-> IdleDrive, map |-> NoMap, fed |-> SilentFed,
                ram |-> ClearRam, int_line |-> FALSE, audio_out |-> <<>>])
    /\ box' = DefaultBox
    /\ UNCHANGED disc

MediaChanged(medium) ==
    /\ disc' = medium
    /\ Becomes(StopRealtimeAudio(CancelDiscRead(Now)))
    /\ UNCHANGED box

-----------------------------------------------------------------------------

WriteMailbox ==
    \/ \E c \in Commands : WriteCommand(c)
    \/ \E l \in Starts : WriteTime(l)
    \/ \E f \in Files : WriteFile(f)
    \/ \E w \in ChannelWrites : WriteChannel(w[1], w[2])
    \/ \E set \in AudioChannels : WriteAchan(set)

Guest ==
    \/ WriteMailbox
    \/ \E w \in DbufWrites : WriteDbuf(w[1], w[2], w[3], w[4])
    \/ \E w \in AudctlWrites : WriteAudctl(w[1], w[2])
    \/ ReadAbuf
    \/ ReadXbuf
    \/ ReadAudctl
    \/ \E w \in BufferWrites : WriteBuffer(w[1], w[2])
    \/ \E half \in Halves, coding \in MapCodings : FillMapHalf(half, coding)

Machine ==
    \/ Pump
    \/ Reset
    \/ PowerCycle
    \/ \E medium \in Discs \cup {NoDisc} : MediaChanged(medium)

Next == Guest \/ Machine

Spec == Init /\ [][Next]_vars

\* The machine ends every slice at the next pump edge, so edges keep coming.
FairSpec == Spec /\ WF_vars(Pump)

-----------------------------------------------------------------------------
(* Safety *)

\* An idle drive keeps nothing of the read before: no gate, no pending stop,
\* no spin-up, so a later command cannot be cut short by an earlier stop.
IdleDriveIsClean == drive.mode = "idle" => drive = IdleDrive

\* A decoding map has a half to take next, and no more time to run than the
\* half it plays lasts; process_audio_map's first branch is never taken.
DecodingMapIsTimed ==
    map.decoding =>
        /\ map.addr # NoHalf
        /\ map.counter \in IF map.format_sectors = 0 THEN {0, 1} ELSE 1..map.format_sectors

\* A block of CD-fed audio runs only while the player is on, and the first
\* CD-DA sector is not held back from a player that is on.
FedAudioBelongsToPlayer ==
    /\ fed.counter # 0 => fed.playing
    /\ fed.playing /\ drive.mode = "cdda" => fed.cdda_pending = Unfilled

CdicInv == TypeOK /\ IdleDriveIsClean /\ DecodingMapIsTimed /\ FedAudioBelongsToPlayer

-----------------------------------------------------------------------------
(* What a step may never do *)

\* IN4 is the level of what XBUF, and ABUF let through by the map bit, report.
LineAgrees == int_line <=> regs.xbuf \/ (regs.abuf /\ regs.map)

\* A sector came, or a map went on from a half that played.
ReportMade ==
    \/ ram'.header # ram.header
    \/ map.decoding /\ map.format_sectors # 0 /\ map'.addr # map.addr

\* IN4 agrees with the registers: no report is lost to a guest that sleeps,
\* and no level is kept that nothing reports.  Only the guest's own writes of
\* ABUF and XBUF, which skip update_interrupt_state, part them, and the next
\* report, or the next step that moves the line, ends that.
NoLostInterrupt ==
    [][\/ \E w \in BufferWrites : WriteBuffer(w[1], w[2])
       \/ /\ LineAgrees => LineAgrees'
          /\ ReportMade \/ int_line' # int_line => LineAgrees']_vars

\* When a map goes on from a half that played to the next one, ABUF reports
\* the half, so that the guest can refill it ("the completion bit reports
\* transfer of the preceding sound-map buffer, not the end of the map").
EachHalfReported ==
    [][map.decoding /\ map.format_sectors # 0 /\ map'.addr # map.addr =>
          regs'.abuf \/ regs' = ClearRegs]_vars

\* CD-fed ADPCM is inaudible for as long as a map decodes.
XaInaudibleUnderMap ==
    [][map.decoding /\ map'.decoding =>
          \A i \in DOMAIN audio_out' : audio_out'[i].from # "xa"]_vars

\* The sector DBUF names stays whole while the next one is delivered.
DataSurvivesNextDelivery ==
    [][regs.xbuf /\ ~regs.audio /\ regs'.xbuf => ram'.body[regs.slot] = ram.body[regs.slot]]_vars

\* Nothing is delivered after the sector a stop command waited for.
NothingAfterStop ==
    [][drive.stopping /\ ram'.header # ram.header => drive' = IdleDrive]_vars

\* A map that played a half tells the guest when it ends, by itself or after
\* a stop - but for a CD-DA read started under it: its first sector ends the
\* map and reports nothing (786-789), although "CD-RTOS gives memory sound maps
\* priority over disc audio" (477-479).
MapEndsReported ==
    [][map.decoding /\ ~map'.decoding /\ map.format_sectors # 0 /\ drive.mode # "cdda" =>
          regs'.abuf \/ regs' = ClearRegs]_vars

\* While it decodes, a map reports each half and silences CD-fed ADPCM; and
\* nothing but a CD-DA sector, or a reset, ends it unreported.
MapUndisturbed == EachHalfReported /\ XaInaudibleUnderMap /\ MapEndsReported

\* A delivery is the guest's to read, and the last one is the one stopped for.
DeliveriesKept == DataSurvivesNextDelivery /\ NothingAfterStop

\* Player and drive agree: the half to be played next is the older of two
\* ready ones, the only ready one, or else the one to be filled next.
Aligned ==
    IF fed.ready[0] = fed.ready[1]
    THEN /\ fed.next_write = fed.next_play
         /\ fed.ready[0] => ram.adpcm[fed.next_play].lba < ram.adpcm[1 - fed.next_play].lba
    ELSE fed.ready[fed.next_play] /\ fed.next_write = 1 - fed.next_play

\* The end of a map wakes no half that became ready under it: the player
\* waits for the next sector, which may overrun the halves.
Stalled == fed.counter = 0 /\ fed.ready[fed.next_play]

\* Once the player is aligned with the sectors received it stays so, across
\* gates and new reads, on a disc whose audio comes no faster than it plays
\* and as long as no sound map holds it up.
StaysAligned ==
    [][fed.playing /\ fed'.playing /\ ~map.decoding /\ ~Stalled /\ Aligned => Aligned']_vars

-----------------------------------------------------------------------------
(* Liveness *)

\* AUDCTL cannot stop the half being decoded, but the map ends after it.
StopReachesMap == map.stop_requested /\ map.decoding ~> ~map.decoding

\* A stopped read that is not gated ends, at the end of the disc at the latest.
StopEndsRead == drive.stopping ~> ~drive.stopping \/ ~drive.enabled \/ disc = NoDisc

-----------------------------------------------------------------------------
(* Statements of comments and documents that the code does not keep. *)

\* "Commands $23/$24 stop the active transport after the sector already under
\* the optical head has completed": the head does not go on while stopping.
StopFinishesSectorUnderHead ==
    [][drive.stopping /\ drive.enabled /\ drive.spinup = 0
          /\ disc # NoDisc /\ drive.lba \in DOMAIN disc /\ drive'.stopping =>
             drive'.lba = drive.lba]_vars
=============================================================================
