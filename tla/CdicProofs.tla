----------------------------- MODULE CdicProofs -----------------------------
(***************************************************************************)
(* Theorems about Cdic, for every value of its constants: its type          *)
(* invariant and CdicFacts are inductive together, and with them no report    *)
(* goes without its interrupt.  The handlers pass the controller on as one  *)
(* value, so the lemmas say, handler by handler, that a good controller     *)
(* stays good; the steps of the specification follow from them.  A second   *)
(* set of lemmas says what each handler leaves alone, and with the          *)
(* invariant proves what a step may never do to a map or a delivery.        *)
(***************************************************************************)
EXTENDS Cdic, TLAPS

(* What every handler keeps of the controller. *)
Controller == [regs : RegsType, drive : DriveType, map : MapType, fed : FedType,
               ram : RamType, int_line : BOOLEAN, audio_out : Seq(Block)]

CleanIfIdle(d) == d.mode = "idle" => d = IdleDrive

Timed(m) ==
    m.decoding => /\ m.addr # NoHalf
                  /\ m.counter \in IF m.format_sectors = 0 THEN {0, 1} ELSE 1..m.format_sectors

Belongs(f, d) ==
    /\ f.counter # 0 => f.playing
    /\ f.playing /\ d.mode = "cdda" => f.cdda_pending = Unfilled

(* While audio_tick has counted the map down and not yet taken a half. *)
Counted(s) == s \in Controller /\ CleanIfIdle(s.drive) /\ Belongs(s.fed, s.drive)

Good(s) == Counted(s) /\ Timed(s.map)

(* What IN4 is the level of, and whether it is. *)
Level(s) == s.regs.xbuf \/ (s.regs.abuf /\ s.regs.map)

Agrees(s) == s.int_line <=> Level(s)

(* A handler either leaves IN4 at its level or moves neither. *)
Settled(s, t) == Agrees(t) \/ (t.int_line = s.int_line /\ (Level(t) <=> Level(s)))

(* A handler keeps a controller good and its reports announced. *)
Keeps(s, t) == Good(t) /\ Settled(s, t)

(* What settles the line step by step settles it. *)
LEMMA SettledTransitive ==
    ASSUME NEW s, NEW t, NEW u, Settled(s, t), Settled(t, u) PROVE Settled(s, u)
BY DEF Settled, Agrees

-----------------------------------------------------------------------------
(* Data *)

(* sector_count_for_coding: no coding lasts longer than 16 sector times. *)
LEMMA SectorCount ==
    ASSUME NEW c \in Coding PROVE SectorCountForCoding(c) \in 0..16
<1> DEFINE bits     == CASE c[1] = 4 -> 4 [] c[1] \in {8, 16} -> 2 [] OTHER -> 0
           rate     == CASE c[2] = 18 -> 2 [] c[2] \in {37, 44} -> 1 [] OTHER -> 0
           channels == CASE c[3] = 1 -> 2 [] c[3] = 2 -> 1 [] OTHER -> 0
<1>1. bits \in {0, 2, 4} /\ rate \in {0, 1, 2} /\ channels \in {0, 1, 2}
  OBVIOUS
<1>2. SectorCountForCoding(c) = bits * rate * channels
  BY DEF SectorCountForCoding
<1> HIDE DEF bits, rate, channels
<1>3. bits * rate \in {0, 2, 4, 8}
  BY <1>1
<1> QED
  BY <1>1, <1>2, <1>3

(* A block pushed to the audio queue leaves a queue of blocks. *)
LEMMA BlockAppended ==
    ASSUME NEW q \in Seq(Block), NEW b \in Block PROVE Append(q, b) \in Seq(Block)
OBVIOUS

-----------------------------------------------------------------------------
(* A change of the player leaves the rest as it was. *)

(* A new value of the map fields changes nothing else of the controller. *)
LEMMA SetMap ==
    ASSUME NEW s, Counted(s), NEW m \in MapType
    PROVE  LET t == [s EXCEPT !.map = m]
           IN  /\ Counted(t) /\ t.map = m /\ t.drive = s.drive /\ t.fed = s.fed
               /\ t.regs = s.regs /\ t.int_line = s.int_line /\ t.ram = s.ram
BY DEF Counted, Controller

(* A new value of the CD-fed audio fields changes nothing else. *)
LEMMA SetFed ==
    ASSUME NEW s, Counted(s), NEW f \in FedType, Belongs(f, s.drive)
    PROVE  LET t == [s EXCEPT !.fed = f]
           IN  /\ Counted(t) /\ t.fed = f /\ t.drive = s.drive /\ t.map = s.map
               /\ t.regs = s.regs /\ t.int_line = s.int_line /\ t.ram = s.ram
BY DEF Counted, Controller

(* The constants the counters are set to lie in their range. *)
LEMMA CounterRange == 0 \in 0..16 /\ 2 \in 0..16
OBVIOUS

-----------------------------------------------------------------------------
(* The interrupt line *)

(* update_interrupt_state announces whatever the registers report. *)
LEMMA UpdateGood ==
    ASSUME NEW s, Good(s)
    PROVE  Good(UpdateInterruptState(s)) /\ Agrees(UpdateInterruptState(s))
BY DEF Good, Counted, Controller, RegsType, UpdateInterruptState, Settled, Agrees, Level

(* Setting ABUF with the update announces the half. *)
LEMMA RaiseAbufGood ==
    ASSUME NEW s, Good(s)
    PROVE  Good(RaiseAbuf(s)) /\ Agrees(RaiseAbuf(s))
<1>1. Good([s EXCEPT !.regs.abuf = TRUE])
  BY DEF Good, Counted, Controller, RegsType
<1> QED
  BY <1>1, UpdateGood DEF RaiseAbuf

-----------------------------------------------------------------------------
(* The audio processor *)

(* play_audio_data changes the audio queue at most. *)
LEMMA PlayAudioDataEmits ==
    ASSUME NEW s, Counted(s), NEW half \in Halves, NEW from \in {"xa", "map"}
    PROVE  \E q \in Seq(Block) : PlayAudioData(s, from, half) = [s EXCEPT !.audio_out = q]
<1> DEFINE b == [from |-> from, lba |-> s.ram.adpcm[half].lba]
<1>1. s.audio_out \in Seq(Block) /\ b \in Block
  BY DEF Counted, Controller, RamType, Block
<1>2. Append(s.audio_out, b) \in Seq(Block)
  BY <1>1, BlockAppended
<1>3. s = [s EXCEPT !.audio_out = s.audio_out]
  BY DEF Counted, Controller
<1>4. \/ PlayAudioData(s, from, half) = s
      \/ PlayAudioData(s, from, half) = [s EXCEPT !.audio_out = Append(s.audio_out, b)]
  BY DEF PlayAudioData
<1> QED
  BY <1>1, <1>2, <1>3, <1>4

(* play_cdda_sector changes the audio queue only. *)
LEMMA PlayCddaEmits ==
    ASSUME NEW s, Counted(s), NEW l \in Held
    PROVE  \E q \in Seq(Block) : PlayCdda(s, l) = [s EXCEPT !.audio_out = q]
<1> DEFINE b == [from |-> "cdda", lba |-> l]
<1>1. s.audio_out \in Seq(Block) /\ b \in Block
  BY DEF Counted, Controller, Block
<1>2. Append(s.audio_out, b) \in Seq(Block)
  BY <1>1, BlockAppended
<1> QED
  BY <1>2 DEF PlayCdda

(* The audio queue matters to no part of the invariant. *)
LEMMA EmitGood ==
    ASSUME NEW s, Counted(s), NEW q \in Seq(Block)
    PROVE  /\ Counted([s EXCEPT !.audio_out = q])
           /\ Good(s) => Good([s EXCEPT !.audio_out = q])
           /\ Settled(s, [s EXCEPT !.audio_out = q])
BY DEF Counted, Controller, Good, Settled, Agrees, Level

(* play_audio_data keeps the controller as it is. *)
LEMMA PlayAudioDataGood ==
    ASSUME NEW s, Counted(s), NEW half \in Halves, NEW from \in {"xa", "map"}
    PROVE  /\ Counted(PlayAudioData(s, from, half))
           /\ PlayAudioData(s, from, half).map = s.map
           /\ PlayAudioData(s, from, half).drive = s.drive
           /\ PlayAudioData(s, from, half).fed = s.fed
           /\ PlayAudioData(s, from, half).regs = s.regs
           /\ PlayAudioData(s, from, half).ram = s.ram
           /\ Settled(s, PlayAudioData(s, from, half))
<1>1. PICK q \in Seq(Block) : PlayAudioData(s, from, half) = [s EXCEPT !.audio_out = q]
  BY PlayAudioDataEmits
<1>2. /\ [s EXCEPT !.audio_out = q].map = s.map
      /\ [s EXCEPT !.audio_out = q].drive = s.drive
      /\ [s EXCEPT !.audio_out = q].fed = s.fed
      /\ [s EXCEPT !.audio_out = q].regs = s.regs
      /\ [s EXCEPT !.audio_out = q].ram = s.ram
  BY DEF Counted, Controller
<1>3. /\ Counted([s EXCEPT !.audio_out = q])
      /\ Settled(s, [s EXCEPT !.audio_out = q])
  BY EmitGood
<1> QED
  BY <1>1, <1>2, <1>3

(* play_cdda_sector keeps the controller good. *)
LEMMA PlayCddaGood ==
    ASSUME NEW s, Good(s), NEW l \in Held
    PROVE  Keeps(s, PlayCdda(s, l))
<1>1. PICK q \in Seq(Block) : PlayCdda(s, l) = [s EXCEPT !.audio_out = q]
  BY PlayCddaEmits DEF Good
<1> QED
  BY <1>1, EmitGood DEF Keeps, Good

(* try_play_realtime_audio: a counter is set only for a player that is on. *)
LEMMA TryPlayGood ==
    ASSUME NEW s, Counted(s)
    PROVE  /\ Counted(TryPlayRealtimeAudio(s))
           /\ TryPlayRealtimeAudio(s).map = s.map
           /\ TryPlayRealtimeAudio(s).drive = s.drive
           /\ TryPlayRealtimeAudio(s).ram = s.ram
           /\ Settled(s, TryPlayRealtimeAudio(s))
<1> DEFINE half  == s.fed.next_play
           c     == s.ram.adpcm[half].coding
           taken == [s EXCEPT !.fed.ready[half] = FALSE, !.fed.next_play = 1 - half]
           timed == [taken EXCEPT !.fed.counter = SectorCountForCoding(c)]
           ended == SetEnded([taken EXCEPT !.fed.playing = FALSE])
<1>1. half \in Halves /\ c \in Coding
  BY DEF Counted, Controller, FedType, RamType
<1>2. SectorCountForCoding(c) \in 0..16
  BY <1>1, SectorCount
<1>3. CASE ~s.fed.playing \/ s.map.decoding \/ s.fed.counter # 0 \/ ~s.fed.ready[half]
  BY <1>3 DEF TryPlayRealtimeAudio, Settled
<1>4. ASSUME s.fed.playing, ~s.map.decoding, s.fed.counter = 0, s.fed.ready[half]
      PROVE  /\ Counted(taken) /\ taken.map = s.map /\ taken.drive = s.drive
             /\ taken.regs = s.regs /\ taken.int_line = s.int_line /\ taken.fed.counter = 0
             /\ taken.fed.playing /\ taken.ram = s.ram
  <2> DEFINE f == [s.fed EXCEPT !.ready[half] = FALSE, !.next_play = 1 - half]
  <2>a. s.fed \in FedType /\ half \in Halves /\ 1 - half \in Halves
    BY <1>1 DEF Counted, Controller, Halves
  <2>b. [s.fed.ready EXCEPT ![half] = FALSE] \in [Halves -> BOOLEAN]
    BY <2>a DEF FedType
  <2> HIDE DEF half
  <2>1. f \in FedType /\ f.playing = s.fed.playing /\ f.counter = s.fed.counter
        /\ f.cdda_pending = s.fed.cdda_pending
    BY <2>a, <2>b DEF FedType
  <2>2. taken = [s EXCEPT !.fed = f]
    BY DEF Counted, Controller
  <2> HIDE DEF f, taken
  <2> QED
    BY <2>1, <2>2, <1>4 DEF Counted, Controller, Belongs
<1>5. CASE /\ s.fed.playing /\ ~s.map.decoding /\ s.fed.counter = 0 /\ s.fed.ready[half]
           /\ c = EndOfMap
  <2>1. TryPlayRealtimeAudio(s) = ended
    BY <1>5 DEF TryPlayRealtimeAudio
  <2> HIDE DEF taken
  <2>2. /\ Counted(ended) /\ ended.map = taken.map /\ ended.drive = taken.drive
        /\ ended.ram = taken.ram
    BY <1>4, <1>5 DEF SetEnded, Counted, Controller, FedType, RegsType, Belongs
  <2>3. Settled(s, ended)
    BY <1>4, <1>5 DEF SetEnded, Counted, Controller, FedType, RegsType, Settled, Agrees, Level
  <2> QED
    BY <2>1, <2>2, <2>3, <1>4, <1>5
<1>6. CASE /\ s.fed.playing /\ ~s.map.decoding /\ s.fed.counter = 0 /\ s.fed.ready[half]
           /\ c # EndOfMap
  <2>1. TryPlayRealtimeAudio(s) = PlayAudioData(timed, "xa", half)
    BY <1>6 DEF TryPlayRealtimeAudio
  <2> HIDE DEF taken
  <2>2. /\ Counted(timed) /\ timed.map = taken.map /\ timed.drive = taken.drive
        /\ timed.ram = taken.ram
        /\ Settled(s, timed)
    BY <1>2, <1>4, <1>6 DEF Counted, Controller, FedType, Belongs, Settled, Agrees, Level
  <2> HIDE DEF timed
  <2>3. Settled(timed, TryPlayRealtimeAudio(s))
    BY <2>1, <2>2, <1>1, PlayAudioDataGood
  <2> QED
    BY <2>1, <2>2, <2>3, <1>1, PlayAudioDataGood, SettledTransitive, <1>4, <1>6
<1> QED
  BY <1>3, <1>5, <1>6

(* The same for a controller whose map is timed. *)
LEMMA TryPlayKeeps ==
    ASSUME NEW s, Good(s)
    PROVE  Keeps(s, TryPlayRealtimeAudio(s))
BY TryPlayGood DEF Good, Keeps

(* Handlers that keep the controller good compose. *)
LEMMA KeepsTransitive ==
    ASSUME NEW s, NEW t, NEW u, Keeps(s, t), Keeps(t, u) PROVE Keeps(s, u)
BY SettledTransitive DEF Keeps

(* start_realtime_audio plays the CD-DA sector held back. *)
LEMMA StartRealtimeGood ==
    ASSUME NEW s, Good(s)
    PROVE  Keeps(s, StartRealtimeAudio(s))
<1> DEFINE on  == [s EXCEPT !.fed.playing = TRUE]
           fst == [on EXCEPT !.fed.next_play = 0]
           fre == [on EXCEPT !.fed.cdda_pending = Unfilled]
<1>0. s.fed.cdda_pending \in Held
  BY DEF Good, Counted, Controller, FedType
<1>1. CASE s.fed.playing
  BY <1>1 DEF StartRealtimeAudio, Keeps, Settled
<1>2. CASE ~s.fed.playing /\ s.drive.mode # "cdda"
  <2>1. Keeps(s, fst)
    BY <1>2 DEF Good, Counted, Controller, FedType, Halves, Belongs, Keeps, Settled, Agrees, Level
  <2>2. StartRealtimeAudio(s) = TryPlayRealtimeAudio(fst)
    BY <1>2 DEF StartRealtimeAudio
  <2> HIDE DEF fst
  <2> QED
    BY <2>1, <2>2, TryPlayKeeps, KeepsTransitive DEF Keeps
<1>3. CASE ~s.fed.playing /\ s.drive.mode = "cdda" /\ s.fed.cdda_pending = Unfilled
  <2>1. Keeps(s, on)
    BY <1>3 DEF Good, Counted, Controller, FedType, Belongs, Keeps, Settled, Agrees, Level
  <2> QED
    BY <1>3, <2>1 DEF StartRealtimeAudio
<1>4. CASE ~s.fed.playing /\ s.drive.mode = "cdda" /\ s.fed.cdda_pending # Unfilled
  <2>1. Keeps(s, fre)
    BY <1>4 DEF Good, Counted, Controller, FedType, Belongs, Keeps, Settled, Agrees, Level, Held, Unfilled
  <2>2. StartRealtimeAudio(s) = PlayCdda(fre, s.fed.cdda_pending)
    BY <1>4 DEF StartRealtimeAudio
  <2> HIDE DEF fre
  <2> QED
    BY <1>0, <2>1, <2>2, PlayCddaGood, KeepsTransitive DEF Keeps
<1> QED
  BY <1>1, <1>2, <1>3, <1>4

-----------------------------------------------------------------------------
(* The drive *)

(* cancel_disc_read leaves the drive idle and clean. *)
LEMMA CancelGood ==
    ASSUME NEW s, Good(s)
    PROVE  Keeps(s, CancelDiscRead(s)) /\ CancelDiscRead(s).drive = IdleDrive
<1>1. IdleDrive \in DriveType
  BY CdicAssumption DEF IdleDrive, DriveType, Modes, Lba
<1>2. CancelDiscRead(s).drive = IdleDrive
  BY DEF CancelDiscRead, Good, Counted, Controller
<1>3. IdleDrive.mode = "idle"
  BY DEF IdleDrive
<1> QED
  BY <1>1, <1>2, <1>3 DEF CancelDiscRead, Good, Counted, Controller, CleanIfIdle, Belongs, Keeps, Settled, Agrees, Level, Timed

(* deliver_sector, for a sector selected for audio. *)
LEMMA DeliverAudioGood ==
    ASSUME NEW s, Good(s), NEW x \in Sector
    PROVE  /\ Keeps(s, DeliverAudio(s, x)) /\ DeliverAudio(s, x).drive = s.drive
           /\ Agrees(DeliverAudio(s, x))
<1> DEFINE half == s.fed.next_write
           l    == s.drive.lba
           f    == [s.fed EXCEPT !.next_write = 1 - half, !.ready[half] = TRUE]
           r    == [s.regs EXCEPT !.slot = half, !.audio = TRUE, !.xbuf = TRUE, !.enable = TRUE]
           m    == [s.ram EXCEPT !.header[half] = l, !.adpcm[half] = [coding |-> x.coding, lba |-> l]]
           put  == [s EXCEPT !.fed = f, !.regs = r, !.ram = m]
<1>1. half \in Halves /\ 1 - half \in Halves /\ l \in Held /\ x.coding \in Coding
  BY DEF Good, Counted, Controller, FedType, DriveType, Halves, Held, Lba, Sector
<1>2. [s.fed.ready EXCEPT ![half] = TRUE] \in [Halves -> BOOLEAN]
  BY <1>1 DEF Good, Counted, Controller, FedType
<1>3. [s.ram.header EXCEPT ![half] = l] \in [Halves -> Held]
  BY <1>1 DEF Good, Counted, Controller, RamType
<1>4. [s.ram.adpcm EXCEPT ![half] = [coding |-> x.coding, lba |-> l]]
         \in [Halves -> [coding : Coding, lba : Held]]
  BY <1>1 DEF Good, Counted, Controller, RamType
<1>5. DeliverAudio(s, x) = TryPlayRealtimeAudio(UpdateInterruptState(put))
  BY DEF DeliverAudio
<1> HIDE DEF half, l
<1>6. f \in FedType /\ f.playing = s.fed.playing /\ f.counter = s.fed.counter
      /\ f.cdda_pending = s.fed.cdda_pending
  BY <1>1, <1>2 DEF Good, Counted, Controller, FedType
<1>7. r \in RegsType
  BY <1>1 DEF Good, Counted, Controller, RegsType
<1>8. m \in RamType
  BY <1>3, <1>4 DEF Good, Counted, Controller, RamType
<1> HIDE DEF f, r, m
<1>9. Good(put) /\ put.drive = s.drive
  BY <1>6, <1>7, <1>8 DEF Good, Counted, Controller, Belongs
<1> HIDE DEF put
<1>10. /\ Good(UpdateInterruptState(put)) /\ Agrees(UpdateInterruptState(put))
       /\ UpdateInterruptState(put).drive = s.drive
  BY <1>9, UpdateGood DEF UpdateInterruptState, Good, Counted, Controller
<1> QED
  BY <1>5, <1>10, TryPlayGood DEF Keeps, Good, Settled, Agrees

(* deliver_sector's writes for a data sector, one record at a time. *)
LEMMA DeliverDataValue ==
    ASSUME NEW s \in Controller
    PROVE  LET half == 1 - s.regs.slot
               l    == s.drive.lba
               r    == [s.regs EXCEPT !.slot = half, !.audio = FALSE, !.xbuf = TRUE, !.enable = TRUE]
               m    == [s.ram EXCEPT !.header[half] = l, !.body[half] = l]
           IN DeliverData(s) = UpdateInterruptState([s EXCEPT !.regs = r, !.ram = m])
<1> DEFINE half == 1 - s.regs.slot
           l    == s.drive.lba
           r    == [s.regs EXCEPT !.slot = half, !.audio = FALSE, !.xbuf = TRUE, !.enable = TRUE]
           m    == [s.ram EXCEPT !.header[half] = l, !.body[half] = l]
           regs1 == [s EXCEPT !.regs.slot = half, !.regs.audio = FALSE,
                              !.regs.xbuf = TRUE, !.regs.enable = TRUE]
           all  == [s EXCEPT !.regs.slot = half, !.regs.audio = FALSE,
                             !.regs.xbuf = TRUE, !.regs.enable = TRUE,
                             !.ram.header[half] = l, !.ram.body[half] = l]
<1>1. DeliverData(s) = UpdateInterruptState(all)
  BY DEF DeliverData
<1> HIDE DEF half, l
<1>2. regs1 = [s EXCEPT !.regs = r]
  BY DEF Controller
<1>3. all = [regs1 EXCEPT !.ram.header[half] = l, !.ram.body[half] = l]
  OBVIOUS
<1> HIDE DEF regs1, r
<1>4. regs1.ram = s.ram /\ DOMAIN regs1 = DOMAIN s
  BY <1>2 DEF Controller
<1>5. "ram" \in DOMAIN regs1
  BY <1>4 DEF Controller
<1>6. [regs1 EXCEPT !.ram.header[half] = l, !.ram.body[half] = l] = [regs1 EXCEPT !.ram = m]
  BY <1>4, <1>5
<1>7. all = [s EXCEPT !.regs = r, !.ram = m]
  BY <1>2, <1>3, <1>6
<1> HIDE DEF all, m
<1> QED
  BY <1>1, <1>7 DEF half, l, r, m

(* deliver_sector, for a data sector. *)
LEMMA DeliverDataGood ==
    ASSUME NEW s, Good(s)
    PROVE  /\ Keeps(s, DeliverData(s)) /\ DeliverData(s).drive = s.drive
           /\ Agrees(DeliverData(s))
<1> DEFINE half == 1 - s.regs.slot
           l    == s.drive.lba
           r    == [s.regs EXCEPT !.slot = half, !.audio = FALSE, !.xbuf = TRUE, !.enable = TRUE]
           m    == [s.ram EXCEPT !.header[half] = l, !.body[half] = l]
           put  == [s EXCEPT !.regs = r, !.ram = m]
<1>1. half \in Halves /\ l \in Held
  BY DEF Good, Counted, Controller, RegsType, DriveType, Halves, Held, Lba
<1>2. [s.ram.header EXCEPT ![half] = l] \in [Halves -> Held]
  BY <1>1 DEF Good, Counted, Controller, RamType
<1>3. [s.ram.body EXCEPT ![half] = l] \in [Halves -> Held]
  BY <1>1 DEF Good, Counted, Controller, RamType
<1>4. DeliverData(s) = UpdateInterruptState(put)
  BY DeliverDataValue DEF Good, Counted
<1> HIDE DEF half, l
<1>5. r \in RegsType
  BY <1>1 DEF Good, Counted, Controller, RegsType
<1>6. m \in RamType
  BY <1>2, <1>3 DEF Good, Counted, Controller, RamType
<1> HIDE DEF r, m
<1>7. Good(put) /\ put.drive = s.drive
  BY <1>5, <1>6 DEF Good, Counted, Controller
<1> HIDE DEF put
<1> QED
  BY <1>4, <1>7, UpdateGood DEF UpdateInterruptState, Good, Counted, Controller, Keeps, Settled

(* deliver_sector and the stop request it honours. *)
LEMMA DeliverSectorGood ==
    ASSUME NEW s, Good(s), NEW x \in Sector
    PROVE  Keeps(s, DeliverSector(s, x))
<1> DEFINE put == IF s.drive.mode = "mode2" /\ IsMode2AudioSelected(x)
                  THEN DeliverAudio(s, x) ELSE DeliverData(s)
<1>1. Keeps(s, put)
  BY DeliverAudioGood, DeliverDataGood
<1>2. DeliverSector(s, x) = IF s.drive.stopping THEN CancelDiscRead(put) ELSE put
  BY DEF DeliverSector
<1> HIDE DEF put
<1> QED
  BY <1>1, <1>2, CancelGood, KeepsTransitive DEF Keeps

(* receive_cdda_sector holds a sector back only for a player that is off. *)
LEMMA ReceiveCddaGood ==
    ASSUME NEW s, Good(s), ~s.map.decoding, NEW l \in Held
    PROVE  Keeps(s, ReceiveCddaSector(s, l))
<1>1. CASE s.fed.playing
  BY <1>1, PlayCddaGood DEF ReceiveCddaSector
<1>2. CASE ~s.fed.playing
  BY <1>2 DEF ReceiveCddaSector, Good, Counted, Controller, FedType, Belongs, Keeps, Settled, Agrees, Level
<1> QED
  BY <1>1, <1>2

(* process_disc_sector, on each of its four ways. *)
LEMMA ProcessDiscSectorGood ==
    ASSUME NEW s, Good(s), NEW x \in Sector
    PROVE  Keeps(s, ProcessDiscSector(s, x))
<1> DEFINE quiet    == [s EXCEPT !.map.counter = 2, !.map.decoding = FALSE]
           received == ReceiveCddaSector(quiet, s.drive.lba)
<1>1. Keeps(s, quiet) /\ ~quiet.map.decoding
  <2> DEFINE m == [s.map EXCEPT !.counter = 2, !.decoding = FALSE]
  <2>1. m \in MapType /\ ~m.decoding
    BY CounterRange DEF Good, Counted, Controller, MapType
  <2>2. quiet = [s EXCEPT !.map = m]
    BY DEF Good, Counted, Controller
  <2> HIDE DEF m, quiet
  <2> QED
    BY <2>1, <2>2, SetMap DEF Good, Timed, Keeps, Settled, Agrees, Level
<1>2. s.drive.lba \in Held
  BY DEF Good, Counted, Controller, DriveType, Held
<1>3. Keeps(s, DeliverSector(s, x))
  BY DeliverSectorGood
<1>4. /\ ProcessDiscSector(s, x) \in {s, DeliverSector(s, x), received, DeliverSector(received, x)}
  BY DEF ProcessDiscSector
<1> HIDE DEF quiet
<1>5. Keeps(quiet, received)
  BY <1>1, <1>2, ReceiveCddaGood DEF Keeps
<1> HIDE DEF received
<1>6. Keeps(s, received)
  BY <1>1, <1>5, KeepsTransitive
<1>7. Keeps(s, DeliverSector(received, x))
  BY <1>6, DeliverSectorGood, KeepsTransitive DEF Keeps
<1> QED
  BY <1>3, <1>4, <1>6, <1>7 DEF Keeps, Settled

(* The end of sector_tick: the head advances, unless the read is over. *)
LEMMA AdvanceGood ==
    ASSUME NEW s, Good(s)
    PROVE  Keeps(s, Advance(s))
<1>1. CASE s.drive.mode = "idle"
  BY <1>1, CancelGood DEF Advance
<1>2. CASE s.drive.mode # "idle"
  <2>1. NextLba(s.drive.lba) \in Lba
    BY CdicAssumption DEF NextLba, Lba, Good, Counted, Controller, DriveType
  <2>2. Advance(s) = [s EXCEPT !.drive.lba = NextLba(s.drive.lba)]
    BY <1>2 DEF Advance
  <2> QED
    BY <1>2, <2>1, <2>2 DEF Good, Counted, Controller, DriveType, CleanIfIdle, Belongs, Keeps, Settled, Agrees, Level
<1> QED
  BY <1>1, <1>2

(* sector_tick, on each of its early returns and on a sector of the disc. *)
LEMMA SectorTickGood ==
    ASSUME NEW s, Good(s), disc \in Discs \cup {NoDisc}
    PROVE  Keeps(s, SectorTick(s))
<1>1. CASE s.drive.mode = "idle"
  BY <1>1 DEF SectorTick, Keeps, Settled
<1>2. CASE s.drive.mode # "idle" /\ s.drive.spinup # 0
  <2>1. s.drive.spinup - 1 \in 0..SpinupTicks
    BY <1>2, CdicAssumption DEF Good, Counted, Controller, DriveType
  <2>2. SectorTick(s) = [s EXCEPT !.drive.spinup = s.drive.spinup - 1]
    BY <1>2 DEF SectorTick
  <2> QED
    BY <1>2, <2>1, <2>2 DEF Good, Counted, Controller, DriveType, CleanIfIdle, Belongs, Keeps, Settled, Agrees, Level
<1>3. CASE s.drive.mode # "idle" /\ s.drive.spinup = 0 /\ ~s.drive.enabled
  BY <1>3, AdvanceGood DEF SectorTick
<1>4. CASE s.drive.mode # "idle" /\ s.drive.spinup = 0 /\ s.drive.enabled
  <2>1. CASE disc = NoDisc
    BY <1>4, <2>1 DEF SectorTick, Keeps, Settled
  <2>2. CASE disc # NoDisc /\ s.drive.lba \notin DOMAIN disc
    BY <1>4, <2>2, CancelGood DEF SectorTick
  <2>3. CASE disc # NoDisc /\ s.drive.lba \in DOMAIN disc
    <3> DEFINE x == disc[s.drive.lba]
    <3>1. x \in Sector
      BY <2>3, CdicAssumption
    <3>2. SectorTick(s) = Advance(ProcessDiscSector(s, x))
      BY <1>4, <2>3 DEF SectorTick
    <3> HIDE DEF x
    <3> QED
      BY <3>1, <3>2, ProcessDiscSectorGood, AdvanceGood, KeepsTransitive DEF Keeps
  <2> QED
    BY <2>1, <2>2, <2>3
<1> QED
  BY <1>1, <1>2, <1>3, <1>4

-----------------------------------------------------------------------------
(* Sound maps.  Between the decrement of its counter and the next half the  *)
(* map is counted down but not timed.                                       *)

(* A map that has ended is timed, whatever its counter. *)
LEMMA EndMapGood ==
    ASSUME NEW s, Counted(s)
    PROVE  /\ Good(EndMap(s)) /\ EndMap(s).regs = s.regs /\ EndMap(s).int_line = s.int_line
<1> DEFINE m == [s.map EXCEPT !.decoding = FALSE, !.addr = NoHalf, !.format_sectors = 0]
<1>1. m \in MapType /\ ~m.decoding
  BY CounterRange DEF Counted, Controller, MapType
<1>2. EndMap(s) = [s EXCEPT !.map = m]
  BY DEF EndMap
<1> HIDE DEF m
<1> QED
  BY <1>1, <1>2, SetMap DEF Good, Timed

(* process_audio_map times the half it takes, or ends the map. *)
LEMMA ProcessAudioMapGood ==
    ASSUME NEW s, Counted(s), s.map.decoding
    PROVE  /\ Good(ProcessAudioMap(s))
           /\ Settled(s, ProcessAudioMap(s))
<1> DEFINE half   == s.map.addr
           c      == s.ram.adpcm[half].coding
           n      == SectorCountForCoding(c)
           zero   == [s EXCEPT !.map.counter = 0]
           passed == [s EXCEPT !.map.addr = 1 - half]
           timed  == [passed EXCEPT !.map.format_sectors = n, !.map.counter = n]
           played == PlayAudioData(timed, "map", half)
           last   == [passed EXCEPT !.map.counter = 0]
           ended  == SetEnded(EndMap(last))
           next   == IF c = EndOfMap THEN ended ELSE played
<1>1. CASE half = NoHalf
  <2>1. Counted(zero)
    <3>1. [s.map EXCEPT !.counter = 0] \in MapType
      BY CounterRange DEF Counted, Controller, MapType
    <3> QED
      BY <3>1, SetMap
  <2>2. ProcessAudioMap(s) = RaiseAbuf(EndMap(zero))
    BY <1>1 DEF ProcessAudioMap
  <2> HIDE DEF zero
  <2> QED
    BY <2>1, <2>2, EndMapGood, RaiseAbufGood DEF Settled
<1>2. CASE half # NoHalf
  <2>1. half \in Halves /\ 1 - half \in Halves /\ c \in Coding
    BY <1>2 DEF Counted, Controller, MapType, RamType, Halves, NoHalf
  <2>2. n \in 0..16
    BY <2>1, SectorCount
  <2>3. ProcessAudioMap(s) = IF s.map.format_sectors # 0 THEN RaiseAbuf(next) ELSE next
    BY <1>2 DEF ProcessAudioMap
  <2>4. Counted(last) /\ last.regs = s.regs /\ last.int_line = s.int_line
    <3> DEFINE m == [s.map EXCEPT !.addr = 1 - half, !.counter = 0]
    <3>1. m \in MapType
      <4> HIDE DEF half
      <4> QED
        BY <2>1, CounterRange DEF Counted, Controller, MapType
    <3>2. last = [s EXCEPT !.map = m]
      BY DEF Counted, Controller
    <3> HIDE DEF m, last
    <3> QED
      BY <3>1, <3>2, SetMap
  <2>5. Good(timed) /\ timed.regs = s.regs /\ timed.int_line = s.int_line
    <3> DEFINE m == [s.map EXCEPT !.addr = 1 - half, !.format_sectors = n, !.counter = n]
    <3>1. m \in MapType /\ Timed(m)
      <4> HIDE DEF half, n
      <4>1. m \in MapType /\ m.addr = 1 - half /\ m.format_sectors = n /\ m.counter = n
        BY <2>1, <2>2 DEF Counted, Controller, MapType
      <4> HIDE DEF m
      <4> QED
        BY <4>1, <2>1, <2>2 DEF Timed, Halves, NoHalf
    <3>2. timed = [s EXCEPT !.map = m]
      BY DEF Counted, Controller
    <3> HIDE DEF m, timed
    <3> QED
      BY <3>1, <3>2, SetMap DEF Good
  <2> HIDE DEF half, c, n, timed, last
  <2>6. Good(played) /\ Settled(s, played)
    <3>1. Settled(s, timed)
      BY <2>5 DEF Settled, Level
    <3>2. Good(played) /\ Settled(timed, played)
      BY <2>1, <2>5, PlayAudioDataGood DEF Good
    <3> QED
      BY <3>1, <3>2, SettledTransitive
  <2>7. Good(ended) /\ Settled(s, ended)
    <3> DEFINE e == EndMap(last)
    <3>1. Good(e) /\ e.regs = s.regs /\ e.int_line = s.int_line
      BY <2>4, EndMapGood
    <3> HIDE DEF e
    <3>2. Good(SetEnded(e)) /\ Settled(e, SetEnded(e))
      BY <3>1 DEF SetEnded, Good, Counted, Controller, RegsType, Settled, Agrees, Level
    <3> QED
      BY <3>1, <3>2 DEF e, Settled, Agrees, Level
  <2>8. Good(next) /\ Settled(s, next)
    BY <2>6, <2>7
  <2> HIDE DEF next
  <2> QED
    BY <2>3, <2>8, RaiseAbufGood DEF Settled
<1> QED
  BY <1>1, <1>2

(* audio_tick honours a stop request and announces the half. *)
LEMMA FinishStopGood ==
    ASSUME NEW s, Counted(s)
    PROVE  Good(FinishStop(s)) /\ Agrees(FinishStop(s))
<1>1. Counted([s EXCEPT !.map.stop_requested = FALSE])
  BY DEF Counted, Controller, MapType
<1> QED
  BY <1>1, EndMapGood, RaiseAbufGood DEF FinishStop

(* audio_tick counts CD-fed audio down to the next half. *)
LEMMA CountRealtimeGood ==
    ASSUME NEW s, Good(s)
    PROVE  Keeps(s, CountRealtime(s))
<1>1. CASE s.fed.counter = 0
  BY <1>1 DEF CountRealtime, Keeps, Settled
<1>2. CASE s.fed.counter = 1
  <2>1. Keeps(s, [s EXCEPT !.fed.counter = 0])
    <3> DEFINE f == [s.fed EXCEPT !.counter = 0]
    <3>1. f \in FedType /\ Belongs(f, s.drive)
      BY CounterRange DEF Good, Counted, Controller, FedType, Belongs
    <3> HIDE DEF f
    <3>2. Keeps(s, [s EXCEPT !.fed = f])
      BY <3>1, SetFed DEF Good, Keeps, Settled, Agrees, Level
    <3> QED
      BY <3>2 DEF f
  <2> QED
    BY <1>2, <2>1, TryPlayKeeps, KeepsTransitive DEF CountRealtime, Keeps
<1>3. CASE s.fed.counter \notin {0, 1}
  <2>1. s.fed.counter - 1 \in 0..16 /\ CountRealtime(s) = [s EXCEPT !.fed.counter = s.fed.counter - 1]
    BY <1>3 DEF CountRealtime, Good, Counted, Controller, FedType
  <2> QED
    BY <1>3, <2>1 DEF Good, Counted, Controller, FedType, Belongs, Keeps, Settled, Agrees, Level
<1> QED
  BY <1>1, <1>2, <1>3

(* audio_tick takes a half when the counter is down, so the map is timed again. *)
LEMMA AudioTickGood ==
    ASSUME NEW s, Good(s)
    PROVE  Keeps(s, AudioTick(s))
<1> DEFINE fedDone == CountRealtime(s)
           counted == IF fedDone.map.counter = 0 THEN fedDone
                      ELSE [fedDone EXCEPT !.map.counter = fedDone.map.counter - 1]
<1>1. Keeps(s, fedDone)
  BY CountRealtimeGood
<1>2. AudioTick(s) = IF counted.map.counter > 0 \/ ~counted.map.decoding THEN counted
                     ELSE IF counted.map.stop_requested THEN FinishStop(counted)
                     ELSE ProcessAudioMap(counted)
  BY DEF AudioTick
<1> HIDE DEF fedDone
<1>3. Counted(counted) /\ Settled(s, counted)
  <2>1. fedDone.map \in MapType
    BY <1>1 DEF Keeps, Good, Counted, Controller
  <2>2. fedDone.map.counter # 0 => fedDone.map.counter - 1 \in 0..16
    BY <2>1 DEF MapType
  <2> QED
    BY <1>1, <2>1, <2>2 DEF Keeps, Good, Counted, Controller, MapType, Settled, Agrees, Level
<1>4. counted.map.counter > 0 \/ ~counted.map.decoding => Timed(counted.map)
  <2> DEFINE m == fedDone.map
  <2>1. m \in MapType /\ Timed(m) /\ fedDone \in Controller
    BY <1>1 DEF Keeps, Good, Counted, Controller
  <2>2. CASE m.counter = 0
    <3>1. counted.map = m
      BY <2>2
    <3> QED
      BY <3>1, <2>1
  <2>3. CASE m.counter # 0
    <3>1. counted.map = [m EXCEPT !.counter = m.counter - 1]
      BY <2>1, <2>3 DEF Controller
    <3> HIDE DEF m, counted
    <3>2. [m EXCEPT !.counter = m.counter - 1].decoding = m.decoding
      BY <2>1 DEF MapType
    <3>3. [m EXCEPT !.counter = m.counter - 1].format_sectors = m.format_sectors
      BY <2>1 DEF MapType
    <3>4. [m EXCEPT !.counter = m.counter - 1].addr = m.addr
      BY <2>1 DEF MapType
    <3>5. [m EXCEPT !.counter = m.counter - 1].counter = m.counter - 1
      BY <2>1 DEF MapType
    <3>6. m.counter \in 0..16 /\ m.format_sectors \in 0..16
      BY <2>1 DEF MapType
    <3>7. counted.map.counter > 0 => m.counter > 1
      BY <3>1, <3>5, <3>6
    <3>8. SUFFICES ASSUME counted.map.decoding, counted.map.counter > 0
                   PROVE  Timed(counted.map)
      BY DEF Timed
    <3>9. m.decoding
      BY <3>1, <3>2, <3>8
    <3>10. m.addr # NoHalf /\ m.counter \in IF m.format_sectors = 0 THEN {0, 1} ELSE 1..m.format_sectors
      BY <2>1, <3>9 DEF Timed
    <3>a. ASSUME NEW c \in 0..16, NEW f \in 0..16, c > 1,
                 c \in IF f = 0 THEN {0, 1} ELSE 1..f
          PROVE  f # 0 /\ c - 1 \in 1..f
      BY <3>a
    <3>11. m.format_sectors # 0 /\ m.counter - 1 \in 1..m.format_sectors
      BY <3>6, <3>7, <3>8, <3>10, <3>a
    <3> QED
      BY <3>1, <3>3, <3>4, <3>5, <3>10, <3>11 DEF Timed
  <2> QED
    BY <2>2, <2>3
<1> HIDE DEF counted
<1>5. CASE counted.map.counter > 0 \/ ~counted.map.decoding
  BY <1>2, <1>3, <1>4, <1>5 DEF Good, Keeps
<1>6. CASE ~(counted.map.counter > 0 \/ ~counted.map.decoding)
  <2>1. Good(AudioTick(s)) /\ Settled(counted, AudioTick(s))
    BY <1>2, <1>3, <1>6, FinishStopGood, ProcessAudioMapGood DEF Settled
  <2> QED
    BY <1>3, <2>1, SettledTransitive DEF Keeps
<1> QED
  BY <1>5, <1>6

-----------------------------------------------------------------------------
(* The guest's writes *)

(* init_disc_read, for each kind of read. *)
LEMMA InitDiscReadGood ==
    ASSUME NEW s, Good(s), box \in BoxType, NEW mode \in Modes \ {"idle"}
    PROVE  Keeps(s, InitDiscRead(s, mode))
<1> DEFINE d == [mode |-> mode, enabled |-> s.regs.enable, stopping |-> FALSE,
                 spinup |-> SpinupTicks, lba |-> box.time]
           started == [s EXCEPT !.drive = d]
           fresh == [SilentFed EXCEPT !.playing = s.fed.playing,
                                      !.cdda_pending = s.fed.cdda_pending]
           free == [s.fed EXCEPT !.cdda_pending = Unfilled]
<1>1. d \in DriveType /\ d.mode = mode
  <2>1. box.time \in Lba
    <3>1. box.time \in Starts \cup {0}
      BY DEF BoxType
    <3>2. 0 \in 0..MaxLba
      BY CdicAssumption
    <3> QED
      BY <3>1, <3>2, CdicAssumption DEF Lba
  <2>2. SpinupTicks \in 0..SpinupTicks
    BY CdicAssumption
  <2> QED
    BY <2>1, <2>2 DEF Good, Counted, Controller, RegsType, DriveType
<1>2. CleanIfIdle(d)
  BY <1>1 DEF CleanIfIdle
<1>3. fresh \in FedType /\ fresh.counter = 0 /\ fresh.cdda_pending = s.fed.cdda_pending
  BY CounterRange DEF SilentFed, Good, Counted, Controller, FedType, Halves
<1>4. /\ free \in FedType /\ free.cdda_pending = Unfilled /\ free.counter = s.fed.counter
      /\ free.playing = s.fed.playing
  BY DEF Good, Counted, Controller, FedType, Held
<1> HIDE DEF d
<1>5. CASE mode = "mode2"
  <2>1. InitDiscRead(s, mode) = [s EXCEPT !.drive = d, !.fed = fresh]
    BY <1>5 DEF InitDiscRead, d, Good, Counted, Controller
  <2> HIDE DEF fresh
  <2> QED
    BY <2>1, <1>1, <1>2, <1>3, <1>5 DEF Good, Counted, Controller, Belongs, Keeps, Settled, Agrees, Level
<1>6. CASE mode = "cdda"
  <2>1. InitDiscRead(s, mode) = [s EXCEPT !.drive = d, !.fed = free]
    BY <1>6 DEF InitDiscRead, d, Good, Counted, Controller
  <2> HIDE DEF free
  <2> QED
    BY <2>1, <1>1, <1>2, <1>4, <1>6 DEF Good, Counted, Controller, Belongs, Keeps, Settled, Agrees, Level
<1>7. CASE mode \notin {"mode2", "cdda"}
  <2>1. InitDiscRead(s, mode) = [s EXCEPT !.drive = d]
    BY <1>7 DEF InitDiscRead, d
  <2> QED
    BY <2>1, <1>1, <1>2, <1>7 DEF Good, Counted, Controller, Belongs, Keeps, Settled, Agrees, Level
<1> QED
  BY <1>5, <1>6, <1>7

(* handle_command, for every command word. *)
LEMMA HandleCommandGood ==
    ASSUME NEW s, Good(s), box \in BoxType
    PROVE  Keeps(s, HandleCommand(s))
<1>1. CASE box.command = "23" /\ s.drive.mode # "idle"
  <2> DEFINE d == [s.drive EXCEPT !.enabled = s.regs.enable, !.stopping = TRUE]
  <2>1. d \in DriveType /\ d.mode = s.drive.mode
    BY DEF Good, Counted, Controller, DriveType, RegsType
  <2>2. box.command \notin DOMAIN ReadMode /\ box.command # "2B"
    BY <1>1 DEF ReadMode
  <2>3. HandleCommand(s) = [s EXCEPT !.drive = d]
    <3>1. HandleCommand(s) = [s EXCEPT !.drive.enabled = s.regs.enable, !.drive.stopping = TRUE]
      BY <1>1, <2>2 DEF HandleCommand
    <3> QED
      BY <3>1 DEF Good, Counted, Controller
  <2> HIDE DEF d
  <2> QED
    BY <1>1, <2>1, <2>3 DEF Good, Counted, Controller, CleanIfIdle, Belongs, Keeps, Settled, Agrees, Level
<1>2. CASE ~(box.command = "23" /\ s.drive.mode # "idle") /\ box.command = "2B"
  <2>1. HandleCommand(s) = CancelDiscRead(s)
    BY <1>2 DEF HandleCommand, ReadMode
  <2> QED
    BY <2>1, CancelGood
<1>3. CASE ~(box.command = "23" /\ s.drive.mode # "idle") /\ box.command \in {"27", "28", "29", "2A"}
  <2>1. box.command \in DOMAIN ReadMode /\ box.command # "2B" /\ box.command # "23"
    BY <1>3 DEF ReadMode
  <2>2. ReadMode[box.command] \in Modes \ {"idle"}
    BY <1>3 DEF ReadMode, Modes
  <2>3. HandleCommand(s) = InitDiscRead(s, ReadMode[box.command])
    BY <2>1 DEF HandleCommand
  <2> QED
    BY <2>2, <2>3, InitDiscReadGood
<1>4. CASE ~(box.command = "23" /\ s.drive.mode # "idle") /\ box.command \notin {"2B", "27", "28", "29", "2A"}
  <2>1. HandleCommand(s) = s
    BY <1>4 DEF HandleCommand, ReadMode
  <2> QED
    BY <2>1 DEF Keeps, Settled
<1> QED
  BY <1>1, <1>2, <1>3, <1>4

(* AUDCTL with bit 11 clear: the player stops, a decoding map is asked to. *)
LEMMA StopPlayingGood ==
    ASSUME NEW s, Good(s) PROVE Good(StopPlaying(s))
<1> DEFINE f == [s.fed EXCEPT !.playing = FALSE, !.counter = 0, !.cdda_pending = Unfilled]
           quiet == StopRealtimeAudio(s)
<1>1. f \in FedType /\ f.counter = 0 /\ f.cdda_pending = Unfilled
  BY CounterRange DEF Good, Counted, Controller, FedType, Held
<1>2. quiet = [s EXCEPT !.fed = f]
  BY DEF StopRealtimeAudio, Good, Counted, Controller
<1>3. Belongs(f, s.drive)
  BY <1>1 DEF Belongs
<1> HIDE DEF f, quiet
<1>4. Counted(quiet) /\ quiet.map = s.map
  BY <1>1, <1>2, <1>3, SetFed DEF Good
<1>5. CASE s.map.decoding
  <2> DEFINE m == [quiet.map EXCEPT !.stop_requested = TRUE]
  <2>1. m \in MapType /\ Timed(m)
    BY <1>4 DEF Good, Counted, Controller, MapType, Timed
  <2>2. StopPlaying(s) = [quiet EXCEPT !.map = m]
    BY <1>5 DEF StopPlaying, quiet
  <2> HIDE DEF m
  <2> QED
    BY <1>4, <2>1, <2>2, SetMap DEF Good
<1>6. CASE ~s.map.decoding
  <2> DEFINE m == [quiet.map EXCEPT !.addr = NoHalf]
  <2>1. m \in MapType /\ Timed(m)
    BY <1>4, <1>6 DEF Good, Counted, Controller, MapType, Timed
  <2>2. StopPlaying(s) = [quiet EXCEPT !.map = m]
    BY <1>6 DEF StopPlaying, quiet
  <2> HIDE DEF m
  <2> QED
    BY <1>4, <2>1, <2>2, SetMap DEF Good
<1> QED
  BY <1>5, <1>6

(* AUDCTL starts a map: at the first half, after one tick. *)
LEMMA StartMapGood ==
    ASSUME NEW s, Good(s) PROVE Good(StartMap(s))
<1> DEFINE alone == IF s.drive.mode = "cdda" THEN CancelDiscRead(s) ELSE s
           m == [decoding |-> TRUE, stop_requested |-> FALSE, addr |-> 0,
                 format_sectors |-> 0, counter |-> 1]
<1>1. Good(alone)
  BY CancelGood DEF Keeps
<1>2. StartMap(s) = [alone EXCEPT !.map = m]
  BY DEF StartMap
<1>3. m \in MapType /\ Timed(m)
  BY DEF MapType, Timed, Halves, NoHalf
<1> HIDE DEF alone, m
<1> QED
  BY <1>1, <1>2, <1>3, SetMap DEF Good

-----------------------------------------------------------------------------
(* The actions *)

(* The state predicates in terms of the controller as one value. *)
CdicFacts == IdleDriveIsClean /\ DecodingMapIsTimed /\ FedAudioBelongsToPlayer

AllInv == TypeOK /\ CdicFacts

LineLevel == regs.xbuf \/ (regs.abuf /\ regs.map)

(* A step leaves IN4 at its level, or moves neither. *)
LineSettled == LineAgrees' \/ (int_line' = int_line /\ (LineLevel' <=> LineLevel))

(* The invariant of a state, said of the controller as one value. *)
LEMMA NowGood ==
    ASSUME AllInv
    PROVE  Good(Now) /\ box \in BoxType /\ disc \in Discs \cup {NoDisc}
<1>1. <<>> \in Seq(Block)
  OBVIOUS
<1>2. Now \in Controller
  BY <1>1 DEF AllInv, TypeOK, Now, Controller
<1> QED
  BY <1>2 DEF AllInv, TypeOK, CdicFacts, IdleDriveIsClean, DecodingMapIsTimed,
     FedAudioBelongsToPlayer, Now, Good, Counted, CleanIfIdle, Timed, Belongs

(* A step to a good controller re-establishes the invariant, and settles the *)
(* line as far as the controller has.                                       *)
LEMMA BecomesGood ==
    ASSUME NEW s, Good(s), Becomes(s),
           box' \in BoxType, disc' \in Discs \cup {NoDisc}
    PROVE  AllInv' /\ (Settled(Now, s) => LineSettled)
<1>1. TypeOK'
  BY DEF Good, Counted, Controller, Becomes, TypeOK
<1>2. CdicFacts'
  BY DEF Good, Counted, CleanIfIdle, Timed, Belongs, Becomes, CdicFacts, IdleDriveIsClean,
     DecodingMapIsTimed, FedAudioBelongsToPlayer
<1>3. Settled(Now, s) => LineSettled
  BY DEF Settled, Agrees, Level, Becomes, Now, LineSettled, LineAgrees, LineLevel
<1> QED
  BY <1>1, <1>2, <1>3 DEF AllInv

(* A new value of the registers changes nothing else. *)
LEMMA RegsSet ==
    ASSUME NEW s, Good(s), NEW r \in RegsType
    PROVE  LET t == [s EXCEPT !.regs = r]
           IN Good(t) /\ t.regs = r /\ t.int_line = s.int_line
BY DEF Good, Counted, Controller

(* A register that reports what it reported moves neither level nor line. *)
LEMMA RegsLevel ==
    ASSUME NEW s, Good(s), NEW r \in RegsType,
           r.xbuf = s.regs.xbuf, r.abuf = s.regs.abuf, r.map = s.regs.map
    PROVE  Good([s EXCEPT !.regs = r]) /\ Settled(s, [s EXCEPT !.regs = r])
BY RegsSet DEF Settled, Agrees, Level

(* Mailbox words keep their ranges; the controller does not notice them. *)
LEMMA MailboxStep ==
    ASSUME AllInv, WriteMailbox PROVE AllInv' /\ LineSettled
<1>1. Becomes(Now) /\ UNCHANGED disc
  BY DEF WriteMailbox, WriteCommand, WriteTime, WriteFile, WriteChannel, WriteAchan
<1>2. box \in BoxType
  BY NowGood
<1>3. box' \in BoxType
  <2>1. CASE \E c \in Commands : WriteCommand(c)
    BY <1>2, <2>1 DEF WriteCommand, BoxType
  <2>2. CASE \E l \in Starts : WriteTime(l)
    BY <1>2, <2>2 DEF WriteTime, BoxType
  <2>3. CASE \E f \in Files : WriteFile(f)
    BY <1>2, <2>3 DEF WriteFile, BoxType
  <2>4. CASE \E w \in ChannelWrites : WriteChannel(w[1], w[2])
    <3>1. PICK w \in ChannelWrites : WriteChannel(w[1], w[2])
      BY <2>4
    <3>2. w[2] \in SUBSET (0..31)
      BY CdicAssumption
    <3>3. (box.channel \ Words[w[1]]) \cup w[2] \in SUBSET (0..31)
      BY <1>2, <3>2 DEF BoxType
    <3> QED
      BY <1>2, <3>1, <3>3 DEF WriteChannel, BoxType
  <2>5. CASE \E set \in AudioChannels : WriteAchan(set)
    BY <1>2, <2>5, CdicAssumption DEF WriteAchan, BoxType
  <2> QED
    BY <2>1, <2>2, <2>3, <2>4, <2>5 DEF WriteMailbox
<1>4. Settled(Now, Now)
  BY DEF Settled
<1> QED
  BY <1>1, <1>3, <1>4, NowGood, BecomesGood

(* A write to DBUF runs the command, or gates the read. *)
LEMMA DbufStep ==
    ASSUME AllInv, NEW command \in BOOLEAN, NEW enable \in BOOLEAN, NEW audio \in BOOLEAN,
           NEW slot \in Halves, WriteDbuf(command, enable, audio, slot)
    PROVE  AllInv' /\ LineSettled
<1> DEFINE r == [Now.regs EXCEPT !.enable = enable, !.audio = audio, !.slot = slot]
           s == [Now EXCEPT !.regs = r]
           gated == [s EXCEPT !.drive.enabled = enable /\ s.drive.mode # "idle"]
<1>1. /\ r \in RegsType /\ r.xbuf = Now.regs.xbuf /\ r.abuf = Now.regs.abuf
      /\ r.map = Now.regs.map
  BY NowGood DEF Good, Counted, Controller, RegsType, Halves
<1>2. Good(s) /\ Settled(Now, s)
  <2> HIDE DEF r
  <2> QED
    BY <1>1, NowGood, RegsLevel
<1>a. [Now EXCEPT !.regs.enable = enable, !.regs.audio = audio, !.regs.slot = slot] = s
  BY NowGood DEF Good, Counted, Controller
<1>3. /\ IF command THEN Becomes(HandleCommand(s)) ELSE Becomes(gated)
      /\ UNCHANGED <<box, disc>>
  <2> HIDE DEF s
  <2> QED
    BY <1>a DEF WriteDbuf
<1> HIDE DEF s
<1>4. Good(gated) /\ Settled(Now, gated)
  <2> DEFINE b == enable /\ s.drive.mode # "idle"
             d == [s.drive EXCEPT !.enabled = b]
  <2>a. b \in BOOLEAN /\ (s.drive.mode = "idle" => b = FALSE)
    BY Zenon
  <2>b. s.drive \in DriveType
    BY <1>2 DEF Good, Counted, Controller
  <2> HIDE DEF b
  <2>1. d \in DriveType /\ d.mode = s.drive.mode
    BY <2>a, <2>b DEF DriveType
  <2>2. CleanIfIdle(d)
    <3> SUFFICES ASSUME d.mode = "idle" PROVE d = IdleDrive
      BY DEF CleanIfIdle
    <3>1. s.drive = IdleDrive /\ b = FALSE
      BY <1>2, <2>a, <2>1 DEF Good, Counted, CleanIfIdle
    <3>2. /\ d.mode = s.drive.mode /\ d.enabled = b /\ d.stopping = s.drive.stopping
          /\ d.spinup = s.drive.spinup /\ d.lba = s.drive.lba
      BY <2>a, <2>b DEF DriveType
    <3>3. s.drive.enabled = FALSE
      BY <3>1 DEF IdleDrive
    <3> HIDE DEF d
    <3>4. d = s.drive
      BY <2>1, <2>b, <3>1, <3>2, <3>3 DEF DriveType
    <3> QED
      BY <3>1, <3>4
  <2> HIDE DEF d
  <2>3. Good([s EXCEPT !.drive = d]) /\ Settled(Now, [s EXCEPT !.drive = d])
    BY <1>2, <2>1, <2>2, NowGood DEF Good, Counted, Controller, Belongs, Settled, Agrees, Level
  <2> QED
    BY <2>3 DEF d, b
<1>5. Good(HandleCommand(s)) /\ Settled(Now, HandleCommand(s))
  <2>1. Keeps(Now, s) /\ Keeps(s, HandleCommand(s))
    BY <1>2, NowGood, HandleCommandGood DEF Keeps
  <2> QED
    BY <2>1, KeepsTransitive DEF Keeps
<1> HIDE DEF gated
<1> QED
  BY <1>3, <1>4, <1>5, NowGood, BecomesGood

(* A write to AUDCTL announces what its map bit lets through. *)
LEMMA AudctlStep ==
    ASSUME AllInv, NEW play \in BOOLEAN, NEW mapBit \in BOOLEAN, WriteAudctl(play, mapBit)
    PROVE  AllInv' /\ LineSettled
<1> DEFINE r == [Now.regs EXCEPT !.play = play, !.map = mapBit]
           s == [Now EXCEPT !.regs = r]
           t == CASE ~play -> StopPlaying(s)
                  [] play /\ mapBit /\ ~map.decoding -> StartMap(s)
                  [] play /\ ~mapBit /\ ~map.decoding -> StartRealtimeAudio(s)
                  [] OTHER -> s
<1>1. r \in RegsType
  BY NowGood DEF Good, Counted, Controller, RegsType
<1>2. Good(s)
  <2> HIDE DEF r
  <2> QED
    BY <1>1, NowGood, RegsSet
<1>3. Becomes(UpdateInterruptState(t)) /\ UNCHANGED <<box, disc>>
  BY DEF WriteAudctl, Now
<1> HIDE DEF s
<1>4. t \in {StopPlaying(s), StartMap(s), StartRealtimeAudio(s), s}
  OBVIOUS
<1> HIDE DEF t
<1>5. Good(t)
  BY <1>2, <1>4, StopPlayingGood, StartMapGood, StartRealtimeGood DEF Keeps
<1>6. Settled(Now, UpdateInterruptState(t))
  BY <1>5, UpdateGood DEF Settled
<1> QED
  BY <1>3, <1>5, <1>6, UpdateGood, NowGood, BecomesGood

(* Reading ABUF or XBUF settles the line, reading AUDCTL moves neither. *)
LEMMA ReadStep ==
    ASSUME AllInv, ReadAbuf \/ ReadXbuf \/ ReadAudctl
    PROVE  AllInv' /\ LineSettled
<1> DEFINE n == Now
           a == [n.regs EXCEPT !.abuf = FALSE]
           x == [n.regs EXCEPT !.xbuf = FALSE]
           e == [n.regs EXCEPT !.ended = FALSE]
<1>1. Good(n) /\ box \in BoxType /\ disc \in Discs \cup {NoDisc}
  BY NowGood
<1>2. n.regs \in RegsType
  BY <1>1 DEF Good, Counted, Controller
<1> HIDE DEF n
<1>3. a \in RegsType /\ x \in RegsType
  BY <1>2 DEF RegsType
<1>4. /\ e \in RegsType /\ e.xbuf = n.regs.xbuf /\ e.abuf = n.regs.abuf
      /\ e.map = n.regs.map
  BY <1>2 DEF RegsType
<1> HIDE DEF a, x, e
<1>5. Good([n EXCEPT !.regs = a]) /\ Good([n EXCEPT !.regs = x])
  BY <1>1, <1>3, RegsSet
<1>6. Good([n EXCEPT !.regs = e]) /\ Settled(n, [n EXCEPT !.regs = e])
  BY <1>1, <1>4, RegsLevel
<1>7. CASE ReadAbuf
  <2> DEFINE t == UpdateInterruptState([n EXCEPT !.regs = a])
  <2>1. Becomes(t) /\ UNCHANGED <<box, disc>>
    BY <1>7 DEF ReadAbuf, a, n
  <2>2. Good(t) /\ Settled(n, t)
    BY <1>5, UpdateGood DEF Settled
  <2> HIDE DEF t
  <2> QED
    BY <1>1, <2>1, <2>2, BecomesGood DEF n
<1>8. CASE ReadXbuf
  <2> DEFINE t == UpdateInterruptState([n EXCEPT !.regs = x])
  <2>1. Becomes(t) /\ UNCHANGED <<box, disc>>
    BY <1>8 DEF ReadXbuf, x, n
  <2>2. Good(t) /\ Settled(n, t)
    BY <1>5, UpdateGood DEF Settled
  <2> HIDE DEF t
  <2> QED
    BY <1>1, <2>1, <2>2, BecomesGood DEF n
<1>9. CASE ReadAudctl
  <2> DEFINE t == [n EXCEPT !.regs = e]
  <2>1. Becomes(t) /\ UNCHANGED <<box, disc>>
    BY <1>9 DEF ReadAudctl, e, n
  <2> HIDE DEF t
  <2> QED
    BY <1>1, <1>6, <2>1, BecomesGood DEF n, t
<1> QED
  BY <1>7, <1>8, <1>9

(* A write of a buffer register keeps the invariant, though not the line. *)
LEMMA BufferStep ==
    ASSUME AllInv, NEW w \in BufferWrites, WriteBuffer(w[1], w[2])
    PROVE  AllInv'
<1> DEFINE n == Now
           r == [n.regs EXCEPT ![w[1]] = w[2]]
           t == [n EXCEPT !.regs = r]
<1>1. Good(n) /\ box \in BoxType /\ disc \in Discs \cup {NoDisc}
  BY NowGood
<1>2. w[1] \in {"abuf", "xbuf"} /\ w[2] \in BOOLEAN
  BY CdicAssumption
<1>3. Becomes(t) /\ UNCHANGED <<box, disc>>
  BY DEF WriteBuffer
<1>4. n.regs \in RegsType
  BY <1>1 DEF Good, Counted, Controller
<1> HIDE DEF n
<1>5. r \in RegsType
  <2>1. CASE w[1] = "abuf"
    BY <1>2, <1>4, <2>1 DEF RegsType
  <2>2. CASE w[1] = "xbuf"
    BY <1>2, <1>4, <2>2 DEF RegsType
  <2> QED
    BY <1>2, <2>1, <2>2
<1> HIDE DEF r
<1>6. Good(t)
  BY <1>1, <1>5, RegsSet
<1> HIDE DEF t
<1> QED
  BY <1>1, <1>3, <1>6, BecomesGood

(* A DMA into a sound-map half. *)
LEMMA FillStep ==
    ASSUME AllInv, NEW half \in Halves, NEW coding \in MapCodings, FillMapHalf(half, coding)
    PROVE  AllInv' /\ LineSettled
<1> DEFINE a == [Now.ram.adpcm EXCEPT ![half] = [coding |-> coding, lba |-> Unfilled]]
           s == [Now EXCEPT !.ram.adpcm[half] = [coding |-> coding, lba |-> Unfilled]]
<1>1. a \in [Halves -> [coding : Coding, lba : Held]]
  BY NowGood, CdicAssumption DEF Good, Counted, Controller, RamType, Held
<1>2. [Now.ram EXCEPT !.adpcm = a] \in RamType
  BY <1>1, NowGood DEF Good, Counted, Controller, RamType
<1>3. s = [Now EXCEPT !.ram = [Now.ram EXCEPT !.adpcm = a]]
  BY DEF Now
<1>4. Good(s) /\ Settled(Now, s)
  <2> HIDE DEF a, s
  <2> QED
    BY <1>2, <1>3, NowGood DEF Good, Counted, Controller, Settled, Agrees, Level
<1> QED
  BY <1>4, NowGood, BecomesGood DEF FillMapHalf

(* The values of a new or reset controller. *)
LEMMA ClearedTypes ==
    /\ ClearRegs \in RegsType /\ IdleDrive \in DriveType /\ NoMap \in MapType
    /\ SilentFed \in FedType /\ ClearRam \in RamType /\ DefaultBox \in BoxType
    /\ <<>> \in Seq(Block)
<1>1. ClearRegs \in RegsType
  BY DEF ClearRegs, RegsType, Halves
<1>2. IdleDrive \in DriveType
  BY CdicAssumption DEF IdleDrive, DriveType, Modes, Lba
<1>3. NoMap \in MapType
  BY CounterRange DEF NoMap, MapType, Halves
<1>4. SilentFed \in FedType
  BY CounterRange DEF SilentFed, FedType, Halves, Held
<1>5. ClearRam \in RamType
  BY DEF ClearRam, RamType, Halves, Held, ZeroCoding, Coding
<1>6. DefaultBox \in BoxType
  <2>1. 0..31 \in SUBSET (0..31) /\ 0..15 \in SUBSET (0..15)
    OBVIOUS
  <2> QED
    BY <2>1 DEF DefaultBox, BoxType
<1> QED
  BY <1>1, <1>2, <1>3, <1>4, <1>5, <1>6

(* A reset controller, with whatever memory. *)
LEMMA ClearedGood ==
    ASSUME NEW memory \in RamType
    PROVE  LET s == [regs |-> ClearRegs, drive |-> IdleDrive, map |-> NoMap, fed |-> SilentFed,
                     ram |-> memory, int_line |-> FALSE, audio_out |-> <<>>]
           IN Good(s) /\ Agrees(s)
BY ClearedTypes DEF Good, Counted, Controller, CleanIfIdle, Timed, Belongs, Settled, Agrees, Level,
   ClearRegs, IdleDrive, NoMap, SilentFed

(* A change of disc cancels the read and stops the player. *)
LEMMA MediaStep ==
    ASSUME AllInv, NEW medium \in Discs \cup {NoDisc}, MediaChanged(medium)
    PROVE  AllInv' /\ LineSettled
<1> DEFINE s == CancelDiscRead(Now)
           f == [s.fed EXCEPT !.playing = FALSE, !.counter = 0, !.cdda_pending = Unfilled]
<1>1. Good(s) /\ Settled(Now, s)
  BY NowGood, CancelGood DEF Keeps
<1> HIDE DEF s
<1>2. f \in FedType /\ Belongs(f, s.drive)
  BY <1>1, CounterRange DEF Good, Counted, Controller, FedType, Held, Belongs
<1>3. StopRealtimeAudio(s) = [s EXCEPT !.fed = f]
  BY <1>1 DEF StopRealtimeAudio, Good, Counted, Controller
<1> HIDE DEF f
<1>4. Good(StopRealtimeAudio(s)) /\ Settled(Now, StopRealtimeAudio(s))
  BY <1>1, <1>2, <1>3, SetFed DEF Good, Settled, Agrees, Level
<1> QED
  BY <1>4, NowGood, BecomesGood DEF MediaChanged, s

(* One pump edge: sector_tick, then audio_tick. *)
LEMMA PumpStep ==
    ASSUME AllInv, Pump PROVE AllInv' /\ LineSettled
<1>1. Keeps(Now, SectorTick(Now))
  BY NowGood, SectorTickGood
<1>2. Keeps(Now, AudioTick(SectorTick(Now)))
  BY <1>1, AudioTickGood, KeepsTransitive DEF Keeps
<1> QED
  BY <1>2, NowGood, BecomesGood DEF Pump, Keeps

(* A new controller satisfies the invariant. *)
LEMMA InitHolds == Init => AllInv
<1> SUFFICES ASSUME Init PROVE AllInv
  OBVIOUS
<1>1. TypeOK
  BY ClearedTypes DEF Init, TypeOK
<1>2. CdicFacts
  BY DEF Init, IdleDrive, NoMap, SilentFed, CdicFacts, IdleDriveIsClean,
     DecodingMapIsTimed, FedAudioBelongsToPlayer
<1> QED
  BY <1>1, <1>2 DEF AllInv

BufferWrite == \E w \in BufferWrites : WriteBuffer(w[1], w[2])

(* AllInv is inductive, and every step but the guest's writes of ABUF and    *)
(* XBUF settles the line: one step per action of the guest and the machine. *)
LEMMA StepHolds == AllInv /\ [Next]_vars => AllInv' /\ (BufferWrite \/ LineSettled)
<1> SUFFICES ASSUME AllInv, [Next]_vars PROVE AllInv' /\ (BufferWrite \/ LineSettled)
  OBVIOUS
<1>1. CASE WriteMailbox
  BY <1>1, MailboxStep
<1>2. CASE \E w \in DbufWrites : WriteDbuf(w[1], w[2], w[3], w[4])
  <2>1. PICK w \in DbufWrites : WriteDbuf(w[1], w[2], w[3], w[4])
    BY <1>2
  <2>2. w[1] \in BOOLEAN /\ w[2] \in BOOLEAN /\ w[3] \in BOOLEAN /\ w[4] \in Halves
    BY CdicAssumption
  <2> QED
    BY <2>1, <2>2, DbufStep
<1>3. CASE \E w \in AudctlWrites : WriteAudctl(w[1], w[2])
  <2>1. PICK w \in AudctlWrites : WriteAudctl(w[1], w[2])
    BY <1>3
  <2>2. w[1] \in BOOLEAN /\ w[2] \in BOOLEAN
    BY CdicAssumption
  <2> QED
    BY <2>1, <2>2, AudctlStep
<1>4. CASE ReadAbuf \/ ReadXbuf \/ ReadAudctl
  BY <1>4, ReadStep
<1>5. CASE BufferWrite
  BY <1>5, BufferStep DEF BufferWrite
<1>6. CASE \E half \in Halves, coding \in MapCodings : FillMapHalf(half, coding)
  BY <1>6, FillStep
<1>7. CASE Pump
  BY <1>7, PumpStep
<1>8. CASE Reset \/ PowerCycle
  <2> DEFINE Cleared(memory) == [regs |-> ClearRegs, drive |-> IdleDrive, map |-> NoMap,
                                 fed |-> SilentFed, ram |-> memory, int_line |-> FALSE,
                                 audio_out |-> <<>>]
  <2>1. \E memory \in RamType : Becomes(Cleared(memory))
    BY <1>8, ClearedTypes DEF Reset, PowerCycle, AllInv, TypeOK
  <2>2. PICK memory \in RamType : Becomes(Cleared(memory))
    BY <2>1
  <2>3. Good(Cleared(memory)) /\ Settled(Now, Cleared(memory))
    BY ClearedGood DEF Settled
  <2>4. box' \in BoxType /\ disc' \in Discs \cup {NoDisc}
    BY <1>8, ClearedTypes, NowGood DEF Reset, PowerCycle
  <2> HIDE DEF Cleared
  <2> QED
    BY <2>2, <2>3, <2>4, BecomesGood
<1>9. CASE \E medium \in Discs \cup {NoDisc} : MediaChanged(medium)
  BY <1>9, MediaStep
<1>10. CASE UNCHANGED vars
  BY <1>10 DEF AllInv, TypeOK, CdicFacts, IdleDriveIsClean, DecodingMapIsTimed,
     FedAudioBelongsToPlayer, vars, LineSettled, LineLevel
<1> QED
  BY <1>1, <1>2, <1>3, <1>4, <1>5, <1>6, <1>7, <1>8, <1>9, <1>10
     DEF Next, Guest, Machine, BufferWrite

(* The invariant holds in every reachable state. *)
LEMMA AllInvHolds == Spec => []AllInv
BY InitHolds, StepHolds, PTL DEF Spec

-----------------------------------------------------------------------------

(* Every field keeps a value the code can represent: no counter runs below   *)
(* zero, no half, register or LBA leaves its range (the u8 and u16           *)
(* arithmetic of cdic.rs never wraps).                                       *)
THEOREM TypeCorrect == Spec => []TypeOK
<1>1. AllInv => TypeOK
  BY DEF AllInv
<1> QED
  BY <1>1, AllInvHolds, PTL

(* An idle drive keeps nothing of the read before, a decoding map always has *)
(* a half to take and a counter within its length, and CD-fed audio runs     *)
(* only under a player that is on and holds no CD-DA sector back.            *)
THEOREM CdicInvariant == Spec => []CdicInv
<1>1. AllInv => CdicInv
  BY DEF AllInv, CdicInv, CdicFacts
<1> QED
  BY <1>1, AllInvHolds, PTL

-----------------------------------------------------------------------------
(* What a pump edge may not do.  sector_tick never takes a map on, and what  *)
(* it delivers spares the half DBUF names; audio_tick takes a map on, and    *)
(* delivers nothing.                                                        *)

NoXa(q) == \A i \in DOMAIN q : q[i].from # "xa"

(* The map is left where it is, and nothing is played over it; only CD-DA   *)
(* ends it.                                                                 *)
MapLeft(s, t) ==
    /\ t.map.addr = s.map.addr
    /\ t.map.decoding => t.map = s.map /\ t.audio_out = s.audio_out
    /\ s.drive.mode # "cdda" => t.map = s.map

(* The half DBUF names is spared; only a read that ends delivers while a     *)
(* stop is pending; a delivery brings the line to its level.                *)
HalfSpared(s, t) ==
    /\ t.ram.body[s.regs.slot] = s.ram.body[s.regs.slot]
    /\ s.drive.stopping /\ t.ram.header # s.ram.header => t.drive = IdleDrive
    /\ t.ram.header # s.ram.header => Agrees(t)

(* deliver_sector, for a sector selected for audio: its body goes nowhere    *)
(* and a decoding map keeps the player.                                     *)
LEMMA DeliverAudioLeaves ==
    ASSUME NEW s, Good(s), NEW x \in Sector
    PROVE  /\ MapLeft(s, DeliverAudio(s, x))
           /\ DeliverAudio(s, x).ram.body = s.ram.body
<1> DEFINE half == s.fed.next_write
           l    == s.drive.lba
           f    == [s.fed EXCEPT !.next_write = 1 - half, !.ready[half] = TRUE]
           r    == [s.regs EXCEPT !.slot = half, !.audio = TRUE, !.xbuf = TRUE, !.enable = TRUE]
           m    == [s.ram EXCEPT !.header[half] = l, !.adpcm[half] = [coding |-> x.coding, lba |-> l]]
           put  == [s EXCEPT !.fed = f, !.regs = r, !.ram = m]
           upd  == UpdateInterruptState(put)
<1>1. half \in Halves /\ 1 - half \in Halves /\ l \in Held /\ x.coding \in Coding
  BY DEF Good, Counted, Controller, FedType, DriveType, Halves, Held, Lba, Sector
<1>2. [s.fed.ready EXCEPT ![half] = TRUE] \in [Halves -> BOOLEAN]
  BY <1>1 DEF Good, Counted, Controller, FedType
<1>3. [s.ram.header EXCEPT ![half] = l] \in [Halves -> Held]
  BY <1>1 DEF Good, Counted, Controller, RamType
<1>4. [s.ram.adpcm EXCEPT ![half] = [coding |-> x.coding, lba |-> l]]
         \in [Halves -> [coding : Coding, lba : Held]]
  BY <1>1 DEF Good, Counted, Controller, RamType
<1>5. DeliverAudio(s, x) = TryPlayRealtimeAudio(upd)
  BY DEF DeliverAudio
<1> HIDE DEF half, l
<1>6. f \in FedType /\ f.playing = s.fed.playing /\ f.counter = s.fed.counter
      /\ f.cdda_pending = s.fed.cdda_pending
  BY <1>1, <1>2 DEF Good, Counted, Controller, FedType
<1>7. r \in RegsType
  BY <1>1 DEF Good, Counted, Controller, RegsType
<1>8. m \in RamType /\ m.body = s.ram.body
  BY <1>3, <1>4 DEF Good, Counted, Controller, RamType
<1> HIDE DEF f, r, m
<1>9. /\ Counted(put) /\ put.map = s.map /\ put.audio_out = s.audio_out /\ put.ram = m
  BY <1>6, <1>7, <1>8 DEF Good, Counted, Controller, Belongs
<1> HIDE DEF put
<1>10. /\ Counted(upd) /\ upd.map = s.map /\ upd.audio_out = s.audio_out /\ upd.ram = m
  BY <1>9 DEF UpdateInterruptState, Counted, Controller
<1> HIDE DEF upd
<1>11. s.map.decoding => TryPlayRealtimeAudio(upd) = upd
  BY <1>10 DEF TryPlayRealtimeAudio
<1>12. TryPlayRealtimeAudio(upd).map = s.map /\ TryPlayRealtimeAudio(upd).ram = m
  BY <1>10, TryPlayGood
<1> QED
  BY <1>5, <1>8, <1>10, <1>11, <1>12 DEF MapLeft

(* deliver_sector, for a data sector: it goes to the other half. *)
LEMMA DeliverDataLeaves ==
    ASSUME NEW s, Good(s)
    PROVE  /\ MapLeft(s, DeliverData(s))
           /\ DeliverData(s).ram.body[s.regs.slot] = s.ram.body[s.regs.slot]
<1> DEFINE half == 1 - s.regs.slot
           l    == s.drive.lba
           r    == [s.regs EXCEPT !.slot = half, !.audio = FALSE, !.xbuf = TRUE, !.enable = TRUE]
           b    == [s.ram.body EXCEPT ![half] = l]
           m    == [s.ram EXCEPT !.header[half] = l, !.body[half] = l]
           put  == [s EXCEPT !.regs = r, !.ram = m]
<1>1. s.regs.slot \in Halves /\ half \in Halves /\ half # s.regs.slot
  BY DEF Good, Counted, Controller, RegsType, Halves
<1>2. DeliverData(s) = UpdateInterruptState(put)
  BY DeliverDataValue DEF Good, Counted
<1>3. s.ram.body \in [Halves -> Held]
  BY DEF Good, Counted, Controller, RamType
<1> HIDE DEF half, l
<1>4. b[s.regs.slot] = s.ram.body[s.regs.slot]
  BY <1>1, <1>3
<1>5. m.body = b
  BY DEF Good, Counted, Controller, RamType
<1> HIDE DEF b
<1> HIDE DEF r, m
<1>6. put.map = s.map /\ put.audio_out = s.audio_out /\ put.ram = m
  BY DEF Good, Counted, Controller
<1>7. /\ UpdateInterruptState(put).map = put.map
      /\ UpdateInterruptState(put).audio_out = put.audio_out
      /\ UpdateInterruptState(put).ram = put.ram
  BY DEF UpdateInterruptState, Good, Counted, Controller
<1> HIDE DEF put
<1> QED
  BY <1>2, <1>4, <1>5, <1>6, <1>7 DEF MapLeft

(* cancel_disc_read changes the drive only. *)
LEMMA CancelLeaves ==
    ASSUME NEW s, Good(s)
    PROVE  LET t == CancelDiscRead(s)
           IN /\ t.drive = IdleDrive /\ t.ram = s.ram /\ t.map = s.map
              /\ t.audio_out = s.audio_out /\ t.regs = s.regs
BY DEF CancelDiscRead, Good, Counted, Controller

(* deliver_sector ends a read that waits to stop. *)
LEMMA DeliverSectorLeaves ==
    ASSUME NEW s, Good(s), NEW x \in Sector
    PROVE  MapLeft(s, DeliverSector(s, x)) /\ HalfSpared(s, DeliverSector(s, x))
<1> DEFINE put == IF s.drive.mode = "mode2" /\ IsMode2AudioSelected(x)
                  THEN DeliverAudio(s, x) ELSE DeliverData(s)
<1>1. /\ Good(put) /\ Agrees(put)
      /\ MapLeft(s, put) /\ put.ram.body[s.regs.slot] = s.ram.body[s.regs.slot]
  BY DeliverAudioGood, DeliverDataGood, DeliverAudioLeaves, DeliverDataLeaves DEF Keeps
<1>2. DeliverSector(s, x) = IF s.drive.stopping THEN CancelDiscRead(put) ELSE put
  BY DEF DeliverSector
<1> HIDE DEF put
<1>3. Agrees(CancelDiscRead(put))
  BY <1>1, CancelGood DEF Keeps, Settled, Agrees
<1> QED
  BY <1>1, <1>2, <1>3, CancelLeaves DEF MapLeft, HalfSpared

(* process_disc_sector: CD-DA ends a map where it stands. *)
LEMMA ProcessDiscSectorLeaves ==
    ASSUME NEW s, Good(s), NEW x \in Sector
    PROVE  MapLeft(s, ProcessDiscSector(s, x)) /\ HalfSpared(s, ProcessDiscSector(s, x))
<1> DEFINE quiet    == [s EXCEPT !.map.counter = 2, !.map.decoding = FALSE]
           received == ReceiveCddaSector(quiet, s.drive.lba)
           m        == [s.map EXCEPT !.counter = 2, !.decoding = FALSE]
<1>1. m \in MapType /\ ~m.decoding /\ m.addr = s.map.addr
  BY CounterRange DEF Good, Counted, Controller, MapType
<1>2. quiet = [s EXCEPT !.map = m]
  BY DEF Good, Counted, Controller
<1>6. \/ ProcessDiscSector(s, x) \in {s, DeliverSector(s, x)}
      \/ /\ s.drive.mode = "cdda"
         /\ ProcessDiscSector(s, x) \in {received, DeliverSector(received, x)}
  BY DEF ProcessDiscSector
<1> HIDE DEF m, quiet
<1>3. /\ quiet.map = m /\ quiet.drive = s.drive /\ quiet.regs = s.regs /\ quiet.ram = s.ram
  BY <1>1, <1>2, SetMap DEF Good
<1>4. Good(quiet)
  BY <1>1, <1>2, SetMap DEF Good, Timed
<1>5. s.drive.lba \in Held
  BY DEF Good, Counted, Controller, DriveType, Held
<1>7. Good(received)
  BY <1>1, <1>3, <1>4, <1>5, ReceiveCddaGood DEF Keeps
<1>8. /\ received.map = m /\ received.drive = s.drive /\ received.regs = s.regs
      /\ received.ram = s.ram
  <2>1. PICK q \in Seq(Block) : PlayCdda(quiet, s.drive.lba) = [quiet EXCEPT !.audio_out = q]
    BY <1>4, <1>5, PlayCddaEmits DEF Good
  <2> QED
    BY <1>3, <1>4, <2>1 DEF ReceiveCddaSector, Good, Counted, Controller
<1> HIDE DEF received
<1>9. MapLeft(s, s) /\ HalfSpared(s, s)
  BY DEF MapLeft, HalfSpared
<1>10. s.drive.mode = "cdda" => MapLeft(s, received) /\ HalfSpared(s, received)
  BY <1>1, <1>8 DEF MapLeft, HalfSpared
<1>11. s.drive.mode = "cdda" =>
         MapLeft(s, DeliverSector(received, x)) /\ HalfSpared(s, DeliverSector(received, x))
  BY <1>1, <1>7, <1>8, DeliverSectorLeaves DEF MapLeft, HalfSpared
<1> QED
  BY <1>6, <1>9, <1>10, <1>11, DeliverSectorLeaves

(* The head's advance, or the end of the read. *)
LEMMA AdvanceLeaves ==
    ASSUME NEW s, Good(s)
    PROVE  /\ Advance(s).map = s.map /\ Advance(s).audio_out = s.audio_out
           /\ Advance(s).ram = s.ram
           /\ s.drive = IdleDrive => Advance(s).drive = IdleDrive
           /\ Agrees(s) => Agrees(Advance(s))
<1>1. /\ Advance(s).map = s.map /\ Advance(s).audio_out = s.audio_out
      /\ Advance(s).ram = s.ram
      /\ s.drive = IdleDrive => Advance(s).drive = IdleDrive
  BY CancelLeaves DEF Advance, IdleDrive, Good, Counted, Controller
<1>2. Agrees(s) => Agrees(Advance(s))
  BY AdvanceGood DEF Keeps, Settled, Agrees
<1> QED
  BY <1>1, <1>2

(* sector_tick leaves the map where it is and spares the half DBUF names. *)
LEMMA SectorTickLeaves ==
    ASSUME NEW s, Good(s), disc \in Discs \cup {NoDisc}
    PROVE  MapLeft(s, SectorTick(s)) /\ HalfSpared(s, SectorTick(s))
<1>1. MapLeft(s, s) /\ HalfSpared(s, s)
  BY DEF MapLeft, HalfSpared
<1>2. MapLeft(s, CancelDiscRead(s)) /\ HalfSpared(s, CancelDiscRead(s))
  BY CancelLeaves DEF MapLeft, HalfSpared
<1>3. MapLeft(s, Advance(s)) /\ HalfSpared(s, Advance(s))
  BY AdvanceLeaves DEF MapLeft, HalfSpared
<1>4. CASE s.drive.mode # "idle" /\ s.drive.spinup # 0
  <2>1. SectorTick(s) = [s EXCEPT !.drive.spinup = s.drive.spinup - 1]
    BY <1>4 DEF SectorTick
  <2> QED
    BY <2>1 DEF Good, Counted, Controller, MapLeft, HalfSpared
<1>5. CASE disc # NoDisc /\ s.drive.lba \in DOMAIN disc
           /\ s.drive.mode # "idle" /\ s.drive.spinup = 0 /\ s.drive.enabled
  <2> DEFINE x == disc[s.drive.lba]
             p == ProcessDiscSector(s, x)
  <2>1. x \in Sector
    BY <1>5, CdicAssumption
  <2>2. SectorTick(s) = Advance(p)
    BY <1>5 DEF SectorTick
  <2> HIDE DEF x
  <2>3. Good(p) /\ MapLeft(s, p) /\ HalfSpared(s, p)
    BY <2>1, ProcessDiscSectorGood, ProcessDiscSectorLeaves DEF Keeps
  <2> HIDE DEF p
  <2> QED
    BY <2>2, <2>3, AdvanceLeaves DEF MapLeft, HalfSpared
<1> QED
  BY <1>1, <1>2, <1>3, <1>4, <1>5 DEF SectorTick

(* A block that is not CD-fed ADPCM keeps the queue free of it. *)
LEMMA NoXaAppended ==
    ASSUME NEW q \in Seq(Block), NEW b \in Block, NoXa(q), b.from # "xa"
    PROVE  NoXa(Append(q, b))
<1> SUFFICES ASSUME NEW i \in DOMAIN Append(q, b) PROVE Append(q, b)[i].from # "xa"
  BY DEF NoXa
<1>1. CASE i \in DOMAIN q
  <2>1. Append(q, b)[i] = q[i]
    BY <1>1
  <2> QED
    BY <1>1, <2>1 DEF NoXa
<1>2. CASE i \notin DOMAIN q
  <2>1. Append(q, b)[i] = b
    BY <1>2
  <2> QED
    BY <2>1
<1> QED
  BY <1>1, <1>2

(* play_audio_data for a map adds no CD-fed ADPCM. *)
LEMMA PlayMapNoXa ==
    ASSUME NEW s, Counted(s), NEW half \in Halves, NoXa(s.audio_out)
    PROVE  NoXa(PlayAudioData(s, "map", half).audio_out)
<1> DEFINE b == [from |-> "map", lba |-> s.ram.adpcm[half].lba]
<1>1. s.audio_out \in Seq(Block) /\ b \in Block /\ b.from # "xa"
  BY DEF Counted, Controller, RamType, Block
<1>2. \/ PlayAudioData(s, "map", half) = s
      \/ PlayAudioData(s, "map", half) = [s EXCEPT !.audio_out = Append(s.audio_out, b)]
  BY DEF PlayAudioData
<1> HIDE DEF b
<1>3. NoXa(Append(s.audio_out, b))
  BY <1>1, NoXaAppended
<1>4. [s EXCEPT !.audio_out = Append(s.audio_out, b)].audio_out = Append(s.audio_out, b)
  BY DEF Counted, Controller
<1> QED
  BY <1>2, <1>3, <1>4

(* Ending a map, setting a bit of AUDCTL and raising ABUF play and deliver   *)
(* nothing.                                                                 *)
LEMMA ReportLeaves ==
    ASSUME NEW s, Counted(s)
    PROVE  /\ RaiseAbuf(s).regs.abuf
           /\ RaiseAbuf(s).audio_out = s.audio_out /\ RaiseAbuf(s).ram = s.ram
           /\ RaiseAbuf(s).drive = s.drive
           /\ SetEnded(s).audio_out = s.audio_out /\ SetEnded(s).ram = s.ram
           /\ SetEnded(s).drive = s.drive
           /\ EndMap(s).audio_out = s.audio_out /\ EndMap(s).ram = s.ram
           /\ EndMap(s).drive = s.drive
           /\ Agrees(RaiseAbuf(s))
<1>1. /\ RaiseAbuf(s).regs.abuf
      /\ RaiseAbuf(s).audio_out = s.audio_out /\ RaiseAbuf(s).ram = s.ram
      /\ RaiseAbuf(s).drive = s.drive
  BY DEF RaiseAbuf, UpdateInterruptState, Counted, Controller, RegsType
<1>2. /\ SetEnded(s).audio_out = s.audio_out /\ SetEnded(s).ram = s.ram
      /\ SetEnded(s).drive = s.drive
  BY DEF SetEnded, Counted, Controller
<1>3. /\ EndMap(s).audio_out = s.audio_out /\ EndMap(s).ram = s.ram
      /\ EndMap(s).drive = s.drive
  BY DEF EndMap, Counted, Controller
<1>4. Agrees(RaiseAbuf(s))
  BY DEF RaiseAbuf, UpdateInterruptState, Counted, Controller, Agrees, Level
<1> QED
  BY <1>1, <1>2, <1>3, <1>4

(* What the audio processor may do to a decoding map: it reports the half it *)
(* goes on from, and its end after a half.                                  *)
HalfTold(s, t) ==
    /\ s.map.format_sectors # 0 /\ (t.map.addr # s.map.addr \/ ~t.map.decoding) =>
           t.regs.abuf /\ Agrees(t)
    /\ NoXa(s.audio_out) => NoXa(t.audio_out)

(* process_audio_map reports the half it goes on from. *)
LEMMA ProcessAudioMapLeaves ==
    ASSUME NEW s, Counted(s), s.map.decoding
    PROVE  LET t == ProcessAudioMap(s)
           IN HalfTold(s, t) /\ t.drive = s.drive /\ t.ram = s.ram
<1> DEFINE half   == s.map.addr
           c      == s.ram.adpcm[half].coding
           n      == SectorCountForCoding(c)
           zero   == [s EXCEPT !.map.counter = 0]
           passed == [s EXCEPT !.map.addr = 1 - half]
           timed  == [passed EXCEPT !.map.format_sectors = n, !.map.counter = n]
           played == PlayAudioData(timed, "map", half)
           last   == [passed EXCEPT !.map.counter = 0]
           ended  == SetEnded(EndMap(last))
           next   == IF c = EndOfMap THEN ended ELSE played
<1>1. CASE half = NoHalf
  <2>1. Counted(zero) /\ zero.ram = s.ram /\ zero.drive = s.drive /\ zero.audio_out = s.audio_out
    <3>1. [s.map EXCEPT !.counter = 0] \in MapType
      BY CounterRange DEF Counted, Controller, MapType
    <3> QED
      BY <3>1, SetMap DEF Counted, Controller
  <2>2. ProcessAudioMap(s) = RaiseAbuf(EndMap(zero))
    BY <1>1 DEF ProcessAudioMap
  <2> HIDE DEF zero
  <2>3. Counted(EndMap(zero))
    BY <2>1, EndMapGood DEF Good
  <2> QED
    BY <2>1, <2>2, <2>3, ReportLeaves DEF HalfTold
<1>2. CASE half # NoHalf
  <2>1. half \in Halves /\ 1 - half \in Halves /\ c \in Coding
    BY <1>2 DEF Counted, Controller, MapType, RamType, Halves, NoHalf
  <2>2. n \in 0..16
    BY <2>1, SectorCount
  <2>3. ProcessAudioMap(s) = IF s.map.format_sectors # 0 THEN RaiseAbuf(next) ELSE next
    BY <1>2 DEF ProcessAudioMap
  <2>4. /\ Counted(last) /\ last.ram = s.ram /\ last.drive = s.drive
        /\ last.audio_out = s.audio_out
    <3> DEFINE m == [s.map EXCEPT !.addr = 1 - half, !.counter = 0]
    <3>1. m \in MapType
      <4> HIDE DEF half
      <4> QED
        BY <2>1, CounterRange DEF Counted, Controller, MapType
    <3>2. last = [s EXCEPT !.map = m]
      BY DEF Counted, Controller
    <3> HIDE DEF m, last
    <3> QED
      BY <3>1, <3>2, SetMap DEF Counted, Controller
  <2>5. /\ Counted(timed) /\ timed.ram = s.ram /\ timed.drive = s.drive
        /\ timed.audio_out = s.audio_out
    <3> DEFINE m == [s.map EXCEPT !.addr = 1 - half, !.format_sectors = n, !.counter = n]
    <3>1. m \in MapType
      <4> HIDE DEF half, n
      <4> QED
        BY <2>1, <2>2 DEF Counted, Controller, MapType
    <3>2. timed = [s EXCEPT !.map = m]
      BY DEF Counted, Controller
    <3> HIDE DEF m, timed
    <3> QED
      BY <3>1, <3>2, SetMap DEF Counted, Controller
  <2> HIDE DEF half, c, n, timed, last
  <2>6. /\ Counted(played) /\ played.ram = s.ram /\ played.drive = s.drive
        /\ NoXa(s.audio_out) => NoXa(played.audio_out)
    BY <2>1, <2>5, PlayAudioDataGood, PlayMapNoXa
  <2>7. /\ Counted(ended) /\ ended.ram = s.ram /\ ended.drive = s.drive
        /\ ended.audio_out = s.audio_out
    <3> DEFINE e == EndMap(last)
    <3>1. /\ Counted(e) /\ e.ram = s.ram /\ e.drive = s.drive
          /\ e.audio_out = s.audio_out
      BY <2>4, EndMapGood, ReportLeaves DEF Good
    <3> HIDE DEF e
    <3>2. Counted(SetEnded(e))
      BY <3>1 DEF SetEnded, Counted, Controller, RegsType
    <3> QED
      BY <3>1, <3>2, ReportLeaves DEF e
  <2>8. /\ Counted(next) /\ next.ram = s.ram /\ next.drive = s.drive
        /\ NoXa(s.audio_out) => NoXa(next.audio_out)
    BY <2>6, <2>7
  <2> HIDE DEF next
  <2> QED
    BY <2>3, <2>8, ReportLeaves DEF HalfTold
<1> QED
  BY <1>1, <1>2

(* Counting CD-fed audio down touches neither map nor memory, and plays      *)
(* nothing while a map decodes.                                             *)
LEMMA CountRealtimeLeaves ==
    ASSUME NEW s, Good(s)
    PROVE  LET t == CountRealtime(s)
           IN /\ Counted(t) /\ t.map = s.map /\ t.drive = s.drive /\ t.ram = s.ram
              /\ s.map.decoding => t.audio_out = s.audio_out
<1> DEFINE zero == [s EXCEPT !.fed.counter = 0]
           less == [s EXCEPT !.fed.counter = s.fed.counter - 1]
<1>1. Counted(CountRealtime(s))
  BY CountRealtimeGood DEF Keeps, Good
<1>2. /\ Counted(zero) /\ zero.map = s.map /\ zero.drive = s.drive /\ zero.ram = s.ram
      /\ zero.audio_out = s.audio_out
  <2> DEFINE f == [s.fed EXCEPT !.counter = 0]
  <2>1. f \in FedType /\ Belongs(f, s.drive)
    BY CounterRange DEF Good, Counted, Controller, FedType, Belongs
  <2>2. zero = [s EXCEPT !.fed = f]
    BY DEF Good, Counted, Controller
  <2> HIDE DEF f, zero
  <2> QED
    BY <2>1, <2>2, SetFed DEF Good, Counted, Controller
<1>3. /\ less.map = s.map /\ less.drive = s.drive /\ less.ram = s.ram
      /\ less.audio_out = s.audio_out
  BY DEF Good, Counted, Controller
<1>4. CountRealtime(s) \in {s, TryPlayRealtimeAudio(zero), less}
  BY DEF CountRealtime
<1> HIDE DEF zero, less
<1>5. /\ TryPlayRealtimeAudio(zero).map = s.map /\ TryPlayRealtimeAudio(zero).drive = s.drive
      /\ TryPlayRealtimeAudio(zero).ram = s.ram
      /\ s.map.decoding => TryPlayRealtimeAudio(zero) = zero
  BY <1>2, TryPlayGood DEF TryPlayRealtimeAudio
<1> QED
  BY <1>1, <1>2, <1>3, <1>4, <1>5

(* audio_tick delivers nothing, leaves a map that is not decoding, and       *)
(* reports the half a decoding one goes on from.                            *)
LEMMA AudioTickLeaves ==
    ASSUME NEW s, Good(s)
    PROVE  LET t == AudioTick(s)
           IN /\ t.drive = s.drive /\ t.ram = s.ram
              /\ s.map.decoding => HalfTold(s, t)
              /\ ~s.map.decoding => t.map.addr = s.map.addr /\ ~t.map.decoding
<1> DEFINE fedDone == CountRealtime(s)
           counted == IF fedDone.map.counter = 0 THEN fedDone
                      ELSE [fedDone EXCEPT !.map.counter = fedDone.map.counter - 1]
           asked   == [counted EXCEPT !.map.stop_requested = FALSE]
<1>1. /\ Counted(fedDone) /\ fedDone.map = s.map /\ fedDone.drive = s.drive
      /\ fedDone.ram = s.ram
      /\ s.map.decoding => fedDone.audio_out = s.audio_out
  BY CountRealtimeLeaves
<1>2. AudioTick(s) = IF counted.map.counter > 0 \/ ~counted.map.decoding THEN counted
                     ELSE IF counted.map.stop_requested THEN FinishStop(counted)
                     ELSE ProcessAudioMap(counted)
  BY DEF AudioTick
<1> HIDE DEF fedDone
<1>3. /\ Counted(counted) /\ counted.drive = s.drive /\ counted.ram = s.ram
      /\ s.map.decoding => counted.audio_out = s.audio_out
      /\ counted.map.decoding = s.map.decoding /\ counted.map.addr = s.map.addr
      /\ counted.map.format_sectors = s.map.format_sectors
  <2>1. fedDone.map \in MapType /\ s.map \in MapType
    BY <1>1 DEF Counted, Controller
  <2>2. fedDone.map.counter # 0 => fedDone.map.counter - 1 \in 0..16
    BY <2>1 DEF MapType
  <2> DEFINE m == [s.map EXCEPT !.counter = s.map.counter - 1]
  <2>3. CASE fedDone.map.counter = 0
    BY <1>1, <2>3
  <2>4. CASE fedDone.map.counter # 0
    <3>1. /\ m \in MapType /\ m.decoding = s.map.decoding /\ m.addr = s.map.addr
          /\ m.format_sectors = s.map.format_sectors
      BY <1>1, <2>1, <2>2, <2>4 DEF MapType
    <3>2. counted = [fedDone EXCEPT !.map = m]
      BY <1>1, <2>4 DEF Counted, Controller
    <3> HIDE DEF m, counted
    <3> QED
      BY <1>1, <3>1, <3>2, SetMap DEF Counted, Controller
  <2> QED
    BY <2>3, <2>4
<1> HIDE DEF counted
<1>4. /\ Counted(asked) /\ asked.drive = s.drive /\ asked.ram = s.ram
      /\ s.map.decoding => asked.audio_out = s.audio_out
  <2> DEFINE m == [counted.map EXCEPT !.stop_requested = FALSE]
  <2>1. m \in MapType
    BY <1>3 DEF Counted, Controller, MapType
  <2>2. asked = [counted EXCEPT !.map = m]
    BY <1>3 DEF Counted, Controller
  <2> HIDE DEF m, asked
  <2> QED
    BY <1>3, <2>1, <2>2, SetMap DEF Counted, Controller
<1>5. FinishStop(counted) = RaiseAbuf(EndMap(asked))
  BY DEF FinishStop
<1> HIDE DEF asked
<1>6. /\ FinishStop(counted).drive = s.drive /\ FinishStop(counted).ram = s.ram
      /\ s.map.decoding => HalfTold(s, FinishStop(counted))
  <2>1. Counted(EndMap(asked))
    BY <1>4, EndMapGood DEF Good
  <2> QED
    BY <1>4, <1>5, <2>1, ReportLeaves DEF HalfTold
<1>7. CASE counted.map.counter > 0 \/ ~counted.map.decoding
  BY <1>2, <1>3, <1>7 DEF HalfTold
<1>8. CASE /\ ~(counted.map.counter > 0 \/ ~counted.map.decoding)
           /\ counted.map.stop_requested
  BY <1>2, <1>3, <1>6, <1>8
<1>9. CASE /\ ~(counted.map.counter > 0 \/ ~counted.map.decoding)
           /\ ~counted.map.stop_requested
  BY <1>2, <1>3, <1>9, ProcessAudioMapLeaves DEF HalfTold
<1> QED
  BY <1>7, <1>8, <1>9

-----------------------------------------------------------------------------
(* What no step may do, as relations between a state and the next. *)

HalfReported ==
    map.decoding /\ map.format_sectors # 0 /\ map'.addr # map.addr =>
        regs'.abuf \/ regs' = ClearRegs

SilentUnderMap ==
    map.decoding /\ map'.decoding => \A i \in DOMAIN audio_out' : audio_out'[i].from # "xa"

DataSpared ==
    regs.xbuf /\ ~regs.audio /\ regs'.xbuf => ram'.body[regs.slot] = ram.body[regs.slot]

StopFinal == drive.stopping /\ ram'.header # ram.header => drive' = IdleDrive

EndTold ==
    map.decoding /\ ~map'.decoding /\ map.format_sectors # 0 /\ drive.mode # "cdda" =>
        regs'.abuf \/ regs' = ClearRegs

ReportSettled == ReportMade => LineAgrees'

StepKept == HalfReported /\ SilentUnderMap /\ DataSpared /\ StopFinal /\ EndTold /\ ReportSettled

(* A controller that plays nothing over a map, neither takes one on nor ends *)
(* it, and delivers nothing: what every write of the guest makes of it.      *)
Calm(s, t) ==
    /\ s.map.decoding => t.map.addr = s.map.addr /\ t.map.decoding /\ t.audio_out = s.audio_out
    /\ t.ram.header = s.ram.header /\ t.ram.body = s.ram.body

(* A calm step keeps every promise. *)
LEMMA CalmStep ==
    ASSUME NEW t, Calm(Now, t), Becomes(t) PROVE StepKept
<1>1. HalfReported /\ SilentUnderMap /\ DataSpared /\ StopFinal /\ EndTold
  BY DEF Calm, Now, Becomes, HalfReported, SilentUnderMap, DataSpared, StopFinal, EndTold
<1>2. ReportSettled
  BY DEF Calm, Now, Becomes, ReportSettled, ReportMade
<1> QED
  BY <1>1, <1>2 DEF StepKept

(* A pump edge: sector_tick leaves the map and audio_tick the memory. *)
LEMMA PumpKept ==
    ASSUME AllInv, Pump PROVE StepKept
<1> DEFINE n == Now
           s == SectorTick(n)
           t == AudioTick(s)
<1>1. Good(n) /\ disc \in Discs \cup {NoDisc} /\ n.audio_out = <<>>
  BY NowGood DEF Now
<1>2. Good(s) /\ MapLeft(n, s) /\ HalfSpared(n, s)
  BY <1>1, SectorTickGood, SectorTickLeaves DEF Keeps
<1>3. Becomes(t)
  BY DEF Pump
<1>4. n.map = map /\ n.regs = regs /\ n.drive = drive /\ n.ram = ram
  BY DEF Now
<1> HIDE DEF n, s
<1>5. /\ t.drive = s.drive /\ t.ram = s.ram
      /\ s.map.decoding => HalfTold(s, t)
      /\ ~s.map.decoding => t.map.addr = s.map.addr /\ ~t.map.decoding
  BY <1>2, AudioTickLeaves
<1> HIDE DEF t
<1>6. regs' = t.regs /\ drive' = t.drive /\ map' = t.map /\ ram' = t.ram /\ audio_out' = t.audio_out
  BY <1>3 DEF Becomes
<1>7. DataSpared /\ StopFinal
  BY <1>2, <1>4, <1>5, <1>6 DEF HalfSpared, DataSpared, StopFinal
<1>a. Agrees(t) => LineAgrees'
  BY <1>3 DEF Becomes, Agrees, Level, LineAgrees
<1>b. ram'.header # ram.header => LineAgrees'
  <2>1. ram'.header # ram.header => Agrees(s)
    BY <1>2, <1>4, <1>5, <1>6 DEF HalfSpared
  <2>2. Agrees(s) => Agrees(t)
    BY <1>2, AudioTickGood DEF t, Keeps, Settled, Agrees
  <2> QED
    BY <2>1, <2>2, <1>a
<1>8. CASE ~s.map.decoding
  <2>1. HalfReported /\ SilentUnderMap /\ EndTold
    BY <1>2, <1>4, <1>5, <1>6, <1>8 DEF MapLeft, HalfReported, SilentUnderMap, EndTold
  <2>2. ReportSettled
    BY <1>2, <1>4, <1>5, <1>6, <1>8, <1>b DEF MapLeft, ReportSettled, ReportMade
  <2> QED
    BY <1>7, <2>1, <2>2 DEF StepKept
<1>9. CASE s.map.decoding
  <2>1. s.map = n.map /\ s.audio_out = <<>>
    BY <1>1, <1>2, <1>9 DEF MapLeft
  <2>2. NoXa(s.audio_out)
    BY <2>1 DEF NoXa
  <2>3. HalfTold(s, t) /\ NoXa(t.audio_out)
    BY <1>5, <1>9, <2>2 DEF HalfTold
  <2>4. HalfReported /\ SilentUnderMap /\ EndTold
    BY <1>4, <1>6, <2>1, <2>3 DEF HalfTold, NoXa, HalfReported, SilentUnderMap, EndTold
  <2>5. ReportSettled
    BY <1>4, <1>6, <1>a, <1>b, <2>1, <2>3 DEF HalfTold, ReportSettled, ReportMade
  <2> QED
    BY <1>7, <2>4, <2>5 DEF StepKept
<1> QED
  BY <1>8, <1>9

(* A command or a gate moves the drive and the player, not the map. *)
LEMMA DbufKept ==
    ASSUME AllInv, NEW command \in BOOLEAN, NEW enable \in BOOLEAN, NEW audio \in BOOLEAN,
           NEW slot \in Halves, WriteDbuf(command, enable, audio, slot)
    PROVE  StepKept
<1> DEFINE r == [Now.regs EXCEPT !.enable = enable, !.audio = audio, !.slot = slot]
           s == [Now EXCEPT !.regs = r]
           gated == [s EXCEPT !.drive.enabled = enable /\ s.drive.mode # "idle"]
<1>1. r \in RegsType
  BY NowGood DEF Good, Counted, Controller, RegsType, Halves
<1>2. Good(s) /\ Calm(Now, s)
  <2> HIDE DEF r
  <2> QED
    BY <1>1, NowGood, RegsSet DEF Calm, Now
<1>a. [Now EXCEPT !.regs.enable = enable, !.regs.audio = audio, !.regs.slot = slot] = s
  BY NowGood DEF Good, Counted, Controller
<1>3. IF command THEN Becomes(HandleCommand(s)) ELSE Becomes(gated)
  <2> HIDE DEF s
  <2> QED
    BY <1>a DEF WriteDbuf
<1> HIDE DEF s
<1>4. \A mode \in {"toc", "cdda", "mode1", "mode2"} :
         /\ InitDiscRead(s, mode).map = s.map /\ InitDiscRead(s, mode).ram = s.ram
         /\ InitDiscRead(s, mode).audio_out = s.audio_out
  BY <1>2 DEF InitDiscRead, Good, Counted, Controller
<1>5. /\ HandleCommand(s).map = s.map /\ HandleCommand(s).ram = s.ram
      /\ HandleCommand(s).audio_out = s.audio_out
  <2>1. CASE box.command \in DOMAIN ReadMode
    <3>1. /\ ReadMode[box.command] \in {"toc", "cdda", "mode1", "mode2"}
          /\ box.command # "23" /\ box.command # "2B"
      BY <2>1 DEF ReadMode
    <3>2. HandleCommand(s) = InitDiscRead(s, ReadMode[box.command])
      BY <2>1, <3>1 DEF HandleCommand
    <3> QED
      BY <1>4, <3>1, <3>2
  <2>2. CASE box.command = "2B"
    <3>1. HandleCommand(s) = CancelDiscRead(s)
      BY <2>2 DEF HandleCommand, ReadMode
    <3> QED
      BY <1>2, <3>1, CancelLeaves
  <2>3. CASE box.command \notin DOMAIN ReadMode /\ box.command # "2B"
    <3>1. HandleCommand(s) \in {s, [s EXCEPT !.drive.enabled = s.regs.enable,
                                            !.drive.stopping = TRUE]}
      BY <2>3 DEF HandleCommand
    <3> QED
      BY <1>2, <3>1 DEF Good, Counted, Controller
  <2> QED
    BY <2>1, <2>2, <2>3
<1>6. gated.map = s.map /\ gated.ram = s.ram /\ gated.audio_out = s.audio_out
  BY <1>2 DEF Good, Counted, Controller
<1>7. Calm(Now, HandleCommand(s)) /\ Calm(Now, gated)
  BY <1>2, <1>5, <1>6 DEF Calm
<1> HIDE DEF gated
<1> QED
  BY <1>3, <1>7, CalmStep

(* AUDCTL starts a map or the player only when no map decodes; otherwise it  *)
(* asks the map to stop.                                                    *)
LEMMA AudctlKept ==
    ASSUME AllInv, NEW play \in BOOLEAN, NEW mapBit \in BOOLEAN, WriteAudctl(play, mapBit)
    PROVE  StepKept
<1> DEFINE r == [Now.regs EXCEPT !.play = play, !.map = mapBit]
           s == [Now EXCEPT !.regs = r]
           t == CASE ~play -> StopPlaying(s)
                  [] play /\ mapBit /\ ~map.decoding -> StartMap(s)
                  [] play /\ ~mapBit /\ ~map.decoding -> StartRealtimeAudio(s)
                  [] OTHER -> s
<1>1. r \in RegsType
  BY NowGood DEF Good, Counted, Controller, RegsType
<1>2. Good(s) /\ Calm(Now, s) /\ s.map = map /\ s.ram = ram
  <2> HIDE DEF r
  <2> QED
    BY <1>1, NowGood, RegsSet DEF Calm, Now
<1>3. Becomes(UpdateInterruptState(t))
  BY DEF WriteAudctl, Now
<1> HIDE DEF s
<1>4. \/ t \in {StopPlaying(s), s}
      \/ ~map.decoding /\ t \in {StartMap(s), StartRealtimeAudio(s)}
  OBVIOUS
<1> HIDE DEF t
<1>5. Good(t)
  BY <1>2, <1>4, StopPlayingGood, StartMapGood, StartRealtimeGood DEF Keeps
<1>6. /\ StopPlaying(s).ram = s.ram
      /\ s.map.decoding => /\ StopPlaying(s).map.addr = s.map.addr
                           /\ StopPlaying(s).map.decoding
                           /\ StopPlaying(s).audio_out = s.audio_out
  BY <1>2 DEF StopPlaying, StopRealtimeAudio, Good, Counted, Controller, MapType
<1>7. StartMap(s).ram = s.ram
  <2>1. CancelDiscRead(s).ram = s.ram /\ Good(CancelDiscRead(s))
    BY <1>2, CancelGood, CancelLeaves DEF Keeps
  <2> QED
    BY <1>2, <2>1 DEF StartMap, Good, Counted, Controller
<1>8. StartRealtimeAudio(s).ram = s.ram
  <2> DEFINE on  == [s EXCEPT !.fed.playing = TRUE]
             fst == [on EXCEPT !.fed.next_play = 0]
             fre == [on EXCEPT !.fed.cdda_pending = Unfilled]
             f   == [s.fed EXCEPT !.playing = TRUE, !.next_play = 0]
  <2>1. CASE s.drive.mode # "cdda"
    <3>1. f \in FedType /\ Belongs(f, s.drive)
      BY <1>2, <2>1 DEF Good, Counted, Controller, FedType, Halves, Belongs
    <3>2. fst = [s EXCEPT !.fed = f]
      BY <1>2 DEF Good, Counted, Controller
    <3>3. StartRealtimeAudio(s) \in {s, TryPlayRealtimeAudio(fst)}
      BY <2>1 DEF StartRealtimeAudio
    <3> HIDE DEF f, fst
    <3>4. Counted(fst) /\ fst.ram = s.ram
      BY <1>2, <3>1, <3>2, SetFed DEF Good
    <3> QED
      BY <3>3, <3>4, TryPlayGood
  <2>2. CASE s.drive.mode = "cdda"
    <3>1. StartRealtimeAudio(s) \in {s, on, PlayCdda(fre, s.fed.cdda_pending)}
      BY <2>2 DEF StartRealtimeAudio
    <3> QED
      BY <1>2, <3>1 DEF PlayCdda, Good, Counted, Controller
  <2> QED
    BY <2>1, <2>2
<1>9. Calm(Now, t)
  <2>1. Now.ram = ram /\ Now.map = map
    BY DEF Now
  <2> QED
    BY <1>2, <1>4, <1>6, <1>7, <1>8, <2>1 DEF Calm
<1>10. Calm(Now, UpdateInterruptState(t))
  BY <1>5, <1>9 DEF Calm, UpdateInterruptState, Good, Counted, Controller
<1> QED
  BY <1>3, <1>10, CalmStep

(* Reading or clearing a register, a mailbox write and a DMA into a          *)
(* sound-map half are calm.                                                 *)
LEMMA QuietKept ==
    ASSUME AllInv,
           \/ WriteMailbox \/ ReadAbuf \/ ReadXbuf \/ ReadAudctl
           \/ BufferWrite
           \/ \E half \in Halves, coding \in MapCodings : FillMapHalf(half, coding)
    PROVE  StepKept
<1> DEFINE n == Now
<1>1. Good(n)
  BY NowGood
<1>2. CASE WriteMailbox
  <2>1. Becomes(n) /\ Calm(n, n)
    BY <1>2 DEF WriteMailbox, WriteCommand, WriteTime, WriteFile, WriteChannel, WriteAchan, Calm
  <2> QED
    BY <2>1, CalmStep
<1>3. CASE ReadAbuf \/ ReadXbuf
  <2>1. \E r : \/ Becomes(UpdateInterruptState([n EXCEPT !.regs = r]))
    BY <1>3 DEF ReadAbuf, ReadXbuf
  <2>2. PICK r : Becomes(UpdateInterruptState([n EXCEPT !.regs = r]))
    BY <2>1
  <2> HIDE DEF n
  <2>3. Calm(n, UpdateInterruptState([n EXCEPT !.regs = r]))
    BY <1>1 DEF Calm, UpdateInterruptState, Good, Counted, Controller
  <2> QED
    BY <2>2, <2>3, CalmStep DEF n
<1>4. CASE ReadAudctl \/ BufferWrite
  <2>1. \E r : Becomes([n EXCEPT !.regs = r])
    BY <1>4 DEF ReadAudctl, BufferWrite, WriteBuffer
  <2>2. PICK r : Becomes([n EXCEPT !.regs = r])
    BY <2>1
  <2> HIDE DEF n
  <2>3. Calm(n, [n EXCEPT !.regs = r])
    BY <1>1 DEF Calm, Good, Counted, Controller
  <2> QED
    BY <2>2, <2>3, CalmStep DEF n
<1>5. CASE \E half \in Halves, coding \in MapCodings : FillMapHalf(half, coding)
  <2>1. PICK half \in Halves, coding \in MapCodings : FillMapHalf(half, coding)
    BY <1>5
  <2> DEFINE t == [n EXCEPT !.ram.adpcm[half] = [coding |-> coding, lba |-> Unfilled]]
  <2>2. Becomes(t)
    BY <2>1 DEF FillMapHalf
  <2> HIDE DEF n
  <2>3. Calm(n, t)
    BY <1>1 DEF Calm, Good, Counted, Controller, RamType
  <2> QED
    BY <2>2, <2>3, CalmStep DEF n
<1> QED
  BY <1>2, <1>3, <1>4, <1>5

(* Resets clear the registers, and a change of disc cancels the read. *)
LEMMA MachineKept ==
    ASSUME AllInv, \/ Reset \/ PowerCycle
                   \/ \E medium \in Discs \cup {NoDisc} : MediaChanged(medium)
    PROVE  StepKept
<1>1. CASE Reset
  BY <1>1 DEF Reset, Becomes, ClearRegs, NoMap, StepKept, HalfReported, SilentUnderMap, DataSpared,
     StopFinal, EndTold, ReportSettled, LineAgrees
<1>2. CASE PowerCycle
  BY <1>2 DEF PowerCycle, Becomes, ClearRegs, NoMap, StepKept, HalfReported, SilentUnderMap,
     DataSpared, StopFinal, EndTold, ReportSettled, LineAgrees
<1>3. CASE \E medium \in Discs \cup {NoDisc} : MediaChanged(medium)
  <2> DEFINE s == CancelDiscRead(Now)
  <2>1. Good(s) /\ s.map = map /\ s.ram = ram /\ s.audio_out = <<>>
    BY NowGood, CancelGood, CancelLeaves DEF Keeps, Now
  <2>2. Becomes(StopRealtimeAudio(s))
    BY <1>3 DEF MediaChanged
  <2> HIDE DEF s
  <2>3. Calm(Now, StopRealtimeAudio(s))
    BY <2>1 DEF StopRealtimeAudio, Now, Calm, Good, Counted, Controller
  <2> QED
    BY <2>2, <2>3, CalmStep
<1> QED
  BY <1>1, <1>2, <1>3

(* Every step keeps the promises: one step per action. *)
LEMMA StepKeptHolds == AllInv /\ [Next]_vars => [StepKept]_vars
<1> SUFFICES ASSUME AllInv, Next PROVE StepKept
  OBVIOUS
<1>1. CASE \/ WriteMailbox \/ ReadAbuf \/ ReadXbuf \/ ReadAudctl
           \/ BufferWrite
           \/ \E half \in Halves, coding \in MapCodings : FillMapHalf(half, coding)
  BY <1>1, QuietKept
<1>2. CASE \E w \in DbufWrites : WriteDbuf(w[1], w[2], w[3], w[4])
  <2>1. PICK w \in DbufWrites : WriteDbuf(w[1], w[2], w[3], w[4])
    BY <1>2
  <2>2. w[1] \in BOOLEAN /\ w[2] \in BOOLEAN /\ w[3] \in BOOLEAN /\ w[4] \in Halves
    BY CdicAssumption
  <2> QED
    BY <2>1, <2>2, DbufKept
<1>3. CASE \E w \in AudctlWrites : WriteAudctl(w[1], w[2])
  <2>1. PICK w \in AudctlWrites : WriteAudctl(w[1], w[2])
    BY <1>3
  <2>2. w[1] \in BOOLEAN /\ w[2] \in BOOLEAN
    BY CdicAssumption
  <2> QED
    BY <2>1, <2>2, AudctlKept
<1>4. CASE Pump
  BY <1>4, PumpKept
<1>5. CASE Reset \/ PowerCycle \/ \E medium \in Discs \cup {NoDisc} : MediaChanged(medium)
  BY <1>5, MachineKept
<1> QED
  BY <1>1, <1>2, <1>3, <1>4, <1>5 DEF Next, Guest, Machine, BufferWrite

(* A map reports the half it goes on from and, unless a CD-DA sector ends it *)
(* (786-789), its end after a half, by itself or by a stop through AUDCTL;   *)
(* and no CD-fed ADPCM is played before it ends.                            *)
THEOREM MapUndisturbedHolds == Spec => MapUndisturbed
<1>1. [StepKept]_vars =>
        /\ [map.decoding /\ map.format_sectors # 0 /\ map'.addr # map.addr =>
              regs'.abuf \/ regs' = ClearRegs]_vars
        /\ [map.decoding /\ map'.decoding =>
              \A i \in DOMAIN audio_out' : audio_out'[i].from # "xa"]_vars
        /\ [map.decoding /\ ~map'.decoding /\ map.format_sectors # 0 /\ drive.mode # "cdda" =>
              regs'.abuf \/ regs' = ClearRegs]_vars
  BY DEF StepKept, HalfReported, SilentUnderMap, EndTold
<1> QED
  BY <1>1, AllInvHolds, StepKeptHolds, PTL
     DEF Spec, MapUndisturbed, EachHalfReported, XaInaudibleUnderMap, MapEndsReported

(* The next sector is delivered to the half DBUF does not name, and a read    *)
(* that waits to stop ends with the sector it delivers (deliver_sector).      *)
THEOREM DeliveriesKeptHolds == Spec => DeliveriesKept
<1>1. [StepKept]_vars =>
        /\ [regs.xbuf /\ ~regs.audio /\ regs'.xbuf => ram'.body[regs.slot] = ram.body[regs.slot]]_vars
        /\ [drive.stopping /\ ram'.header # ram.header => drive' = IdleDrive]_vars
  BY DEF StepKept, DataSpared, StopFinal
<1> QED
  BY <1>1, AllInvHolds, StepKeptHolds, PTL
     DEF Spec, DeliveriesKept, DataSurvivesNextDelivery, NothingAfterStop

(* IN4 agrees with what the registers report: no step parts them but the     *)
(* guest's own writes of ABUF and XBUF, and whatever they left is mended by  *)
(* the next sector delivered, the next half reported and every step that     *)
(* moves the line.                                                          *)
THEOREM NoLostInterruptHolds == Spec => NoLostInterrupt
<1>1. BufferWrite \/ LineSettled =>
        \/ \E w \in BufferWrites : WriteBuffer(w[1], w[2])
        \/ (LineAgrees => LineAgrees') /\ (int_line' # int_line => LineAgrees')
  BY DEF BufferWrite, LineSettled, LineAgrees, LineLevel
<1>2. [StepKept /\ (BufferWrite \/ LineSettled)]_vars =>
        [\/ \E w \in BufferWrites : WriteBuffer(w[1], w[2])
         \/ /\ LineAgrees => LineAgrees'
            /\ ReportMade \/ int_line' # int_line => LineAgrees']_vars
  BY <1>1 DEF StepKept, ReportSettled
<1> QED
  BY <1>2, AllInvHolds, StepHolds, StepKeptHolds, PTL DEF Spec, NoLostInterrupt

=============================================================================
