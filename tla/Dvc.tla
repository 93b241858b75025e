--------------------------------- MODULE Dvc ---------------------------------
(***************************************************************************)
(* The VMPEG cartridge (crates/cdi-core/src/dvc.rs, Vmpeg): an MPEG video  *)
(* decoder (FMV) and an MPEG audio decoder (FMA) behind two register       *)
(* blocks.  The drivers write commands, arm the one DMA channel and        *)
(* acknowledge interrupt status; a DMA completion parses and decodes what  *)
(* was transferred; the clocks start the plays at the stream's timestamps, *)
(* play samples and stage pictures; the display's VSYNC latches them.  All *)
(* interleave at any point.                                                *)
(*                                                                         *)
(* Variables group the fields of the struct:                               *)
(*   video       what the FMV side and its demultiplexer hold              *)
(*   audio       what the FMA side and its demultiplexer hold              *)
(*   stc         the stream time that system_clock_anchor maps the present *)
(*               DCLK to, None without an anchor                           *)
(*   dma_target  which decoder the channel feeds                           *)
(* and those of the title being played are                                 *)
(*   title       its two streams, cut into the sectors the drivers submit  *)
(*   fed         how many sectors of each stream the decoders were given   *)
(*   play        which play each decoder is in, to tell old data from new  *)
(*                                                                         *)
(* Data kept abstract: a stretch of stream is what parsing it yields, a    *)
(* Chunk; a unit is a picture or a block of samples.  A deadline is the    *)
(* number of DCLKs left until it, 0 once reached; 90 kHz timestamps are    *)
(* halved to DCLKs.  Stream selection, geometry, the decoding timestamps,  *)
(* the audio status word (which repeats the interrupt status), statistics, *)
(* and the status bits that are only raised and acknowledged (SEQ, GOP,    *)
(* PIC, VSYNC and the timer's; the audio side's start and decoded) are     *)
(* left out.                                                               *)
(***************************************************************************)
EXTENDS Integers, Sequences

CONSTANTS
    Titles,        \* the titles on disc: two sequences of sectors each
    MaxTime,       \* stream times are below this; the clock stops counting there
    PrimingDelay,  \* 3000 DCLKs in finish_dma
    PauseDelay,    \* 100 DCLKs in handle_fmv_write
    MaxOwed        \* the sample periods that audio_sample_accum counts up to

None == -1
Times == 0..MaxTime
Deadline == Times \cup {None}
Plays == {0, 1}

TitleUnit == [no : Nat, last : BOOLEAN]
Unit == [play : Plays, no : Nat, last : BOOLEAN]
ChunkOf(U) == [scr : Deadline, first_pts : Deadline, last_pts : Deadline, units : Seq(U),
               sequence_end : BOOLEAN, program_end : BOOLEAN]

(* The units of a stream are numbered 1, 2, ... in the order of the stream. *)
Numbered(s) ==
    \A c \in DOMAIN s : \A i \in DOMAIN s[c].units :
        /\ s[c].units[i].no >= 1
        /\ \A b \in 1..c : \A j \in DOMAIN s[b].units :
               b < c \/ j < i => s[b].units[j].no < s[c].units[i].no
        /\ s[c].units[i].no > 1 =>
               \E b \in 1..c : \E j \in DOMAIN s[b].units :
                   s[b].units[j].no = s[c].units[i].no - 1

ASSUME DvcAssumption ==
    /\ MaxTime \in Nat
    /\ PrimingDelay \in Times
    /\ PauseDelay \in Times
    /\ MaxOwed \in Nat
    /\ \A t \in Titles : /\ t.video \in Seq(ChunkOf(TitleUnit))
                         /\ t.audio \in Seq(ChunkOf(TitleUnit))
                         /\ Numbered(t.video) /\ Numbered(t.audio)

VARIABLES video, audio, stc, dma_target, title, fed, play

vars == <<video, audio, stc, dma_target, title, fed, play>>

-----------------------------------------------------------------------------
(* States *)

Nothing == [scr |-> None, first_pts |-> None, last_pts |-> None, units |-> <<>>,
            sequence_end |-> FALSE, program_end |-> FALSE]

(* The end events of the stream, the last picture and the empty buffer, the *)
(* pause and the completed update of the display controls.                  *)
FmvStatus == {"esi", "eii", "lpd", "ndat", "pause", "update"}
FmaStatus == {"eoi", "underflow"}

AtMostOne(U) == {s \in Seq(U) : Len(s) <= 1}

VideoType ==
    [enabled : BOOLEAN, armed : BOOLEAN, playing : BOOLEAN, visible : BOOLEAN,
     update : {"none", "picture", "scroll"},
     start : Deadline, pause_irq : Deadline, last_due : Deadline, overdue : BOOLEAN,
     isr : SUBSET FmvStatus, reported : BOOLEAN, after_eoi : BOOLEAN,
     sequence_end_seen : BOOLEAN, iso_end_reported : BOOLEAN, iso_end_pending : BOOLEAN,
     input : ChunkOf(Unit), tail : ChunkOf(Unit),
     scr : Deadline, first_pts : Deadline, last_pts : Deadline,
     decoded : BOOLEAN, frames : Seq(Unit), pending : AtMostOne(Unit), current : AtMostOne(Unit)]

AudioType ==
    [armed : BOOLEAN, enabled : BOOLEAN, start : Deadline, owed : 0..MaxOwed,
     isr : SUBSET FmaStatus, reported : BOOLEAN, after_eoi : BOOLEAN, iso_end_reported : BOOLEAN,
     input : ChunkOf(Unit), tail : ChunkOf(Unit),
     scr : Deadline, first_pts : Deadline, last_pts : Deadline,
     decoded : BOOLEAN, pcm : Seq(Unit)]

TypeOK ==
    /\ video \in VideoType
    /\ audio \in AudioType
    /\ stc \in Deadline
    /\ dma_target \in {"none", "video", "audio"}
    /\ title \in Titles
    /\ fed \in [video : Nat, audio : Nat]
    /\ play \in [video : Plays, audio : Plays]

(* decoded is the one of the statistics that decisions read: a reset keeps it. *)
ResetVideo(decoded) ==
    [enabled |-> FALSE, armed |-> FALSE, playing |-> FALSE, visible |-> FALSE, update |-> "none",
     start |-> None, pause_irq |-> None, last_due |-> None, overdue |-> FALSE,
     isr |-> {}, reported |-> FALSE, after_eoi |-> FALSE,
     sequence_end_seen |-> FALSE, iso_end_reported |-> FALSE, iso_end_pending |-> FALSE,
     input |-> Nothing, tail |-> Nothing, scr |-> None, first_pts |-> None, last_pts |-> None,
     decoded |-> decoded, frames |-> <<>>, pending |-> <<>>, current |-> <<>>]

ResetAudio(decoded) ==
    [armed |-> FALSE, enabled |-> FALSE, start |-> None, owed |-> 0,
     isr |-> {}, reported |-> FALSE, after_eoi |-> FALSE, iso_end_reported |-> FALSE,
     input |-> Nothing, tail |-> Nothing, scr |-> None, first_pts |-> None, last_pts |-> None,
     decoded |-> decoded, pcm |-> <<>>]

Init ==
    /\ video = ResetVideo(FALSE)
    /\ audio = ResetAudio(FALSE)
    /\ stc = None
    /\ dma_target = "none"
    /\ title \in Titles
    /\ fed = [video |-> 0, audio |-> 0]
    /\ play = [video |-> 0, audio |-> 0]

-----------------------------------------------------------------------------
(* The demultiplexer *)

Later(a, b) == IF b = None THEN a ELSE b
Earlier(a, b) == IF a = None THEN b ELSE a

(* Chunk c followed by chunk d. *)
Join(c, d) ==
    [scr |-> Later(c.scr, d.scr), first_pts |-> Earlier(c.first_pts, d.first_pts),
     last_pts |-> Later(c.last_pts, d.last_pts), units |-> c.units \o d.units,
     sequence_end |-> c.sequence_end \/ d.sequence_end,
     program_end |-> c.program_end \/ d.program_end]

(* feed: the input completes the packet that was pending, and may end in    *)
(* the middle of a packet itself (`torn`).                                  *)
Parsed(s, torn) ==
    IF s.input = Nothing THEN Nothing
    ELSE IF torn THEN s.tail ELSE Join(s.tail, s.input)

Feed(s, torn) ==
    LET p == Parsed(s, torn) IN
    [s EXCEPT !.tail = IF s.input = Nothing THEN s.tail ELSE IF torn THEN s.input ELSE Nothing,
              !.input = Nothing,
              !.scr = Later(s.scr, p.scr),
              !.first_pts = Earlier(s.first_pts, p.first_pts),
              !.last_pts = Later(s.last_pts, p.last_pts)]

-----------------------------------------------------------------------------
(* The clock the plays share *)

(* ensure_system_clock_anchor: the first decoder to get data maps the time  *)
(* of its stream to the present DCLK.                                       *)
Anchored(clock, scr) == IF clock = None THEN scr ELSE clock

(* anchored_timestamp_deadline *)
Until(clock, pts) == IF pts > clock THEN pts - clock ELSE 0

(* Mutant: audio that plays does not hold the clock. *)
ReleasedUnderAudio(clock, v, a) == IF v.armed \/ v.playing THEN clock ELSE None

(* release_system_clock_if_idle *)
Released(clock, v, a) ==
    IF a.armed \/ a.enabled \/ v.armed \/ v.playing THEN clock ELSE None

CountDown(d) == IF d > 0 THEN d - 1 ELSE d
CountUp(t) == IF t = None \/ t = MaxTime THEN t ELSE t + 1

-----------------------------------------------------------------------------
(* Pictures on their way to the display *)

(* Mutant: a last picture with a time is held for ever. *)
LastPictureHeld(v) == v.frames # <<>> /\ Head(v.frames).last /\ v.last_due # None

(* last_picture_waiting_for_pts *)
LastPictureWaiting(v) == v.frames # <<>> /\ Head(v.frames).last /\ v.last_due > 0

(* present_next_video_frame stages a picture for the next VSYNC. *)
CanPresent(v) == v.pending = <<>> /\ v.frames # <<>> /\ ~LastPictureWaiting(v)

Present(v) ==
    IF CanPresent(v) THEN [v EXCEPT !.pending = <<Head(v.frames)>>, !.frames = Tail(v.frames)] ELSE v

(* prime_video_output *)
Prime(v) == IF v.playing /\ v.visible /\ v.current = <<>> THEN Present(v) ELSE v

(* schedule_video_start *)
CanSchedule(v) == v.armed /\ v.start = None /\ v.scr # None /\ v.first_pts # None

ScheduleStart(v, clock) ==
    IF CanSchedule(v) THEN [v EXCEPT !.start = Until(Anchored(clock, v.scr), v.first_pts)] ELSE v

ScheduleClock(v, clock) == IF CanSchedule(v) THEN Anchored(clock, v.scr) ELSE clock

CompleteUpdate(v) == [v EXCEPT !.update = "none", !.isr = @ \cup {"update"}]

-----------------------------------------------------------------------------
(* The ends of the streams *)

(* signal_pending_video_iso_end *)
SignalPendingIsoEnd(v) ==
    IF v.iso_end_pending THEN [v EXCEPT !.iso_end_pending = FALSE, !.isr = @ \cup {"eii"}] ELSE v

(* Mutant: EII is raised at once. *)
SignalVideoEndAtOnce(v) ==
    IF v.iso_end_reported THEN v
    ELSE SignalPendingIsoEnd([v EXCEPT !.iso_end_reported = TRUE, !.iso_end_pending = TRUE])

(* signal_video_program_end: EII waits for an unacknowledged ESI. *)
SignalVideoEnd(v) ==
    LET w == [v EXCEPT !.iso_end_reported = TRUE, !.iso_end_pending = TRUE] IN
    CASE v.iso_end_reported -> v
      [] ~v.iso_end_reported /\ (~v.sequence_end_seen \/ "esi" \notin v.isr) -> SignalPendingIsoEnd(w)
      [] OTHER -> w

(* signal_audio_program_end *)
SignalAudioEnd(a) ==
    IF a.iso_end_reported THEN a
    ELSE [a EXCEPT !.iso_end_reported = TRUE, !.isr = @ \cup {"eoi"}]

(* raise_pending_video_underflow *)
OwesNdat(v) ==
    /\ v.after_eoi /\ v.enabled /\ ~v.reported /\ v.frames = <<>>
    /\ v.sequence_end_seen \/ \E i \in DOMAIN v.current : v.current[i].last

RaiseVideoUnderflow(v) ==
    IF OwesNdat(v) THEN [v EXCEPT !.after_eoi = FALSE, !.isr = @ \cup {"ndat"}, !.reported = TRUE] ELSE v

(* raise_pending_audio_underflow *)
RaiseAudioUnderflow(a) ==
    IF a.enabled /\ a.pcm = <<>> /\ a.decoded /\ ~a.reported
    THEN [a EXCEPT !.after_eoi = FALSE, !.isr = @ \cup {"underflow"}, !.reported = TRUE]
    ELSE a

-----------------------------------------------------------------------------
(* DMA *)

(* push_dma_word and the transfer port: the drivers submit the next sector  *)
(* of the title.                                                            *)
Submitted(chunk, p) == [chunk EXCEPT !.units = [i \in DOMAIN @ |-> [play |-> p, no |-> @[i].no, last |-> @[i].last]]]

NextSector(stream) == Submitted(title[stream][fed[stream] + 1], play[stream])

PushVideo ==
    /\ fed.video < Len(title.video)
    /\ video' = [video EXCEPT !.input = Join(@, NextSector("video"))]
    /\ fed' = [fed EXCEPT !.video = @ + 1]
    /\ UNCHANGED <<audio, stc, dma_target, title, play>>

PushDma ==
    \/ dma_target = "video" /\ PushVideo
    \/ /\ dma_target = "audio"
       /\ fed.audio < Len(title.audio)
       /\ audio' = [audio EXCEPT !.input = Join(@, NextSector("audio"))]
       /\ fed' = [fed EXCEPT !.audio = @ + 1]
       /\ UNCHANGED <<video, stc, dma_target, title, play>>

(* FMV_XFER takes words whether or not a transfer is armed. *)
WriteTransferPort == PushVideo

(* finish_dma on the video side, after the demultiplexer: anchor the clock, *)
(* schedule the start, decode, report the ends, queue the pictures.         *)
SequenceEnd(v, clock) ==
    [v EXCEPT !.isr = @ \cup {"esi"}, !.sequence_end_seen = TRUE,
              !.last_due = IF clock = None \/ v.last_pts = None THEN None ELSE Until(clock, v.last_pts)]

Decoded(v, units) ==
    [v EXCEPT !.decoded = TRUE, !.frames = @ \o units,
              !.start = IF v.armed /\ v.start = None THEN PrimingDelay ELSE v.start]

QueuePictures(v, units) == [Prime(Decoded(v, units)) EXCEPT !.reported = FALSE]

FinishVideo(torn) ==
    LET p == Parsed(video, torn)
        fedVideo == Feed(video, torn)
        clock == IF fedVideo.armed /\ fedVideo.scr # None THEN Anchored(stc, fedVideo.scr) ELSE stc
        scheduled == ScheduleStart(fedVideo, clock)
        ended == IF p.sequence_end THEN SequenceEnd(scheduled, clock) ELSE scheduled
        closed == IF p.program_end THEN SignalVideoEnd(ended) ELSE ended
    IN  /\ dma_target = "video"
        /\ video' = IF p.units = <<>> THEN closed ELSE QueuePictures(closed, p.units)
        /\ stc' = clock
        /\ UNCHANGED audio

(* finish_dma on the audio side *)
DecodeAudio(a, units, clock) ==
    [a EXCEPT !.decoded = TRUE, !.pcm = @ \o units, !.reported = FALSE,
              !.start = IF a.armed /\ a.start = None /\ a.scr # None /\ a.first_pts # None
                        THEN Until(clock, a.first_pts) ELSE a.start]

FinishAudio(torn) ==
    LET p == Parsed(audio, torn)
        fedAudio == Feed(audio, torn)
        clock == IF fedAudio.armed /\ fedAudio.scr # None THEN Anchored(stc, fedAudio.scr) ELSE stc
        closed == IF p.program_end THEN SignalAudioEnd(fedAudio) ELSE fedAudio
    IN  /\ dma_target = "audio"
        /\ audio' = IF p.units = <<>> THEN closed ELSE DecodeAudio(closed, p.units, clock)
        /\ stc' = clock
        /\ UNCHANGED video

FinishDma ==
    /\ \E torn \in BOOLEAN : FinishVideo(torn) \/ FinishAudio(torn)
    /\ dma_target' = "none"
    /\ UNCHANGED <<title, fed, play>>

-----------------------------------------------------------------------------
(* The system command of the video side (FMV_SYSCMD): a word may carry      *)
(* several commands, which handle_fmv_write obeys in this order.            *)

Disable(v) == [v EXCEPT !.enabled = FALSE, !.armed = FALSE, !.playing = FALSE]

(* Mutant: the flush keeps the unacknowledged status. *)
ResetKeepsStatus(v) ==
    [ResetVideo(v.decoded) EXCEPT !.enabled = v.enabled, !.visible = v.visible,
                                  !.update = v.update, !.overdue = v.overdue,
                                  !.reported = v.reported, !.isr = v.isr]

(* Mutant: the flush forgets the torn packet (the damaged pictures that the *)
(* comment in handle_fmv_write tells of).                                   *)
ResetKeepsTail(v) ==
    [ResetVideo(v.decoded) EXCEPT !.enabled = v.enabled, !.visible = v.visible,
                                  !.update = v.update, !.overdue = v.overdue,
                                  !.reported = v.reported, !.tail = v.tail]

(* What a decoder reset leaves alone. *)
ResetDecoder(v) ==
    [ResetVideo(v.decoded) EXCEPT !.enabled = v.enabled, !.visible = v.visible,
                                  !.update = v.update, !.overdue = v.overdue,
                                  !.reported = v.reported]

Enable(v) == [v EXCEPT !.enabled = TRUE]

Arm(v) == [v EXCEPT !.armed = TRUE, !.start = None]

Continue(v) == Prime([v EXCEPT !.armed = FALSE, !.playing = TRUE, !.start = None])

Pause(v) == [v EXCEPT !.playing = FALSE, !.start = None, !.pause_irq = PauseDelay]

Stop(v) == [v EXCEPT !.armed = FALSE, !.playing = FALSE, !.start = None, !.last_due = None,
                     !.pause_irq = None]

SystemCommands == {"disable", "reset", "enable", "play", "continue", "pause", "stop", "dma"}

SystemCommand(c) ==
    LET disabled == IF "disable" \in c THEN Disable(video) ELSE video
        cleared == IF "reset" \in c THEN ResetDecoder(disabled) ELSE disabled
        idle == IF c \cap {"disable", "reset"} # {} THEN Released(stc, cleared, audio) ELSE stc
        enabled == IF "enable" \in c THEN Enable(cleared) ELSE cleared
        armed == IF "play" \in c THEN Arm(enabled) ELSE enabled
        clock == IF "play" \in c THEN ScheduleClock(armed, idle) ELSE idle
        scheduled == IF "play" \in c THEN ScheduleStart(armed, idle) ELSE armed
        continued == IF "continue" \in c THEN Continue(scheduled) ELSE scheduled
        paused == IF "pause" \in c THEN Pause(continued) ELSE continued
        stopped == IF "stop" \in c THEN Stop(paused) ELSE paused
    IN  /\ video' = stopped
        /\ stc' = IF "stop" \in c THEN Released(clock, stopped, audio) ELSE clock
        /\ dma_target' = IF "dma" \in c THEN "video" ELSE dma_target
        /\ fed' = IF "reset" \in c THEN [fed EXCEPT !.video = 0] ELSE fed
        /\ play' = IF "reset" \in c THEN [play EXCEPT !.video = 1 - @] ELSE play
        /\ UNCHANGED <<audio, title>>

(* FMV_VIDCMD *)
VideoCommands == {"update", "scroll", "hide", "show"}

VideoCommand(c) ==
    LET updated == IF "update" \notin c THEN video
                   ELSE [video EXCEPT !.update = IF "scroll" \in c THEN "scroll" ELSE "picture"]
        hidden == IF "hide" \in c THEN [updated EXCEPT !.visible = FALSE] ELSE updated
    IN  /\ video' = IF "show" \in c THEN Prime([hidden EXCEPT !.visible = TRUE]) ELSE hidden
        /\ UNCHANGED <<audio, stc, dma_target, title, fed, play>>

(* The command of the audio side (FMA_CMD). *)
StopAudio(a) ==
    [a EXCEPT !.armed = FALSE, !.enabled = FALSE, !.start = None,
              !.input = Nothing, !.tail = Nothing, !.scr = None, !.first_pts = None, !.last_pts = None,
              !.isr = {}, !.pcm = <<>>, !.reported = FALSE, !.after_eoi = FALSE,
              !.iso_end_reported = FALSE]

AudioCommands == {"stop", "play", "dma"}

AudioCommand(c) ==
    LET stopped == IF "stop" \in c THEN StopAudio(audio) ELSE audio
        armed == IF "play" \in c THEN [stopped EXCEPT !.armed = TRUE] ELSE stopped
    IN  /\ audio' = IF "dma" \in c THEN [armed EXCEPT !.reported = FALSE] ELSE armed
        /\ stc' = IF "stop" \in c THEN Released(stc, video, stopped) ELSE stc
        /\ dma_target' = IF "dma" \in c THEN "audio" ELSE dma_target
        /\ fed' = IF "stop" \in c THEN [fed EXCEPT !.audio = 0] ELSE fed
        /\ play' = IF "stop" \in c THEN [play EXCEPT !.audio = 1 - @] ELSE play
        /\ UNCHANGED <<video, title>>

-----------------------------------------------------------------------------
(* Interrupt status: reading it or writing it clears all of it, and the     *)
(* bits read or written are the ones acknowledged.                          *)

AcknowledgeFmv(bits) ==
    LET v == [video EXCEPT !.isr = {}] IN
    /\ video' = IF "esi" \in bits /\ v.iso_end_pending THEN SignalPendingIsoEnd(v)
                ELSE IF "eii" \in bits THEN RaiseVideoUnderflow([v EXCEPT !.after_eoi = TRUE])
                ELSE v
    /\ UNCHANGED <<audio, stc, dma_target, title, fed, play>>

(* Mutant: an earlier underflow counts for the one after the end. *)
AcknowledgeFmaOnce(bits) ==
    LET a == [audio EXCEPT !.isr = {}] IN
    /\ audio' = IF "eoi" \in bits /\ a.iso_end_reported
                THEN RaiseAudioUnderflow([a EXCEPT !.after_eoi = TRUE])
                ELSE a
    /\ UNCHANGED <<video, stc, dma_target, title, fed, play>>

AcknowledgeFma(bits) ==
    LET a == [audio EXCEPT !.isr = {}] IN
    /\ audio' = IF "eoi" \in bits /\ a.iso_end_reported
                THEN RaiseAudioUnderflow([a EXCEPT !.after_eoi = TRUE, !.reported = FALSE])
                ELSE a
    /\ UNCHANGED <<video, stc, dma_target, title, fed, play>>

ReadFmvIsr == AcknowledgeFmv(video.isr)
WriteFmvIsr(bits) == AcknowledgeFmv(bits)
ReadFmaIsr == AcknowledgeFma(audio.isr)
WriteFmaIsr(bits) == AcknowledgeFma(bits)

-----------------------------------------------------------------------------
(* Clocks *)

(* tick, the video side: deadlines, then the cadence of the pictures.       *)
Deadlines(v, edges) ==
    IF "dclk" \notin edges THEN v
    ELSE [v EXCEPT !.start = CountDown(@), !.pause_irq = CountDown(@), !.last_due = CountDown(@)]

StartVideo(v) ==
    IF v.start = 0 THEN Prime([v EXCEPT !.start = None, !.armed = FALSE, !.playing = TRUE]) ELSE v

PauseDone(v) ==
    IF v.pause_irq = 0 THEN [v EXCEPT !.pause_irq = None, !.isr = @ \cup {"pause"}] ELSE v

ScrollUpdate(v, edges) ==
    IF v.update = "scroll" /\ "scroll" \in edges THEN CompleteUpdate(v) ELSE v

(* One frame period: a picture still staged, or a last picture before its   *)
(* time, keeps the period due.                                              *)
Cadence(v) ==
    IF v.pending # <<>> \/ LastPictureWaiting(v) THEN [v EXCEPT !.overdue = TRUE]
    ELSE IF v.frames # <<>> THEN [Present(v) EXCEPT !.overdue = FALSE, !.reported = FALSE]
    ELSE IF v.decoded /\ ~v.reported
    THEN [v EXCEPT !.overdue = FALSE, !.isr = @ \cup {"ndat"}, !.reported = TRUE]
    ELSE [v EXCEPT !.overdue = FALSE]

TickVideo(v, edges) ==
    LET w == ScrollUpdate(PauseDone(StartVideo(Deadlines(v, edges))), edges) IN
    IF w.playing /\ (w.overdue \/ "frame" \in edges) THEN Cadence(w) ELSE w

(* tick, the audio side: the start, then the samples.  Sample periods that  *)
(* pass without samples stay owed.                                          *)
StartAudio(a, edges) ==
    LET b == IF "dclk" \in edges THEN [a EXCEPT !.start = CountDown(@)] ELSE a IN
    IF b.armed /\ ~b.enabled /\ b.start = 0 THEN [b EXCEPT !.enabled = TRUE] ELSE b

Drain(a, edges) ==
    LET owed == IF "sample" \in edges /\ a.owed < MaxOwed THEN a.owed + 1 ELSE a.owed
        played == IF owed <= Len(a.pcm) THEN owed ELSE Len(a.pcm)
    IN  [a EXCEPT !.owed = owed - played, !.pcm = SubSeq(@, played + 1, Len(@))]

TickAudio(a, edges) ==
    LET b == StartAudio(a, edges) IN
    IF b.enabled THEN RaiseAudioUnderflow(Drain(b, edges)) ELSE b

Edges == {"dclk", "sample", "frame", "scroll"}

(* cycles_until_next_event keeps a slice from passing a second edge of a    *)
(* kind; edges of different kinds may fall together.                        *)
Tick(edges) ==
    /\ video' = TickVideo(video, edges)
    /\ audio' = TickAudio(audio, edges)
    /\ stc' = IF "dclk" \in edges THEN CountUp(stc) ELSE stc
    /\ UNCHANGED <<dma_target, title, fed, play>>

(* latch_pending_video_frame *)
Latch(v) ==
    LET last == v.pending[1].last
        shown == [v EXCEPT !.current = v.pending, !.pending = <<>>,
                           !.isr = IF last THEN @ \cup {"lpd"} ELSE @,
                           !.last_due = IF last THEN None ELSE @]
    IN  RaiseVideoUnderflow(IF v.update = "picture" THEN CompleteUpdate(shown) ELSE shown)

NotifyVsync ==
    /\ video' = IF video.pending = <<>> THEN video ELSE Latch(video)
    /\ UNCHANGED <<audio, stc, dma_target, title, fed, play>>

-----------------------------------------------------------------------------
(* reset keeps the statistics, power_cycle does not. *)
Reset(power) ==
    /\ video' = ResetVideo(video.decoded /\ ~power)
    /\ audio' = ResetAudio(audio.decoded /\ ~power)
    /\ stc' = None
    /\ dma_target' = "none"
    /\ fed' = [video |-> 0, audio |-> 0]
    /\ play' = [video |-> 1 - play.video, audio |-> 1 - play.audio]
    /\ UNCHANGED title

Next ==
    \/ PushDma
    \/ WriteTransferPort
    \/ FinishDma
    \/ \E c \in SUBSET SystemCommands : SystemCommand(c)
    \/ \E c \in SUBSET VideoCommands : VideoCommand(c)
    \/ \E c \in SUBSET AudioCommands : AudioCommand(c)
    \/ ReadFmvIsr
    \/ ReadFmaIsr
    \/ \E bits \in SUBSET FmvStatus : WriteFmvIsr(bits)
    \/ \E bits \in SUBSET FmaStatus : WriteFmaIsr(bits)
    \/ \E edges \in SUBSET Edges : Tick(edges)
    \/ NotifyVsync
    \/ \E power \in BOOLEAN : Reset(power)

Spec == Init /\ [][Next]_vars

-----------------------------------------------------------------------------
(* Properties *)

(* What the status of a play says agrees with what the play went through:   *)
(* an end is reported or still owed only for an end that was parsed in this *)
(* play, a last picture has a time only after the sequence ended, audio     *)
(* runs only when armed and past its start, and a decoder without output    *)
(* queues none.  The flushes of the commands and of the resets, the end     *)
(* signals and the acknowledgements each clear or set some of these flags.  *)
VideoFacts(v) ==
    /\ "esi" \in v.isr => v.sequence_end_seen
    /\ v.iso_end_pending => v.iso_end_reported /\ v.sequence_end_seen
    /\ "eii" \in v.isr => v.iso_end_reported /\ ~v.iso_end_pending
    /\ v.last_due # None => v.sequence_end_seen
    /\ ~v.decoded => v.frames = <<>> /\ v.pending = <<>> /\ v.current = <<>>

AudioFacts(a) ==
    /\ "eoi" \in a.isr \/ a.after_eoi => a.iso_end_reported
    /\ a.enabled => a.armed /\ a.start = 0
    /\ ~a.decoded => a.pcm = <<>>

DvcInv == TypeOK /\ VideoFacts(video) /\ AudioFacts(audio)

(* No picture and no block of samples is lost, repeated, reordered or left  *)
(* over from an aborted play between the driver's transfer and the output:  *)
(* what the display shows, the staged picture, the decoded queue, the torn  *)
(* packet and the input are, in this order, consecutive units of the        *)
(* present play up to the last one submitted.  A DMA completion, the        *)
(* cadence, VSYNC and an abort each move a part of them (finish_dma,        *)
(* present_next_video_frame, latch_pending_video_frame, the flushes of      *)
(* handle_fmv_write and handle_fma_write).                                  *)
Shown == video.current \o video.pending \o video.frames \o video.tail.units \o video.input.units
Heard == audio.pcm \o audio.tail.units \o audio.input.units

InOrder(pipeline, stream) ==
    /\ \A i \in DOMAIN pipeline : pipeline[i].play = play[stream]
    /\ \A i \in 1..(Len(pipeline) - 1) : pipeline[i + 1].no = pipeline[i].no + 1
    /\ \A c \in 1..fed[stream] :
           \A i \in DOMAIN title[stream][c].units :
               pipeline # <<>> => pipeline[Len(pipeline)].no >= title[stream][c].units[i].no

StreamsInOrder ==
    /\ InOrder(Shown, "video")
    /\ InOrder(Heard, "audio")
    /\ Shown # <<>> /\ video.current = <<>> => Shown[1].no = 1
    /\ Shown = <<>> => \A c \in 1..fed.video : title.video[c].units = <<>>

(* Audio and video that play together share one timeline: once a decoder    *)
(* that got data anchored the clock, it runs undisturbed until neither      *)
(* decoder is armed or running, or a command aborts one play, to start      *)
(* another, while the other decoder is idle (ensure_system_clock_anchor     *)
(* against release_system_clock_if_idle in both command handlers).          *)
VideoRuns(v) == v.armed \/ v.playing
AudioRuns(a) == a.armed \/ a.enabled

AbortsVideo ==
    \E c \in SUBSET SystemCommands : c \cap {"disable", "reset"} # {} /\ SystemCommand(c)
AbortsAudio == \E c \in SUBSET AudioCommands : "stop" \in c /\ AudioCommand(c)

OneTimeline ==
    [][stc # None => \/ stc' \in {stc, CountUp(stc)}
                     \/ stc' = None /\ ~VideoRuns(video') /\ ~AudioRuns(audio')
                     \/ ~AudioRuns(audio) /\ AbortsVideo
                     \/ ~VideoRuns(video) /\ AbortsAudio]_vars

(* The end of the program is never reported into a status word that still   *)
(* carries the end of the sequence: the driver sees the two as separate     *)
(* interrupts (signal_video_program_end, acknowledge_fmv_isr).              *)
EiiSeparate ==
    [][("eii" \notin video.isr /\ "eii" \in video'.isr) => "esi" \notin video'.isr]_vars

(* Once the driver acknowledged the end of the audio program, a play that   *)
(* was scheduled reports its empty buffer, also when it ran dry before the  *)
(* end arrived, unless it is stopped (acknowledge_fma_isr).                 *)
EoiThenUnderflow ==
    (audio.after_eoi /\ audio.armed /\ audio.start # None) ~> ~audio.after_eoi

(* A last picture that is held back for its time gets displayed in the end, *)
(* unless the play is interrupted (tick, last_picture_waiting_for_pts,      *)
(* latch_pending_video_frame).                                              *)
LastPictureQueued == \E i \in DOMAIN video.frames : video.frames[i].last
LastPictureShown == \E i \in DOMAIN video.current : video.current[i].last

HeldPictureShown ==
    (video.playing /\ LastPictureQueued) ~> (~video.playing \/ LastPictureShown)

(* What a play ends with reaches the driver or the screen. *)
PlaysEnd == EoiThenUnderflow /\ HeldPictureShown

(* The empty buffer of a video play is never reported into a status word    *)
(* that still carries the end of the program (the comment in                *)
(* raise_pending_video_underflow; tick reports an empty buffer too).        *)
NdatSeparate ==
    [][("ndat" \notin video.isr /\ "ndat" \in video'.isr) => "eii" \notin video'.isr]_vars
=============================================================================
