----------------------------- MODULE DvcProofs -----------------------------
(***************************************************************************)
(* Proofs about Dvc for all titles and all bounds.  Every handler is a     *)
(* composition of the record operators of Dvc, so there is one lemma per   *)
(* operator: it keeps the record's type and its facts.                     *)
(*                                                                         *)
(* The second half is about the units themselves: what a decoder holds of  *)
(* its stream, from the display back to the input, is one line of units,   *)
(* which handlers only move along.                                         *)
(***************************************************************************)
EXTENDS Dvc, SequenceTheorems, TLAPS

VideoOK(v) == v \in VideoType /\ VideoFacts(v)
AudioOK(a) == a \in AudioType /\ AudioFacts(a)
Chunks == ChunkOf(Unit)

-----------------------------------------------------------------------------
(* Deadlines and chunks *)

LEMMA NothingIsChunk == Nothing \in Chunks
  BY DvcAssumption DEF Nothing, Chunks, ChunkOf, Deadline, Times, None

\* What is computed from deadlines and the clock is a deadline.
LEMMA ClockTypes ==
  ASSUME NEW s \in Deadline, NEW t \in Deadline
  PROVE  /\ CountDown(s) \in Deadline
         /\ CountDown(s) = None <=> s = None
         /\ s = 0 => CountDown(s) = 0
         /\ CountUp(s) \in Deadline
         /\ Anchored(s, t) \in Deadline
         /\ (s # None \/ t # None) => Anchored(s, t) # None
         /\ (s # None /\ t # None) => Until(s, t) \in Times
         /\ Later(s, t) \in Deadline /\ Earlier(s, t) \in Deadline
  BY DvcAssumption DEF Deadline, Times, None, CountDown, CountUp, Anchored, Until, Later, Earlier

\* Two chunks join to one.
LEMMA JoinType ==
  ASSUME NEW c \in Chunks, NEW d \in Chunks
  PROVE  Join(c, d) \in Chunks
  <1>1. /\ Later(c.scr, d.scr) \in Deadline
        /\ Earlier(c.first_pts, d.first_pts) \in Deadline
        /\ Later(c.last_pts, d.last_pts) \in Deadline
    BY ClockTypes DEF Chunks, ChunkOf
  <1>2. c.units \o d.units \in Seq(Unit)
    BY DEF Chunks, ChunkOf
  <1> QED BY <1>1, <1>2 DEF Join, Chunks, ChunkOf

\* Parsing yields a chunk.
LEMMA ParsedType ==
  ASSUME NEW torn \in BOOLEAN, NEW s, s.input \in Chunks, s.tail \in Chunks
  PROVE  Parsed(s, torn) \in Chunks
  BY NothingIsChunk, JoinType DEF Parsed

(* finish_dma only queues what parsing yields, so feeding the demultiplexer *)
(* disturbs no fact.                                                        *)
LEMMA FeedVideo ==
  ASSUME NEW v, VideoOK(v), NEW torn \in BOOLEAN
  PROVE  VideoOK(Feed(v, torn)) /\ Feed(v, torn).isr = v.isr
  <1>1. v.input \in Chunks /\ v.tail \in Chunks /\ v.scr \in Deadline
        /\ v.first_pts \in Deadline /\ v.last_pts \in Deadline
    BY DEF VideoOK, VideoType, Chunks
  <1>2. Parsed(v, torn) \in Chunks
    BY <1>1, ParsedType
  <1>3. /\ Later(v.scr, Parsed(v, torn).scr) \in Deadline
        /\ Earlier(v.first_pts, Parsed(v, torn).first_pts) \in Deadline
        /\ Later(v.last_pts, Parsed(v, torn).last_pts) \in Deadline
    BY <1>1, <1>2, ClockTypes DEF Chunks, ChunkOf
  <1>4. Feed(v, torn) \in VideoType
    BY <1>1, <1>3, NothingIsChunk, ZenonT(60) DEF Feed, VideoOK, VideoType, Chunks
  <1>5. VideoFacts(Feed(v, torn)) /\ Feed(v, torn).isr = v.isr
    BY DEF Feed, VideoOK, VideoType, VideoFacts
  <1> QED BY <1>4, <1>5 DEF VideoOK

\* The same of the audio side.
LEMMA FeedAudio ==
  ASSUME NEW a, AudioOK(a), NEW torn \in BOOLEAN
  PROVE  AudioOK(Feed(a, torn))
  <1>1. a.input \in Chunks /\ a.tail \in Chunks /\ a.scr \in Deadline
        /\ a.first_pts \in Deadline /\ a.last_pts \in Deadline
    BY DEF AudioOK, AudioType, Chunks
  <1>2. Parsed(a, torn) \in Chunks
    BY <1>1, ParsedType
  <1>3. /\ Later(a.scr, Parsed(a, torn).scr) \in Deadline
        /\ Earlier(a.first_pts, Parsed(a, torn).first_pts) \in Deadline
        /\ Later(a.last_pts, Parsed(a, torn).last_pts) \in Deadline
    BY <1>1, <1>2, ClockTypes DEF Chunks, ChunkOf
  <1>4. Feed(a, torn) \in AudioType
    BY <1>1, <1>3, NothingIsChunk DEF Feed, AudioOK, AudioType, Chunks
  <1>5. AudioFacts(Feed(a, torn))
    BY DEF Feed, AudioOK, AudioType, AudioFacts
  <1> QED BY <1>4, <1>5 DEF AudioOK

-----------------------------------------------------------------------------
(* Operators of the video side *)

\* The unit at the head of a queue is taken off it.
LEMMA OneUnit ==
  ASSUME NEW q \in Seq(Unit), q # <<>>
  PROVE  /\ Head(q) \in Unit /\ Tail(q) \in Seq(Unit)
         /\ <<Head(q)>> \in AtMostOne(Unit)
  <1>1. Head(q) \in Unit /\ Tail(q) \in Seq(Unit)
    OBVIOUS
  <1>2. <<Head(q)>> \in Seq(Unit) /\ Len(<<Head(q)>>) = 1
    BY <1>1
  <1> QED BY <1>1, <1>2 DEF AtMostOne

\* Presenting a picture.
LEMMA PresentOK ==
  ASSUME NEW v, VideoOK(v)
  PROVE  VideoOK(Present(v)) /\ Present(v).isr = v.isr /\ Present(v).decoded = v.decoded
  <1>1. CASE ~CanPresent(v)
    BY <1>1 DEF Present
  <1>2. CASE CanPresent(v)
    <2>1. v.frames \in Seq(Unit) /\ v.frames # <<>>
      BY <1>2 DEF CanPresent, VideoOK, VideoType
    <2>2. <<Head(v.frames)>> \in AtMostOne(Unit) /\ Tail(v.frames) \in Seq(Unit)
      BY <2>1, OneUnit
    <2>3. v.decoded
      BY <2>1 DEF VideoOK, VideoFacts, VideoType
    <2>4. Present(v) \in VideoType
      BY <1>2, <2>2 DEF Present, VideoOK, VideoType
    <2>5. VideoFacts(Present(v)) /\ Present(v).isr = v.isr /\ Present(v).decoded = v.decoded
      BY <1>2, <2>3 DEF Present, VideoOK, VideoType, VideoFacts
    <2> QED BY <2>4, <2>5 DEF VideoOK
  <1> QED BY <1>1, <1>2

\* Priming the display.
LEMMA PrimeOK ==
  ASSUME NEW v, VideoOK(v)
  PROVE  VideoOK(Prime(v)) /\ Prime(v).isr = v.isr /\ Prime(v).decoded = v.decoded
  BY PresentOK DEF Prime

\* Scheduling the start of a play anchors the clock.
LEMMA ScheduleOK ==
  ASSUME NEW v, VideoOK(v), NEW clock \in Deadline
  PROVE  /\ VideoOK(ScheduleStart(v, clock)) /\ ScheduleStart(v, clock).isr = v.isr
         /\ ScheduleClock(v, clock) \in Deadline
         /\ clock # None => ScheduleClock(v, clock) = clock
  <1>1. v.scr \in Deadline /\ v.first_pts \in Deadline
    BY DEF VideoOK, VideoType
  <1>2. Anchored(clock, v.scr) \in Deadline
    BY <1>1, ClockTypes
  <1>3. CASE CanSchedule(v)
    <2>1. Until(Anchored(clock, v.scr), v.first_pts) \in Times
      BY <1>1, <1>2, <1>3, ClockTypes DEF CanSchedule
    <2>2. Until(Anchored(clock, v.scr), v.first_pts) \in Deadline
      BY <2>1 DEF Deadline
    <2>3. ScheduleStart(v, clock) \in VideoType
      BY <1>3, <2>2 DEF ScheduleStart, VideoOK, VideoType
    <2>4. VideoFacts(ScheduleStart(v, clock)) /\ ScheduleStart(v, clock).isr = v.isr
      BY <1>3 DEF ScheduleStart, VideoOK, VideoType, VideoFacts
    <2> QED BY <1>2, <1>3, <2>3, <2>4 DEF ScheduleClock, VideoOK, Anchored
  <1>4. CASE ~CanSchedule(v)
    BY <1>4 DEF ScheduleStart, ScheduleClock
  <1> QED BY <1>3, <1>4

\* Completing an update of the picture.
LEMMA CompleteUpdateOK ==
  ASSUME NEW v, VideoOK(v)
  PROVE  VideoOK(CompleteUpdate(v)) /\ CompleteUpdate(v).isr = v.isr \cup {"update"}
         /\ CompleteUpdate(v).frames = v.frames
  BY DEF CompleteUpdate, VideoOK, VideoType, VideoFacts, FmvStatus

\* A postponed end of the program is told of once the end of sequence is acknowledged.
LEMMA SignalPendingOK ==
  ASSUME NEW v, VideoOK(v), "esi" \notin v.isr
  PROVE  /\ VideoOK(SignalPendingIsoEnd(v)) /\ "esi" \notin SignalPendingIsoEnd(v).isr
         /\ SignalPendingIsoEnd(v).isr \ v.isr \subseteq {"eii"}
  <1>1. CASE ~v.iso_end_pending
    BY <1>1 DEF SignalPendingIsoEnd
  <1>2. CASE v.iso_end_pending
    <2>1. v.isr \cup {"eii"} \in SUBSET FmvStatus
      BY DEF VideoOK, VideoType, FmvStatus
    <2>2. SignalPendingIsoEnd(v) \in VideoType
      BY <1>2, <2>1, ZenonT(60) DEF SignalPendingIsoEnd, VideoOK, VideoType
    <2>3. VideoFacts(SignalPendingIsoEnd(v)) /\ SignalPendingIsoEnd(v).isr = v.isr \cup {"eii"}
      BY <1>2 DEF SignalPendingIsoEnd, VideoOK, VideoType, VideoFacts
    <2> QED BY <2>2, <2>3 DEF VideoOK
  <1> QED BY <1>1, <1>2

\* The end of the program is told of, or postponed.
LEMMA SignalEndOK ==
  ASSUME NEW v, VideoOK(v)
  PROVE  /\ VideoOK(SignalVideoEnd(v))
         /\ SignalVideoEnd(v).isr \ v.isr \subseteq {"eii"}
         /\ "eii" \in SignalVideoEnd(v).isr \ v.isr => "esi" \notin SignalVideoEnd(v).isr
  <1> DEFINE w == [v EXCEPT !.iso_end_reported = TRUE, !.iso_end_pending = TRUE]
  <1>1. CASE v.iso_end_reported
    BY <1>1 DEF SignalVideoEnd
  <1>2. CASE ~v.iso_end_reported /\ (~v.sequence_end_seen \/ "esi" \notin v.isr)
    <2>1. v.isr \cup {"eii"} \in SUBSET FmvStatus /\ "esi" \notin v.isr
      BY <1>2 DEF VideoOK, VideoType, VideoFacts, FmvStatus
    <2>2. ~v.iso_end_pending
      BY <1>2 DEF VideoOK, VideoFacts
    <2>3. SignalVideoEnd(v) = [w EXCEPT !.iso_end_pending = FALSE, !.isr = @ \cup {"eii"}]
      BY <1>2 DEF SignalVideoEnd, SignalPendingIsoEnd, VideoOK, VideoType
    <2>4. SignalVideoEnd(v) \in VideoType
      BY <2>1, <2>3, ZenonT(60) DEF VideoOK, VideoType
    <2>5. VideoFacts(SignalVideoEnd(v)) /\ SignalVideoEnd(v).isr = v.isr \cup {"eii"}
      BY <2>3 DEF VideoOK, VideoType, VideoFacts
    <2> QED BY <2>1, <2>4, <2>5 DEF VideoOK
  <1>3. CASE ~v.iso_end_reported /\ v.sequence_end_seen /\ "esi" \in v.isr
    <2>1. SignalVideoEnd(v) = w
      BY <1>3 DEF SignalVideoEnd
    <2>2. w \in VideoType
      BY ZenonT(60) DEF VideoOK, VideoType
    <2>3. VideoFacts(w) /\ w.isr = v.isr
      BY <1>3 DEF VideoOK, VideoType, VideoFacts
    <2> QED BY <2>1, <2>2, <2>3 DEF VideoOK
  <1> QED BY <1>1, <1>2, <1>3

\* An owed underflow is raised.
LEMMA RaiseVideoOK ==
  ASSUME NEW v, VideoOK(v)
  PROVE  /\ VideoOK(RaiseVideoUnderflow(v))
         /\ RaiseVideoUnderflow(v).isr \in {v.isr, v.isr \cup {"ndat"}}
  <1>1. CASE ~OwesNdat(v)
    BY <1>1 DEF RaiseVideoUnderflow
  <1>2. CASE OwesNdat(v)
    <2>1. RaiseVideoUnderflow(v) = [v EXCEPT !.after_eoi = FALSE, !.isr = @ \cup {"ndat"}, !.reported = TRUE]
      BY <1>2 DEF RaiseVideoUnderflow
    <2>0. v.isr \cup {"ndat"} \in SUBSET FmvStatus
      BY DEF VideoOK, VideoType, FmvStatus
    <2>2. RaiseVideoUnderflow(v) \in VideoType
      BY <2>0, <2>1, ZenonT(60) DEF VideoOK, VideoType
    <2>3. VideoFacts(RaiseVideoUnderflow(v)) /\ RaiseVideoUnderflow(v).isr = v.isr \cup {"ndat"}
      BY <2>1 DEF VideoOK, VideoType, VideoFacts
    <2> QED BY <2>2, <2>3 DEF VideoOK
  <1> QED BY <1>1, <1>2

\* The end of a sequence is told of.
LEMMA SequenceEndOK ==
  ASSUME NEW v, VideoOK(v), NEW clock \in Deadline
  PROVE  VideoOK(SequenceEnd(v, clock)) /\ SequenceEnd(v, clock).isr = v.isr \cup {"esi"}
  <1>1. v.last_pts \in Deadline
    BY DEF VideoOK, VideoType
  <1>2. clock # None /\ v.last_pts # None => Until(clock, v.last_pts) \in Deadline
    BY <1>1, ClockTypes DEF Deadline
  <1>3. None \in Deadline
    BY DEF Deadline
  <1>4. SequenceEnd(v, clock) \in VideoType
    BY <1>2, <1>3 DEF SequenceEnd, VideoOK, VideoType, FmvStatus
  <1>5. VideoFacts(SequenceEnd(v, clock)) /\ SequenceEnd(v, clock).isr = v.isr \cup {"esi"}
    BY DEF SequenceEnd, VideoOK, VideoType, VideoFacts
  <1> QED BY <1>4, <1>5 DEF VideoOK

\* Decoded pictures are queued.
LEMMA QueueOK ==
  ASSUME NEW v, VideoOK(v), NEW units \in Seq(Unit)
  PROVE  VideoOK(QueuePictures(v, units)) /\ QueuePictures(v, units).isr = v.isr
  <1>1. PrimingDelay \in Deadline
    BY DvcAssumption DEF Deadline
  <1>2. v.frames \o units \in Seq(Unit)
    BY DEF VideoOK, VideoType
  <1>3. Decoded(v, units) \in VideoType
    BY <1>1, <1>2 DEF Decoded, VideoOK, VideoType
  <1>4. VideoFacts(Decoded(v, units)) /\ Decoded(v, units).isr = v.isr
    BY DEF Decoded, VideoOK, VideoType, VideoFacts
  <1> DEFINE w == Prime(Decoded(v, units))
  <1>8. QueuePictures(v, units) = [w EXCEPT !.reported = FALSE]
    BY DEF QueuePictures
  <1>5. VideoOK(w) /\ w.isr = v.isr
    BY <1>3, <1>4, PrimeOK DEF VideoOK
  <1> HIDE DEF w
  <1>6. [w EXCEPT !.reported = FALSE] \in VideoType
    BY <1>5 DEF VideoOK, VideoType
  <1>7. VideoFacts([w EXCEPT !.reported = FALSE]) /\ [w EXCEPT !.reported = FALSE].isr = v.isr
    BY <1>5 DEF VideoOK, VideoType, VideoFacts
  <1> QED BY <1>8, <1>6, <1>7 DEF VideoOK

-----------------------------------------------------------------------------
(* The commands of the video side *)

LEMMA DisableOK ==
  ASSUME NEW v, VideoOK(v)
  PROVE  VideoOK(Disable(v)) /\ Disable(v).isr = v.isr
  <1>1. Disable(v) \in VideoType
    BY ZenonT(60) DEF Disable, VideoOK, VideoType
  <1>2. VideoFacts(Disable(v)) /\ Disable(v).isr = v.isr
    BY DEF Disable, VideoOK, VideoType, VideoFacts
  <1> QED BY <1>1, <1>2 DEF VideoOK

\* An empty queue is one of units.
LEMMA EmptyQueues == <<>> \in Seq(Unit) /\ <<>> \in AtMostOne(Unit) /\ None \in Deadline
  BY DEF AtMostOne, Deadline

\* A reset of the video decoder's play.
LEMMA ResetVideoOK ==
  ASSUME NEW decoded \in BOOLEAN
  PROVE  VideoOK(ResetVideo(decoded))
  <1>1. ResetVideo(decoded) \in VideoType
    BY EmptyQueues, NothingIsChunk DEF ResetVideo, VideoType, Chunks
  <1>2. VideoFacts(ResetVideo(decoded))
    BY DEF ResetVideo, VideoFacts
  <1> QED BY <1>1, <1>2 DEF VideoOK

\* A reset of the video decoder.
LEMMA ResetDecoderOK ==
  ASSUME NEW v, VideoOK(v)
  PROVE  VideoOK(ResetDecoder(v)) /\ ResetDecoder(v).isr = {}
  <1> DEFINE w == ResetVideo(v.decoded)
  <1>1. v.decoded \in BOOLEAN
    BY DEF VideoOK, VideoType
  <1>2. VideoOK(w)
    BY <1>1, ResetVideoOK
  <1>3. w.isr = {} /\ w.frames = <<>> /\ w.pending = <<>> /\ w.current = <<>> /\ w.last_due = None
        /\ ~w.iso_end_pending
    BY DEF ResetVideo
  <1>4. ResetDecoder(v) = [w EXCEPT !.enabled = v.enabled, !.visible = v.visible, !.update = v.update,
                                    !.overdue = v.overdue, !.reported = v.reported]
    BY DEF ResetDecoder
  <1> HIDE DEF w
  <1>5. ResetDecoder(v) \in VideoType
    BY <1>2, <1>4, ZenonT(60) DEF VideoOK, VideoType
  <1>6. VideoFacts(ResetDecoder(v)) /\ ResetDecoder(v).isr = {}
    BY <1>2, <1>3, <1>4 DEF VideoOK, VideoType, VideoFacts
  <1> QED BY <1>5, <1>6 DEF VideoOK

\* The enable command.
LEMMA EnableOK ==
  ASSUME NEW v, VideoOK(v)
  PROVE  VideoOK(Enable(v)) /\ Enable(v).isr = v.isr
  BY DEF Enable, VideoOK, VideoType, VideoFacts

\* The play command arms.
LEMMA ArmOK ==
  ASSUME NEW v, VideoOK(v)
  PROVE  VideoOK(Arm(v)) /\ Arm(v).isr = v.isr
  BY EmptyQueues DEF Arm, VideoOK, VideoType, VideoFacts

\* The continue command.
LEMMA ContinueOK ==
  ASSUME NEW v, VideoOK(v)
  PROVE  VideoOK(Continue(v)) /\ Continue(v).isr = v.isr
  <1> DEFINE w == [v EXCEPT !.armed = FALSE, !.playing = TRUE, !.start = None]
  <1>1. VideoOK(w) /\ w.isr = v.isr
    <2>1. w \in VideoType
      BY EmptyQueues, ZenonT(60) DEF VideoOK, VideoType
    <2>2. VideoFacts(w) /\ w.isr = v.isr
      BY DEF VideoOK, VideoType, VideoFacts
    <2> QED BY <2>1, <2>2 DEF VideoOK
  <1>2. Continue(v) = Prime(w)
    BY DEF Continue
  <1> HIDE DEF w
  <1> QED BY <1>1, <1>2, PrimeOK

\* The pause command.
LEMMA PauseOK ==
  ASSUME NEW v, VideoOK(v)
  PROVE  VideoOK(Pause(v)) /\ Pause(v).isr = v.isr
  <1>1. PauseDelay \in Deadline
    BY DvcAssumption DEF Deadline
  <1>2. Pause(v) \in VideoType
    BY <1>1, EmptyQueues, ZenonT(60) DEF Pause, VideoOK, VideoType
  <1>3. VideoFacts(Pause(v)) /\ Pause(v).isr = v.isr
    BY DEF Pause, VideoOK, VideoType, VideoFacts
  <1> QED BY <1>2, <1>3 DEF VideoOK

\* The stop command.
LEMMA StopOK ==
  ASSUME NEW v, VideoOK(v)
  PROVE  VideoOK(Stop(v)) /\ Stop(v).isr = v.isr
  <1>1. Stop(v) \in VideoType
    BY EmptyQueues, ZenonT(60) DEF Stop, VideoOK, VideoType
  <1>2. VideoFacts(Stop(v)) /\ Stop(v).isr = v.isr
    BY DEF Stop, VideoOK, VideoType, VideoFacts
  <1> QED BY <1>1, <1>2 DEF VideoOK

-----------------------------------------------------------------------------
(* The clocks of the video side *)

LEMMA DeadlinesOK ==
  ASSUME NEW v, VideoOK(v), NEW edges
  PROVE  VideoOK(Deadlines(v, edges)) /\ Deadlines(v, edges).isr = v.isr
  <1>1. /\ CountDown(v.start) \in Deadline /\ CountDown(v.pause_irq) \in Deadline
        /\ CountDown(v.last_due) \in Deadline
        /\ CountDown(v.last_due) # None => v.last_due # None
    BY ClockTypes DEF VideoOK, VideoType
  <1>2. Deadlines(v, edges) \in VideoType
    <2>1. CASE "dclk" \notin edges
      BY <2>1 DEF Deadlines, VideoOK
    <2>2. CASE "dclk" \in edges
      BY <1>1, <2>2 DEF Deadlines, VideoOK, VideoType
    <2> QED BY <2>1, <2>2
  <1>3. VideoFacts(Deadlines(v, edges)) /\ Deadlines(v, edges).isr = v.isr
    BY <1>1 DEF Deadlines, VideoOK, VideoType, VideoFacts
  <1> QED BY <1>2, <1>3 DEF VideoOK

\* A due play starts.
LEMMA StartVideoOK ==
  ASSUME NEW v, VideoOK(v)
  PROVE  VideoOK(StartVideo(v)) /\ StartVideo(v).isr = v.isr
  <1> DEFINE w == [v EXCEPT !.start = None, !.armed = FALSE, !.playing = TRUE]
  <1>1. VideoOK(w) /\ w.isr = v.isr
    <2>1. w \in VideoType
      BY EmptyQueues, ZenonT(60) DEF VideoOK, VideoType
    <2>2. VideoFacts(w) /\ w.isr = v.isr
      BY DEF VideoOK, VideoType, VideoFacts
    <2> QED BY <2>1, <2>2 DEF VideoOK
  <1>2. StartVideo(v) = IF v.start = 0 THEN Prime(w) ELSE v
    BY DEF StartVideo
  <1> HIDE DEF w
  <1> QED BY <1>1, <1>2, PrimeOK

\* A pause takes effect.
LEMMA PauseDoneOK ==
  ASSUME NEW v, VideoOK(v)
  PROVE  /\ VideoOK(PauseDone(v))
         /\ PauseDone(v).isr \in {v.isr, v.isr \cup {"pause"}}
  <1>1. v.isr \cup {"pause"} \in SUBSET FmvStatus
    BY DEF VideoOK, VideoType, FmvStatus
  <1>2. PauseDone(v) \in VideoType
    <2>1. CASE v.pause_irq # 0
      BY <2>1 DEF PauseDone, VideoOK
    <2>2. CASE v.pause_irq = 0
      BY <1>1, <2>2, EmptyQueues DEF PauseDone, VideoOK, VideoType
    <2> QED BY <2>1, <2>2
  <1>3. VideoFacts(PauseDone(v)) /\ PauseDone(v).isr \in {v.isr, v.isr \cup {"pause"}}
    BY DEF PauseDone, VideoOK, VideoType, VideoFacts
  <1> QED BY <1>2, <1>3 DEF VideoOK

\* A scroll completes an update.
LEMMA ScrollUpdateOK ==
  ASSUME NEW v, VideoOK(v), NEW edges
  PROVE  /\ VideoOK(ScrollUpdate(v, edges))
         /\ ScrollUpdate(v, edges).isr \in {v.isr, v.isr \cup {"update"}}
  BY CompleteUpdateOK DEF ScrollUpdate

\* A picture is due by the cadence.
LEMMA CadenceOK ==
  ASSUME NEW v, VideoOK(v)
  PROVE  /\ VideoOK(Cadence(v))
         /\ Cadence(v).isr \in {v.isr, v.isr \cup {"ndat"}}
  <1>1. CASE v.pending # <<>> \/ LastPictureWaiting(v)
    BY <1>1 DEF Cadence, VideoOK, VideoType, VideoFacts
  <1>2. CASE ~(v.pending # <<>> \/ LastPictureWaiting(v)) /\ v.frames # <<>>
    <2>1. VideoOK(Present(v)) /\ Present(v).isr = v.isr
      BY PresentOK
    <2>2. Cadence(v) = [Present(v) EXCEPT !.overdue = FALSE, !.reported = FALSE]
      BY <1>2 DEF Cadence
    <2>3. Cadence(v) \in VideoType
      BY <2>1, <2>2, ZenonT(60) DEF VideoOK, VideoType
    <2>4. VideoFacts(Cadence(v)) /\ Cadence(v).isr = v.isr
      BY <2>1, <2>2 DEF VideoOK, VideoType, VideoFacts
    <2> QED BY <2>3, <2>4 DEF VideoOK
  <1>3. CASE ~(v.pending # <<>> \/ LastPictureWaiting(v)) /\ v.frames = <<>>
    <2>1. v.isr \cup {"ndat"} \in SUBSET FmvStatus
      BY DEF VideoOK, VideoType, FmvStatus
    <2>2. Cadence(v) \in VideoType
      BY <1>3, <2>1, ZenonT(60) DEF Cadence, VideoOK, VideoType
    <2>3. VideoFacts(Cadence(v)) /\ Cadence(v).isr \in {v.isr, v.isr \cup {"ndat"}}
      BY <1>3 DEF Cadence, VideoOK, VideoType, VideoFacts
    <2> QED BY <2>2, <2>3 DEF VideoOK
  <1> QED BY <1>1, <1>2, <1>3

\* VSYNC latches the staged picture.
LEMMA LatchOK ==
  ASSUME NEW v, VideoOK(v), v.pending # <<>>
  PROVE  VideoOK(Latch(v)) /\ Latch(v).isr \ v.isr \subseteq {"lpd", "update", "ndat"}
  <1> DEFINE shown == [v EXCEPT !.current = v.pending, !.pending = <<>>,
                                !.isr = IF v.pending[1].last THEN @ \cup {"lpd"} ELSE @,
                                !.last_due = IF v.pending[1].last THEN None ELSE @]
             updated == IF v.update = "picture" THEN CompleteUpdate(shown) ELSE shown
  <1>1. shown \in VideoType
    <2>1. v.isr \cup {"lpd"} \in SUBSET FmvStatus
      BY DEF VideoOK, VideoType, FmvStatus
    <2> QED BY <2>1, EmptyQueues DEF VideoOK, VideoType
  <1>2. VideoFacts(shown) /\ shown.isr \subseteq v.isr \cup {"lpd"} /\ shown.update = v.update
    BY DEF VideoOK, VideoType, VideoFacts
  <1>3. Latch(v) = RaiseVideoUnderflow(updated)
    BY DEF Latch
  <1> HIDE DEF shown
  <1>4. VideoOK(updated) /\ updated.isr \subseteq shown.isr \cup {"update"}
    BY <1>1, <1>2, CompleteUpdateOK DEF VideoOK
  <1> HIDE DEF updated
  <1> QED BY <1>2, <1>3, <1>4, RaiseVideoOK

\* A tick of the video side.
LEMMA TickVideoOK ==
  ASSUME NEW v, VideoOK(v), NEW edges
  PROVE  /\ VideoOK(TickVideo(v, edges))
         /\ TickVideo(v, edges).isr \ v.isr \subseteq {"pause", "update", "ndat"}
  <1> DEFINE started == StartVideo(Deadlines(v, edges))
             paused == PauseDone(started)
             scrolled == ScrollUpdate(paused, edges)
  <1>1. VideoOK(started) /\ started.isr = v.isr
    BY DeadlinesOK, StartVideoOK
  <1>2. TickVideo(v, edges) = IF scrolled.playing /\ (scrolled.overdue \/ "frame" \in edges)
                              THEN Cadence(scrolled) ELSE scrolled
    BY DEF TickVideo
  <1> HIDE DEF started
  <1>3. VideoOK(paused) /\ paused.isr \subseteq v.isr \cup {"pause"}
    BY <1>1, PauseDoneOK
  <1> HIDE DEF paused
  <1>4. VideoOK(scrolled) /\ scrolled.isr \subseteq v.isr \cup {"pause", "update"}
    BY <1>3, ScrollUpdateOK
  <1> HIDE DEF scrolled
  <1>5. VideoOK(Cadence(scrolled)) /\ Cadence(scrolled).isr \subseteq v.isr \cup {"pause", "update", "ndat"}
    BY <1>4, CadenceOK
  <1> QED BY <1>2, <1>4, <1>5

-----------------------------------------------------------------------------
(* Operators of the audio side *)

LEMMA ResetAudioOK ==
  ASSUME NEW decoded \in BOOLEAN
  PROVE  AudioOK(ResetAudio(decoded))
  <1>1. 0 \in 0..MaxOwed
    BY DvcAssumption
  <1>2. ResetAudio(decoded) \in AudioType
    BY <1>1, EmptyQueues, NothingIsChunk DEF ResetAudio, AudioType, Chunks
  <1>3. AudioFacts(ResetAudio(decoded))
    BY DEF ResetAudio, AudioFacts
  <1> QED BY <1>2, <1>3 DEF AudioOK

\* The audio stop command.
LEMMA StopAudioOK ==
  ASSUME NEW a, AudioOK(a)
  PROVE  AudioOK(StopAudio(a))
  <1>1. StopAudio(a) \in AudioType
    BY EmptyQueues, NothingIsChunk DEF StopAudio, AudioOK, AudioType, Chunks
  <1>2. AudioFacts(StopAudio(a))
    BY DEF StopAudio, AudioOK, AudioType, AudioFacts
  <1> QED BY <1>1, <1>2 DEF AudioOK

\* The end of the audio stream is told of.
LEMMA SignalAudioEndOK ==
  ASSUME NEW a, AudioOK(a)
  PROVE  AudioOK(SignalAudioEnd(a))
  <1>1. CASE a.iso_end_reported
    BY <1>1 DEF SignalAudioEnd
  <1>2. CASE ~a.iso_end_reported
    <2>1. a.isr \cup {"eoi"} \in SUBSET FmaStatus
      BY DEF AudioOK, AudioType, FmaStatus
    <2>2. SignalAudioEnd(a) \in AudioType
      BY <1>2, <2>1 DEF SignalAudioEnd, AudioOK, AudioType
    <2>3. AudioFacts(SignalAudioEnd(a))
      BY <1>2 DEF SignalAudioEnd, AudioOK, AudioType, AudioFacts
    <2> QED BY <2>2, <2>3 DEF AudioOK
  <1> QED BY <1>1, <1>2

\* An owed audio underflow is raised.
LEMMA RaiseAudioOK ==
  ASSUME NEW a, AudioOK(a)
  PROVE  AudioOK(RaiseAudioUnderflow(a))
  <1> DEFINE owed == a.enabled /\ a.pcm = <<>> /\ a.decoded /\ ~a.reported
  <1>1. CASE ~owed
    BY <1>1 DEF RaiseAudioUnderflow
  <1>2. CASE owed
    <2>1. a.isr \cup {"underflow"} \in SUBSET FmaStatus
      BY DEF AudioOK, AudioType, FmaStatus
    <2>2. RaiseAudioUnderflow(a) = [a EXCEPT !.after_eoi = FALSE, !.isr = @ \cup {"underflow"}, !.reported = TRUE]
      BY <1>2 DEF RaiseAudioUnderflow
    <2>3. RaiseAudioUnderflow(a) \in AudioType
      BY <2>1, <2>2 DEF AudioOK, AudioType
    <2>4. AudioFacts(RaiseAudioUnderflow(a))
      BY <2>2 DEF AudioOK, AudioType, AudioFacts
    <2> QED BY <2>3, <2>4 DEF AudioOK
  <1> QED BY <1>1, <1>2

(* A play that already started keeps its start. *)
LEMMA DecodeAudioOK ==
  ASSUME NEW a, AudioOK(a), NEW units \in Seq(Unit), NEW clock \in Deadline,
         a.armed /\ a.scr # None => clock # None
  PROVE  AudioOK(DecodeAudio(a, units, clock))
  <1>1. a.scr \in Deadline /\ a.first_pts \in Deadline /\ a.pcm \o units \in Seq(Unit)
    BY DEF AudioOK, AudioType
  <1> DEFINE start == IF a.armed /\ a.start = None /\ a.scr # None /\ a.first_pts # None
                      THEN Until(clock, a.first_pts) ELSE a.start
  <1>2. start \in Deadline /\ (a.start = 0 => start = 0)
    <2>1. CASE a.armed /\ a.start = None /\ a.scr # None /\ a.first_pts # None
      <3>1. Until(clock, a.first_pts) \in Times
        BY <1>1, <2>1, ClockTypes
      <3>2. start = Until(clock, a.first_pts) /\ a.start # 0
        BY <2>1 DEF None
      <3> HIDE DEF start
      <3> QED BY <3>1, <3>2 DEF Deadline
    <2>2. CASE ~(a.armed /\ a.start = None /\ a.scr # None /\ a.first_pts # None)
      BY <2>2 DEF AudioOK, AudioType
    <2> QED BY <2>1, <2>2
  <1>3. DecodeAudio(a, units, clock) =
          [a EXCEPT !.decoded = TRUE, !.pcm = @ \o units, !.reported = FALSE, !.start = start]
    BY DEF DecodeAudio
  <1> HIDE DEF start
  <1>4. DecodeAudio(a, units, clock) \in AudioType
    BY <1>1, <1>2, <1>3 DEF AudioOK, AudioType
  <1>5. AudioFacts(DecodeAudio(a, units, clock))
    BY <1>2, <1>3 DEF AudioOK, AudioType, AudioFacts
  <1> QED BY <1>4, <1>5 DEF AudioOK

\* Due audio starts.
LEMMA StartAudioOK ==
  ASSUME NEW a, AudioOK(a), NEW edges
  PROVE  AudioOK(StartAudio(a, edges))
  <1> DEFINE b == IF "dclk" \in edges THEN [a EXCEPT !.start = CountDown(@)] ELSE a
  <1>1. CountDown(a.start) \in Deadline /\ (a.start = 0 => CountDown(a.start) = 0)
    BY ClockTypes DEF AudioOK, AudioType
  <1>2. AudioOK(b)
    BY <1>1 DEF AudioOK, AudioType, AudioFacts
  <1>3. StartAudio(a, edges) = IF b.armed /\ ~b.enabled /\ b.start = 0 THEN [b EXCEPT !.enabled = TRUE] ELSE b
    BY DEF StartAudio
  <1> HIDE DEF b
  <1>4. CASE b.armed /\ ~b.enabled /\ b.start = 0
    <2>1. StartAudio(a, edges) \in AudioType
      BY <1>2, <1>3, <1>4, ZenonT(60) DEF AudioOK, AudioType
    <2>2. AudioFacts(StartAudio(a, edges))
      BY <1>2, <1>3, <1>4 DEF AudioOK, AudioType, AudioFacts
    <2> QED BY <2>1, <2>2 DEF AudioOK
  <1> QED BY <1>2, <1>3, <1>4

\* Samples are played.
LEMMA DrainOK ==
  ASSUME NEW a, AudioOK(a), NEW edges
  PROVE  AudioOK(Drain(a, edges))
  <1> DEFINE owed == IF "sample" \in edges /\ a.owed < MaxOwed THEN a.owed + 1 ELSE a.owed
             played == IF owed <= Len(a.pcm) THEN owed ELSE Len(a.pcm)
  <1>1. a.pcm \in Seq(Unit) /\ a.owed \in 0..MaxOwed
    BY DEF AudioOK, AudioType
  <1>2. owed \in 0..MaxOwed
    BY <1>1, DvcAssumption
  <1>3. played \in 0..Len(a.pcm) /\ owed - played \in 0..MaxOwed
    <2>1. Len(a.pcm) \in Nat
      BY <1>1
    <2> HIDE DEF owed
    <2> QED BY <1>2, <2>1, DvcAssumption
  <1> HIDE DEF owed, played
  <1>4. SubSeq(a.pcm, played + 1, Len(a.pcm)) \in Seq(Unit)
    BY <1>1, <1>3
  <1>5. a.pcm = <<>> => SubSeq(a.pcm, played + 1, Len(a.pcm)) = <<>>
    <2>1. a.pcm = <<>> => played + 1 = 1 /\ Len(a.pcm) = 0
      BY <1>1, <1>3
    <2>2. \A i, n : i = 1 /\ n = 0 => SubSeq(a.pcm, i, n) = <<>>
      BY <1>1
    <2> QED BY <2>1, <2>2
  <1>6. Drain(a, edges) = [a EXCEPT !.owed = owed - played, !.pcm = SubSeq(a.pcm, played + 1, Len(a.pcm))]
    BY DEF Drain, owed, played
  <1>7. Drain(a, edges) \in AudioType
    BY <1>3, <1>4, <1>6 DEF AudioOK, AudioType
  <1> DEFINE rest == SubSeq(a.pcm, played + 1, Len(a.pcm))
  <1>8. AudioFacts(Drain(a, edges))
    <2>1. Drain(a, edges) = [a EXCEPT !.owed = owed - played, !.pcm = rest]
      BY <1>6
    <2>2. a.pcm = <<>> => rest = <<>>
      BY <1>5
    <2> HIDE DEF rest
    <2> QED BY <2>1, <2>2 DEF AudioOK, AudioType, AudioFacts
  <1> QED BY <1>7, <1>8 DEF AudioOK

\* A tick of the audio side.
LEMMA TickAudioOK ==
  ASSUME NEW a, AudioOK(a), NEW edges
  PROVE  AudioOK(TickAudio(a, edges))
  BY StartAudioOK, DrainOK, RaiseAudioOK DEF TickAudio

-----------------------------------------------------------------------------
(* The actions.  SafeStep is what a step of the video side may do: keep the *)
(* record's facts, and report the end of the program only separately.       *)

SafeStep(v, w) ==
    VideoOK(w) /\ ("eii" \notin v.isr /\ "eii" \in w.isr => "esi" \notin w.isr)

Rest == TypeOK /\ VideoOK(video) /\ AudioOK(audio)

\* The invariant is that of the parts.
LEMMA InvIsRest == DvcInv <=> Rest
  BY DEF DvcInv, Rest, TypeOK, VideoOK, AudioOK

\* What the DMA submits is a chunk of the play.
LEMMA SubmittedType ==
  ASSUME NEW chunk \in ChunkOf(TitleUnit), NEW p \in Plays
  PROVE  Submitted(chunk, p) \in Chunks
  <1> DEFINE units == [i \in DOMAIN chunk.units |->
                         [play |-> p, no |-> chunk.units[i].no, last |-> chunk.units[i].last]]
  <1>1. chunk.units \in Seq(TitleUnit)
    BY DEF ChunkOf
  <1>2. DOMAIN chunk.units = 1..Len(chunk.units) /\ Len(chunk.units) \in Nat
    BY <1>1
  <1>3. \A i \in DOMAIN chunk.units : chunk.units[i] \in TitleUnit
    BY <1>1
  <1>4. \A i \in 1..Len(chunk.units) :
           [play |-> p, no |-> chunk.units[i].no, last |-> chunk.units[i].last] \in Unit
    BY <1>2, <1>3 DEF TitleUnit, Unit
  <1>5. units \in Seq(Unit)
    BY <1>2, <1>4
  <1>6. Submitted(chunk, p) = [chunk EXCEPT !.units = units]
    BY DEF Submitted
  <1> HIDE DEF units
  <1> QED BY <1>5, <1>6 DEF Chunks, ChunkOf

\* The next sector of the title is a chunk.
LEMMA NextSectorType ==
  ASSUME TypeOK, NEW stream \in {"video", "audio"}, fed[stream] < Len(title[stream])
  PROVE  NextSector(stream) \in Chunks
  <1>1. title[stream] \in Seq(ChunkOf(TitleUnit))
    BY DvcAssumption DEF TypeOK
  <1>2. fed[stream] \in Nat /\ play[stream] \in Plays
    BY DEF TypeOK
  <1>3. fed[stream] + 1 \in 1..Len(title[stream])
    BY <1>1, <1>2
  <1>4. title[stream][fed[stream] + 1] \in ChunkOf(TitleUnit)
    BY <1>1, <1>3
  <1> QED BY <1>2, <1>4, SubmittedType DEF NextSector

\* A sector is pushed into the video demultiplexer.
LEMMA PushVideoStep ==
  ASSUME Rest, PushVideo
  PROVE  Rest' /\ SafeStep(video, video') /\ stc' = stc
  <1>1. NextSector("video") \in Chunks /\ video.input \in Chunks
    BY NextSectorType DEF Rest, PushVideo, TypeOK, VideoType, Chunks
  <1>2. Join(video.input, NextSector("video")) \in ChunkOf(Unit)
    BY <1>1, JoinType DEF Chunks
  <1>3. video' = [video EXCEPT !.input = Join(video.input, NextSector("video"))]
    BY DEF PushVideo
  <1>4. video' \in VideoType
    BY <1>2, <1>3 DEF Rest, VideoOK, VideoType
  <1>5. VideoFacts(video') /\ video'.isr = video.isr
    BY <1>3 DEF Rest, VideoOK, VideoType, VideoFacts
  <1>6. SafeStep(video, video')
    BY <1>4, <1>5 DEF SafeStep, VideoOK
  <1>7. fed' \in [video : Nat, audio : Nat]
    BY DEF PushVideo, Rest, TypeOK
  <1> QED BY <1>4, <1>5, <1>6, <1>7 DEF PushVideo, Rest, TypeOK, VideoOK

\* A sector is pushed into the audio demultiplexer.
LEMMA PushAudioStep ==
  ASSUME Rest, PushDma, dma_target = "audio"
  PROVE  Rest' /\ SafeStep(video, video') /\ stc' = stc
  <1>1. NextSector("audio") \in Chunks /\ audio.input \in Chunks
    BY NextSectorType DEF Rest, PushDma, TypeOK, AudioType, Chunks
  <1>2. Join(audio.input, NextSector("audio")) \in ChunkOf(Unit)
    BY <1>1, JoinType DEF Chunks
  <1>3. audio' = [audio EXCEPT !.input = Join(audio.input, NextSector("audio"))] /\ video' = video
    BY DEF PushDma
  <1>4. audio' \in AudioType
    BY <1>2, <1>3 DEF Rest, AudioOK, AudioType
  <1>5. AudioFacts(audio')
    BY <1>3 DEF Rest, AudioOK, AudioType, AudioFacts
  <1>6. fed' \in [video : Nat, audio : Nat]
    BY DEF PushDma, Rest, TypeOK
  <1> QED BY <1>3, <1>4, <1>5, <1>6 DEF PushDma, Rest, TypeOK, AudioOK, SafeStep

\* A DMA to the video decoder completes.
LEMMA FinishVideoStep ==
  ASSUME Rest, NEW torn \in BOOLEAN, FinishVideo(torn)
  PROVE  SafeStep(video, video') /\ audio' = audio /\ stc' \in Deadline /\ (stc # None => stc' = stc)
  <1> DEFINE p == Parsed(video, torn)
             demuxed == Feed(video, torn)
             clock == IF demuxed.armed /\ demuxed.scr # None THEN Anchored(stc, demuxed.scr) ELSE stc
             scheduled == ScheduleStart(demuxed, clock)
             ended == IF p.sequence_end THEN SequenceEnd(scheduled, clock) ELSE scheduled
             closed == IF p.program_end THEN SignalVideoEnd(ended) ELSE ended
  <1>1. /\ video' = IF p.units = <<>> THEN closed ELSE QueuePictures(closed, p.units)
        /\ stc' = clock /\ audio' = audio
    BY DEF FinishVideo
  <1>2. p \in Chunks
    BY ParsedType DEF Rest, VideoOK, VideoType, Chunks
  <1>3. p.units \in Seq(Unit)
    BY <1>2 DEF Chunks, ChunkOf
  <1>4. VideoOK(demuxed) /\ demuxed.isr = video.isr
    BY FeedVideo DEF Rest
  <1> HIDE DEF p, demuxed
  <1>5. clock \in Deadline /\ (stc # None => clock = stc)
    <2>1. demuxed.scr \in Deadline /\ stc \in Deadline
      BY <1>4 DEF VideoOK, VideoType, Rest, TypeOK
    <2> QED BY <2>1, ClockTypes DEF Anchored
  <1> HIDE DEF clock
  <1>6. VideoOK(scheduled) /\ scheduled.isr = video.isr
    BY <1>4, <1>5, ScheduleOK
  <1> HIDE DEF scheduled
  <1>7. VideoOK(ended) /\ ended.isr \in {video.isr, video.isr \cup {"esi"}}
    BY <1>5, <1>6, SequenceEndOK
  <1> HIDE DEF ended
  <1>8. VideoOK(closed) /\ ("eii" \notin video.isr /\ "eii" \in closed.isr => "esi" \notin closed.isr)
    BY <1>7, SignalEndOK
  <1> HIDE DEF closed
  <1>9. VideoOK(QueuePictures(closed, p.units)) /\ QueuePictures(closed, p.units).isr = closed.isr
    BY <1>3, <1>8, QueueOK
  <1> QED BY <1>1, <1>5, <1>8, <1>9 DEF SafeStep

\* A DMA to the audio decoder completes.
LEMMA FinishAudioStep ==
  ASSUME Rest, NEW torn \in BOOLEAN, FinishAudio(torn)
  PROVE  AudioOK(audio') /\ video' = video /\ stc' \in Deadline /\ (stc # None => stc' = stc)
  <1> DEFINE p == Parsed(audio, torn)
             demuxed == Feed(audio, torn)
             clock == IF demuxed.armed /\ demuxed.scr # None THEN Anchored(stc, demuxed.scr) ELSE stc
             closed == IF p.program_end THEN SignalAudioEnd(demuxed) ELSE demuxed
  <1>1. /\ audio' = IF p.units = <<>> THEN closed ELSE DecodeAudio(closed, p.units, clock)
        /\ stc' = clock /\ video' = video
    BY DEF FinishAudio
  <1>2. p \in Chunks
    BY ParsedType DEF Rest, AudioOK, AudioType, Chunks
  <1>3. p.units \in Seq(Unit)
    BY <1>2 DEF Chunks, ChunkOf
  <1>4. AudioOK(demuxed)
    BY FeedAudio DEF Rest
  <1> HIDE DEF p, demuxed
  <1>5. /\ clock \in Deadline /\ (stc # None => clock = stc)
        /\ demuxed.armed /\ demuxed.scr # None => clock # None
    <2>1. demuxed.scr \in Deadline /\ stc \in Deadline
      BY <1>4 DEF AudioOK, AudioType, Rest, TypeOK
    <2> QED BY <2>1, ClockTypes DEF Anchored
  <1> HIDE DEF clock
  <1>6. AudioOK(closed) /\ closed.armed = demuxed.armed /\ closed.scr = demuxed.scr
    BY <1>4, SignalAudioEndOK DEF SignalAudioEnd, AudioOK, AudioType
  <1> HIDE DEF closed
  <1>7. AudioOK(DecodeAudio(closed, p.units, clock))
    BY <1>3, <1>5, <1>6, DecodeAudioOK
  <1> QED BY <1>1, <1>5, <1>6, <1>7

(* What a step does to the parts of the timeline property. *)
Timeline ==
  stc # None => \/ stc' \in {stc, CountUp(stc)}
                \/ stc' = None /\ ~VideoRuns(video') /\ ~AudioRuns(audio')
                \/ ~AudioRuns(audio) /\ AbortsVideo
                \/ ~VideoRuns(video) /\ AbortsAudio

\* A DMA completes.
LEMMA FinishStep ==
  ASSUME Rest, FinishDma
  PROVE  Rest' /\ SafeStep(video, video') /\ Timeline
  <1>1. SafeStep(video, video') /\ AudioOK(audio') /\ stc' \in Deadline /\ (stc # None => stc' = stc)
    <2>1. PICK torn \in BOOLEAN : FinishVideo(torn) \/ FinishAudio(torn)
      BY DEF FinishDma
    <2>2. CASE FinishVideo(torn)
      BY <2>2, FinishVideoStep DEF Rest
    <2>3. CASE FinishAudio(torn)
      BY <2>3, FinishAudioStep DEF Rest, SafeStep
    <2> QED BY <2>1, <2>2, <2>3
  <1>2. dma_target' = "none" /\ UNCHANGED <<title, fed, play>>
    BY DEF FinishDma
  <1> QED BY <1>1, <1>2 DEF Rest, TypeOK, VideoOK, AudioOK, SafeStep, Timeline

\* The clock is released or kept.
LEMMA ReleasedType ==
  ASSUME NEW clock \in Deadline, NEW v, NEW a
  PROVE  /\ Released(clock, v, a) \in Deadline
         /\ AudioRuns(a) \/ VideoRuns(v) => Released(clock, v, a) = clock
         /\ Released(clock, v, a) \in {clock, None}
  BY EmptyQueues DEF Released, AudioRuns, VideoRuns

(* A word without an abort leaves the clock, or stops both decoders; a word *)
(* with one leaves it unless the audio side is idle.                        *)
LEMMA SystemStep ==
  ASSUME Rest, NEW c \in SUBSET SystemCommands, SystemCommand(c)
  PROVE  Rest' /\ SafeStep(video, video') /\ Timeline
  <1> DEFINE disabled == IF "disable" \in c THEN Disable(video) ELSE video
             cleared == IF "reset" \in c THEN ResetDecoder(disabled) ELSE disabled
             idle == IF c \cap {"disable", "reset"} # {} THEN Released(stc, cleared, audio) ELSE stc
             enabled == IF "enable" \in c THEN Enable(cleared) ELSE cleared
             armed == IF "play" \in c THEN Arm(enabled) ELSE enabled
             clock == IF "play" \in c THEN ScheduleClock(armed, idle) ELSE idle
             scheduled == IF "play" \in c THEN ScheduleStart(armed, idle) ELSE armed
             continued == IF "continue" \in c THEN Continue(scheduled) ELSE scheduled
             paused == IF "pause" \in c THEN Pause(continued) ELSE continued
             stopped == IF "stop" \in c THEN Stop(paused) ELSE paused
  <1>1. /\ video' = stopped
        /\ stc' = IF "stop" \in c THEN Released(clock, stopped, audio) ELSE clock
        /\ dma_target' = IF "dma" \in c THEN "video" ELSE dma_target
        /\ fed' = IF "reset" \in c THEN [fed EXCEPT !.video = 0] ELSE fed
        /\ play' = IF "reset" \in c THEN [play EXCEPT !.video = 1 - @] ELSE play
        /\ UNCHANGED <<audio, title>>
    BY DEF SystemCommand
  <1>2. VideoOK(disabled) /\ disabled.isr = video.isr
    BY DisableOK DEF Rest
  <1> HIDE DEF disabled
  <1>3. VideoOK(cleared) /\ cleared.isr \in {video.isr, {}}
    BY <1>2, ResetDecoderOK
  <1> HIDE DEF cleared
  <1>4. VideoOK(enabled) /\ enabled.isr = cleared.isr
    BY <1>3, EnableOK
  <1> HIDE DEF enabled
  <1>5. VideoOK(armed) /\ armed.isr = cleared.isr
    BY <1>4, ArmOK
  <1> HIDE DEF armed
  <1>6. idle \in Deadline /\ (stc # None => \/ idle = stc
                                            \/ ~AudioRuns(audio) /\ c \cap {"disable", "reset"} # {})
    BY <1>3, ReleasedType DEF Rest, TypeOK
  <1> HIDE DEF idle
  <1>7. VideoOK(scheduled) /\ scheduled.isr = cleared.isr
    BY <1>5, <1>6, ScheduleOK
  <1>8. clock \in Deadline /\ (idle # None => clock = idle)
    BY <1>5, <1>6, ScheduleOK
  <1> HIDE DEF scheduled, clock
  <1>9. VideoOK(continued) /\ continued.isr = cleared.isr
    BY <1>7, ContinueOK
  <1> HIDE DEF continued
  <1>10. VideoOK(paused) /\ paused.isr = cleared.isr
    BY <1>9, PauseOK
  <1> HIDE DEF paused
  <1>11. VideoOK(stopped) /\ stopped.isr = cleared.isr
    BY <1>10, StopOK
  <1>12. "stop" \in c => ~VideoRuns(stopped)
    BY <1>10 DEF Stop, VideoOK, VideoType, VideoRuns
  <1> HIDE DEF stopped
  <1>13. SafeStep(video, video')
    BY <1>1, <1>3, <1>11 DEF SafeStep
  <1>14. stc' \in Deadline
    BY <1>1, <1>8, ReleasedType
  <1>15. Timeline
    <2>1. CASE stc # None /\ idle = stc
      <3>1. stc' \in {stc, None} /\ (AudioRuns(audio) => stc' = stc)
        BY <1>1, <1>8, <2>1, ReleasedType
      <3>2. stc' = stc \/ "stop" \in c
        BY <1>1, <1>8, <2>1
      <3> QED BY <1>1, <1>12, <3>1, <3>2 DEF Timeline
    <2>2. CASE stc # None /\ idle # stc
      BY <1>6, <2>2 DEF Timeline, AbortsVideo
    <2>3. CASE stc = None
      BY <2>3 DEF Timeline
    <2> QED BY <2>1, <2>2, <2>3
  <1>16. fed' \in [video : Nat, audio : Nat] /\ play' \in [video : Plays, audio : Plays]
    BY <1>1 DEF Rest, TypeOK, Plays
  <1>17. dma_target' \in {"none", "video", "audio"} /\ title' \in Titles
    BY <1>1 DEF Rest, TypeOK
  <1> QED BY <1>1, <1>13, <1>14, <1>15, <1>16, <1>17 DEF Rest, TypeOK, SafeStep, VideoOK, AudioOK

\* Each video command.
LEMMA VideoCommandStep ==
  ASSUME Rest, NEW c \in SUBSET VideoCommands, VideoCommand(c)
  PROVE  Rest' /\ SafeStep(video, video') /\ stc' = stc
  <1> DEFINE updated == IF "update" \notin c THEN video
                        ELSE [video EXCEPT !.update = IF "scroll" \in c THEN "scroll" ELSE "picture"]
             hidden == IF "hide" \in c THEN [updated EXCEPT !.visible = FALSE] ELSE updated
             shown == [hidden EXCEPT !.visible = TRUE]
  <1>1. /\ video' = IF "show" \in c THEN Prime(shown) ELSE hidden
        /\ UNCHANGED <<audio, stc, dma_target, title, fed, play>>
    BY DEF VideoCommand
  <1>2. VideoOK(updated) /\ updated.isr = video.isr
    <2>1. CASE "update" \notin c
      BY <2>1 DEF Rest
    <2>2. CASE "update" \in c
      <3>1. updated \in VideoType
        BY <2>2 DEF Rest, VideoOK, VideoType
      <3>2. VideoFacts(updated) /\ updated.isr = video.isr
        BY <2>2 DEF Rest, VideoOK, VideoType, VideoFacts
      <3> QED BY <3>1, <3>2 DEF VideoOK
    <2> QED BY <2>1, <2>2
  <1> HIDE DEF updated
  <1>3. VideoOK(hidden) /\ hidden.isr = video.isr
    <2>1. hidden \in VideoType
      <3>1. CASE "hide" \notin c
        BY <1>2, <3>1 DEF VideoOK
      <3>2. CASE "hide" \in c
        <4>1. hidden = [updated EXCEPT !.visible = FALSE]
          BY <3>2
        <4> HIDE DEF hidden
        <4> QED BY <1>2, <4>1, ZenonT(60) DEF VideoOK, VideoType
      <3> QED BY <3>1, <3>2
    <2>2. VideoFacts(hidden) /\ hidden.isr = video.isr
      BY <1>2 DEF VideoOK, VideoType, VideoFacts
    <2> QED BY <2>1, <2>2 DEF VideoOK
  <1> HIDE DEF hidden
  <1>4. VideoOK(shown) /\ shown.isr = video.isr
    <2>1. shown \in VideoType
      BY <1>3, ZenonT(60) DEF VideoOK, VideoType
    <2>2. VideoFacts(shown) /\ shown.isr = video.isr
      BY <1>3 DEF VideoOK, VideoType, VideoFacts
    <2> QED BY <2>1, <2>2 DEF VideoOK
  <1> HIDE DEF shown
  <1>5. VideoOK(video') /\ video'.isr = video.isr
    BY <1>1, <1>3, <1>4, PrimeOK
  <1> QED BY <1>1, <1>5 DEF Rest, TypeOK, SafeStep, VideoOK, AudioOK

\* Each audio command.
LEMMA AudioCommandStep ==
  ASSUME Rest, NEW c \in SUBSET AudioCommands, AudioCommand(c)
  PROVE  Rest' /\ SafeStep(video, video') /\ Timeline
  <1> DEFINE stopped == IF "stop" \in c THEN StopAudio(audio) ELSE audio
             armed == IF "play" \in c THEN [stopped EXCEPT !.armed = TRUE] ELSE stopped
  <1>1. /\ audio' = IF "dma" \in c THEN [armed EXCEPT !.reported = FALSE] ELSE armed
        /\ stc' = IF "stop" \in c THEN Released(stc, video, stopped) ELSE stc
        /\ dma_target' = IF "dma" \in c THEN "audio" ELSE dma_target
        /\ fed' = IF "stop" \in c THEN [fed EXCEPT !.audio = 0] ELSE fed
        /\ play' = IF "stop" \in c THEN [play EXCEPT !.audio = 1 - @] ELSE play
        /\ UNCHANGED <<video, title>>
    BY DEF AudioCommand
  <1>2. AudioOK(stopped)
    BY StopAudioOK DEF Rest
  <1> HIDE DEF stopped
  <1>3. AudioOK(armed)
    BY <1>2 DEF AudioOK, AudioType, AudioFacts
  <1> HIDE DEF armed
  <1>4. AudioOK(audio')
    BY <1>1, <1>3 DEF AudioOK, AudioType, AudioFacts
  <1>5. stc' \in Deadline
    BY <1>1, ReleasedType DEF Rest, TypeOK
  <1>6. Timeline
    <2>1. stc' \in {stc, None} /\ ("stop" \notin c \/ VideoRuns(video) => stc' = stc)
      BY <1>1, ReleasedType DEF Rest, TypeOK
    <2> QED BY <2>1 DEF Timeline, AbortsAudio
  <1>7. fed' \in [video : Nat, audio : Nat] /\ play' \in [video : Plays, audio : Plays]
    BY <1>1 DEF Rest, TypeOK, Plays
  <1>8. dma_target' \in {"none", "video", "audio"} /\ title' \in Titles
    BY <1>1 DEF Rest, TypeOK
  <1> QED BY <1>1, <1>4, <1>5, <1>6, <1>7, <1>8 DEF Rest, TypeOK, SafeStep, VideoOK, AudioOK

\* The video status is read.
LEMMA AcknowledgeFmvStep ==
  ASSUME Rest, NEW bits, AcknowledgeFmv(bits)
  PROVE  Rest' /\ SafeStep(video, video') /\ stc' = stc
  <1> DEFINE v == [video EXCEPT !.isr = {}]
             w == [v EXCEPT !.after_eoi = TRUE]
  <1>1. /\ video' = IF "esi" \in bits /\ v.iso_end_pending THEN SignalPendingIsoEnd(v)
                    ELSE IF "eii" \in bits THEN RaiseVideoUnderflow(w) ELSE v
        /\ UNCHANGED <<audio, stc, dma_target, title, fed, play>>
    BY DEF AcknowledgeFmv
  <1>2. VideoOK(v) /\ v.isr = {}
    BY DEF Rest, VideoOK, VideoType, VideoFacts
  <1> HIDE DEF v
  <1>3. VideoOK(w) /\ w.isr = {}
    BY <1>2 DEF VideoOK, VideoType, VideoFacts
  <1> HIDE DEF w
  <1>4. VideoOK(video') /\ "esi" \notin video'.isr
    BY <1>1, <1>2, <1>3, SignalPendingOK, RaiseVideoOK
  <1> QED BY <1>1, <1>4 DEF Rest, TypeOK, SafeStep, VideoOK, AudioOK

\* The audio status is read.
LEMMA AcknowledgeFmaStep ==
  ASSUME Rest, NEW bits, AcknowledgeFma(bits)
  PROVE  Rest' /\ SafeStep(video, video') /\ stc' = stc
  <1> DEFINE a == [audio EXCEPT !.isr = {}]
             b == [a EXCEPT !.after_eoi = TRUE, !.reported = FALSE]
  <1>1. /\ audio' = IF "eoi" \in bits /\ a.iso_end_reported THEN RaiseAudioUnderflow(b) ELSE a
        /\ UNCHANGED <<video, stc, dma_target, title, fed, play>>
    BY DEF AcknowledgeFma
  <1>2. AudioOK(a)
    BY DEF Rest, AudioOK, AudioType, AudioFacts
  <1> HIDE DEF a
  <1>3. a.iso_end_reported => AudioOK(b)
    BY <1>2 DEF AudioOK, AudioType, AudioFacts
  <1> HIDE DEF b
  <1>4. AudioOK(audio')
    BY <1>1, <1>2, <1>3, RaiseAudioOK
  <1> QED BY <1>1, <1>4 DEF Rest, TypeOK, SafeStep, VideoOK, AudioOK

\* A tick of both decoders.
LEMMA TickStep ==
  ASSUME Rest, NEW edges, Tick(edges)
  PROVE  Rest' /\ SafeStep(video, video') /\ stc' \in {stc, CountUp(stc)}
  <1>1. VideoOK(video') /\ video'.isr \ video.isr \subseteq {"pause", "update", "ndat"}
    BY TickVideoOK DEF Tick, Rest
  <1>2. AudioOK(audio')
    BY TickAudioOK DEF Tick, Rest
  <1>3. stc' \in {stc, CountUp(stc)} /\ stc' \in Deadline
    BY ClockTypes DEF Tick, Rest, TypeOK
  <1>4. SafeStep(video, video')
    BY <1>1 DEF SafeStep
  <1> QED BY <1>1, <1>2, <1>3, <1>4 DEF Tick, Rest, TypeOK, VideoOK, AudioOK

\* VSYNC.
LEMMA VsyncStep ==
  ASSUME Rest, NotifyVsync
  PROVE  Rest' /\ SafeStep(video, video') /\ stc' = stc
  <1>1. VideoOK(video') /\ video'.isr \ video.isr \subseteq {"lpd", "update", "ndat"}
    BY LatchOK DEF NotifyVsync, Rest
  <1>2. SafeStep(video, video')
    BY <1>1 DEF SafeStep
  <1> QED BY <1>1, <1>2 DEF NotifyVsync, Rest, TypeOK, VideoOK, AudioOK

\* A reset of the cartridge.
LEMMA ResetStep ==
  ASSUME Rest, NEW power \in BOOLEAN, Reset(power)
  PROVE  Rest' /\ SafeStep(video, video') /\ Timeline
  <1>1. VideoOK(video') /\ video'.isr = {} /\ ~VideoRuns(video')
    <2>1. (video.decoded /\ ~power) \in BOOLEAN
      OBVIOUS
    <2> QED BY <2>1, ResetVideoOK DEF Reset, ResetVideo, VideoRuns
  <1>2. AudioOK(audio') /\ ~AudioRuns(audio')
    <2>1. (audio.decoded /\ ~power) \in BOOLEAN
      OBVIOUS
    <2> QED BY <2>1, ResetAudioOK DEF Reset, ResetAudio, AudioRuns
  <1>3. stc' = None /\ stc' \in Deadline /\ title' = title /\ dma_target' = "none"
    BY EmptyQueues DEF Reset
  <1>4. fed' \in [video : Nat, audio : Nat] /\ play' \in [video : Plays, audio : Plays]
    BY DEF Reset, Rest, TypeOK, Plays
  <1> QED BY <1>1, <1>2, <1>3, <1>4 DEF Rest, TypeOK, SafeStep, VideoOK, AudioOK, Timeline

-----------------------------------------------------------------------------
(* The theorems *)

LEMMA InitRest == Init => Rest
  <1> SUFFICES ASSUME Init PROVE Rest
    OBVIOUS
  <1>1. VideoOK(video) /\ AudioOK(audio)
    BY ResetVideoOK, ResetAudioOK DEF Init
  <1> QED BY <1>1, EmptyQueues DEF Init, Rest, TypeOK, VideoOK, AudioOK, Plays

\* Every step keeps the invariant.
LEMMA NextStep ==
  ASSUME Rest, [Next]_vars
  PROVE  Rest' /\ SafeStep(video, video') /\ Timeline
  <1>1. CASE UNCHANGED vars
    BY <1>1 DEF vars, Rest, TypeOK, VideoOK, AudioOK, SafeStep, Timeline
  <1>2. CASE stc' \in {stc, CountUp(stc)} /\ Rest' /\ SafeStep(video, video')
    BY <1>2 DEF Timeline
  <1>3. CASE PushDma
    BY <1>2, <1>3, PushVideoStep, PushAudioStep DEF PushDma
  <1>4. CASE WriteTransferPort
    BY <1>2, <1>4, PushVideoStep DEF WriteTransferPort
  <1>5. CASE FinishDma
    BY <1>5, FinishStep
  <1>6. CASE \E c \in SUBSET SystemCommands : SystemCommand(c)
    BY <1>6, SystemStep
  <1>7. CASE \E c \in SUBSET VideoCommands : VideoCommand(c)
    BY <1>2, <1>7, VideoCommandStep
  <1>8. CASE \E c \in SUBSET AudioCommands : AudioCommand(c)
    BY <1>8, AudioCommandStep
  <1>9. CASE ReadFmvIsr \/ \E bits \in SUBSET FmvStatus : WriteFmvIsr(bits)
    BY <1>2, <1>9, AcknowledgeFmvStep DEF ReadFmvIsr, WriteFmvIsr
  <1>10. CASE ReadFmaIsr \/ \E bits \in SUBSET FmaStatus : WriteFmaIsr(bits)
    BY <1>2, <1>10, AcknowledgeFmaStep DEF ReadFmaIsr, WriteFmaIsr
  <1>11. CASE \E edges \in SUBSET Edges : Tick(edges)
    BY <1>2, <1>11, TickStep
  <1>12. CASE NotifyVsync
    BY <1>2, <1>12, VsyncStep
  <1>13. CASE \E power \in BOOLEAN : Reset(power)
    BY <1>13, ResetStep
  <1> QED BY <1>1, <1>3, <1>4, <1>5, <1>6, <1>7, <1>8, <1>9, <1>10, <1>11, <1>12, <1>13 DEF Next

(* The status flags of both decoders always agree with what their plays     *)
(* went through, for every title and whatever words the drivers write.      *)
THEOREM DvcInvariant == Spec => []DvcInv
  <1>1. Init => Rest
    BY InitRest
  <1>2. Rest /\ [Next]_vars => Rest'
    BY NextStep
  <1>3. Rest => DvcInv
    BY InvIsRest
  <1> QED BY <1>1, <1>2, <1>3, PTL DEF Spec

(* The end of the program never joins an unacknowledged end of the sequence *)
(* in one status word.                                                      *)
THEOREM EiiIsSeparate == Spec => EiiSeparate
  <1>1. Rest /\ [Next]_vars =>
          [("eii" \notin video.isr /\ "eii" \in video'.isr) => "esi" \notin video'.isr]_vars
    BY NextStep DEF SafeStep
  <1>2. Init => Rest
    BY InitRest
  <1>3. Rest /\ [Next]_vars => Rest'
    BY NextStep
  <1> QED BY <1>1, <1>2, <1>3, PTL DEF Spec, EiiSeparate

(* The shared timeline moves only when no play depends on it. *)
THEOREM TimelineHolds == Spec => OneTimeline
  <1>1. Rest /\ [Next]_vars =>
          [stc # None => \/ stc' \in {stc, CountUp(stc)}
                         \/ stc' = None /\ ~VideoRuns(video') /\ ~AudioRuns(audio')
                         \/ ~AudioRuns(audio) /\ AbortsVideo
                         \/ ~VideoRuns(video) /\ AbortsAudio]_vars
    BY NextStep DEF Timeline
  <1>2. Init => Rest
    BY InitRest
  <1>3. Rest /\ [Next]_vars => Rest'
    BY NextStep
  <1> QED BY <1>1, <1>2, <1>3, PTL DEF Spec, OneTimeline

-----------------------------------------------------------------------------
(* The order of the units.  Everything a decoder holds of its stream, from  *)
(* the display back to the input, is one line of units; commands, clocks    *)
(* and the demultiplexer move units along it, a push adds to its end, a     *)
(* latch and a sample period take from its front, an abort empties it.      *)

(* Lines of units may be joined in any grouping. *)
LEMMA LinesJoin ==
  ASSUME NEW a \in Seq(Unit), NEW b \in Seq(Unit), NEW c \in Seq(Unit)
  PROVE  /\ (a \o b) \o c = a \o (b \o c)
         /\ a \o b \in Seq(Unit)
         /\ a \o <<>> = a /\ <<>> \o a = a
  BY ConcatAssociative, ConcatEmptySeq

(* Joining, kept opaque to the provers, which know too much of sequences.   *)
Cat(a, b) == a \o b

\* Pieces of a line join in their order.
LEMMA CatJoins ==
  /\ \A a \in Seq(Unit), b \in Seq(Unit), c \in Seq(Unit) : Cat(Cat(a, b), c) = Cat(a, Cat(b, c))
  /\ \A a \in Seq(Unit), b \in Seq(Unit) : Cat(a, b) \in Seq(Unit)
  /\ \A a \in Seq(Unit) : Cat(a, <<>>) = a /\ Cat(<<>>, a) = a
  <1> SUFFICES ASSUME NEW a \in Seq(Unit), NEW b \in Seq(Unit), NEW c \in Seq(Unit)
               PROVE  /\ (a \o b) \o c = a \o (b \o c)
                      /\ a \o b \in Seq(Unit)
                      /\ a \o <<>> = a /\ <<>> \o a = a
    BY EmptyQueues DEF Cat
  <1> QED BY LinesJoin

(* finish_dma queues what it parsed before what stays torn. *)
LEMMA DemuxKeepsOrder ==
  ASSUME NEW torn \in BOOLEAN, NEW s, s.input \in Chunks, s.tail \in Chunks,
         "input" \in DOMAIN s, "tail" \in DOMAIN s
  PROVE  LET w == Feed(s, torn)
         IN  /\ Parsed(s, torn).units \in Seq(Unit)
             /\ w.tail.units \in Seq(Unit) /\ w.input.units \in Seq(Unit)
             /\ (Parsed(s, torn).units \o w.tail.units) \o w.input.units
                  = s.tail.units \o s.input.units
  <1> DEFINE w == Feed(s, torn)
             p == Parsed(s, torn)
             t == s.tail.units
             n == s.input.units
  <1>1. t \in Seq(Unit) /\ n \in Seq(Unit)
    BY DEF Chunks, ChunkOf
  <1>2. /\ w.tail = IF s.input = Nothing THEN s.tail ELSE IF torn THEN s.input ELSE Nothing
        /\ w.input = Nothing
    BY DEF Feed
  <1>3. Nothing.units = <<>> /\ <<>> \in Seq(Unit)
    BY DEF Nothing
  <1>4. Join(s.tail, s.input).units = t \o n
    BY DEF Join
  <1>5. p = IF s.input = Nothing THEN Nothing ELSE IF torn THEN s.tail ELSE Join(s.tail, s.input)
    BY DEF Parsed
  <1> HIDE DEF w, p
  <1>6. \/ s.input = Nothing /\ p.units = <<>> /\ w.tail.units = t /\ n = <<>>
        \/ p.units = t /\ w.tail.units = n
        \/ p.units = t \o n /\ w.tail.units = <<>>
    BY <1>2, <1>3, <1>4, <1>5
  <1>7. w.input.units = <<>>
    BY <1>2, <1>3
  <1> HIDE DEF t, n
  <1>8. t \o n \in Seq(Unit)
    BY <1>1
  <1>9. \A q \in Seq(Unit) : q \o <<>> = q /\ <<>> \o q = q
    BY ConcatEmptySeq
  <1> QED BY <1>1, <1>3, <1>6, <1>7, <1>8, <1>9 DEF w, p, t, n

Ready(v) == v.current \o v.pending \o v.frames

(* A handler that moves no unit, or one from the queue to the stage. *)
Moves(v, w) ==
    Ready(w) = Ready(v) /\ w.current = v.current /\ w.tail = v.tail /\ w.input = v.input

(* The next picture is staged at the place it had in the line. *)
LEMMA PresentMoves ==
  ASSUME NEW v, VideoOK(v)
  PROVE  Moves(v, Present(v))
  <1>1. CASE ~CanPresent(v)
    BY <1>1 DEF Present, Moves
  <1>2. CASE CanPresent(v)
    <2> DEFINE h == <<Head(v.frames)>>
               t == Tail(v.frames)
    <2>1. v.frames \in Seq(Unit) /\ v.frames # <<>> /\ v.pending = <<>> /\ v.current \in Seq(Unit)
      BY <1>2 DEF CanPresent, VideoOK, VideoType, AtMostOne
    <2>2. h \in Seq(Unit) /\ t \in Seq(Unit) /\ h \o t = v.frames
      BY <2>1, HeadTailProperties
    <2>3. /\ Present(v).pending = h /\ Present(v).frames = t /\ Present(v).current = v.current
          /\ Present(v).tail = v.tail /\ Present(v).input = v.input
      BY <1>2 DEF Present, VideoOK, VideoType
    <2> HIDE DEF h, t
    <2>a. v.current \in Seq(Unit) /\ h \in Seq(Unit) /\ t \in Seq(Unit)
      BY <2>1, <2>2
    <2>4. (v.current \o h) \o t = v.current \o (h \o t)
      <3>1. ASSUME NEW a \in Seq(Unit), NEW b \in Seq(Unit), NEW c \in Seq(Unit)
            PROVE  (a \o b) \o c = a \o (b \o c)
        BY LinesJoin
      <3> QED BY <2>a, <3>1
    <2>5. v.current \o <<>> = v.current
      BY <2>1, ConcatEmptySeq
    <2> QED BY <2>1, <2>2, <2>3, <2>4, <2>5 DEF Moves, Ready
  <1> QED BY <1>1, <1>2

(* Moves is transitive. *)
LEMMA MovesTwice ==
  ASSUME NEW u, NEW v, NEW w, Moves(u, v), Moves(v, w)
  PROVE  Moves(u, w)
  BY DEF Moves

(* prime_video_output presents or leaves the line alone. *)
LEMMA PrimeMoves ==
  ASSUME NEW v, VideoOK(v)
  PROVE  Moves(v, Prime(v))
  BY PresentMoves DEF Prime, Moves

(* What leaves the five places of the line alone. *)
LEMMA StillMoves ==
  ASSUME NEW v, NEW w, w.current = v.current, w.pending = v.pending, w.frames = v.frames,
         w.tail = v.tail, w.input = v.input
  PROVE  Moves(v, w)
  BY DEF Moves, Ready

(* The handlers of the video side that touch no unit. *)
LEMMA FlagsMove ==
  ASSUME NEW v, VideoOK(v), NEW clock, NEW edges
  PROVE  /\ Moves(v, ScheduleStart(v, clock)) /\ Moves(v, SequenceEnd(v, clock))
         /\ Moves(v, SignalPendingIsoEnd(v)) /\ Moves(v, SignalVideoEnd(v))
         /\ Moves(v, RaiseVideoUnderflow(v)) /\ Moves(v, CompleteUpdate(v))
         /\ Moves(v, Disable(v)) /\ Moves(v, Enable(v)) /\ Moves(v, Arm(v))
         /\ Moves(v, Pause(v)) /\ Moves(v, Stop(v))
         /\ Moves(v, Deadlines(v, edges)) /\ Moves(v, PauseDone(v))
         /\ Moves(v, ScrollUpdate(v, edges))
  <1> DEFINE Still(w) == /\ w.current = v.current /\ w.pending = v.pending /\ w.frames = v.frames
                         /\ w.tail = v.tail /\ w.input = v.input
  <1>1. v \in VideoType
    BY DEF VideoOK
  <1>2. Still(ScheduleStart(v, clock)) /\ Still(SequenceEnd(v, clock))
    BY <1>1 DEF ScheduleStart, SequenceEnd, VideoType
  <1>3. Still(SignalPendingIsoEnd(v)) /\ Still(SignalVideoEnd(v))
    BY <1>1 DEF SignalPendingIsoEnd, SignalVideoEnd, VideoType
  <1>4. Still(RaiseVideoUnderflow(v)) /\ Still(CompleteUpdate(v)) /\ Still(ScrollUpdate(v, edges))
    BY <1>1 DEF RaiseVideoUnderflow, CompleteUpdate, ScrollUpdate, VideoType
  <1>5. Still(Disable(v)) /\ Still(Enable(v)) /\ Still(Arm(v))
    BY <1>1 DEF Disable, Enable, Arm, VideoType
  <1>6. Still(Pause(v)) /\ Still(Stop(v))
    BY <1>1 DEF Pause, Stop, VideoType
  <1>7. Still(Deadlines(v, edges)) /\ Still(PauseDone(v))
    BY <1>1 DEF Deadlines, PauseDone, VideoType
  <1> QED BY <1>2, <1>3, <1>4, <1>5, <1>6, <1>7, StillMoves

(* Continue and a start that came due stage the first picture. *)
LEMMA StartsMove ==
  ASSUME NEW v, VideoOK(v)
  PROVE  Moves(v, Continue(v)) /\ Moves(v, StartVideo(v))
  <1> DEFINE w == [v EXCEPT !.armed = FALSE, !.playing = TRUE, !.start = None]
             x == [v EXCEPT !.start = None, !.armed = FALSE, !.playing = TRUE]
  <1>1. VideoOK(w) /\ VideoOK(x)
    <2>1. w \in VideoType
      BY EmptyQueues, ZenonT(60) DEF VideoOK, VideoType
    <2>2. x \in VideoType
      BY EmptyQueues, ZenonT(60) DEF VideoOK, VideoType
    <2>3. VideoFacts(w)
      BY DEF VideoOK, VideoType, VideoFacts
    <2>4. VideoFacts(x)
      BY DEF VideoOK, VideoType, VideoFacts
    <2> QED BY <2>1, <2>2, <2>3, <2>4 DEF VideoOK
  <1>2. /\ w.current = v.current /\ w.pending = v.pending /\ w.frames = v.frames
        /\ w.tail = v.tail /\ w.input = v.input
        /\ x.current = v.current /\ x.pending = v.pending /\ x.frames = v.frames
        /\ x.tail = v.tail /\ x.input = v.input
    BY DEF VideoOK, VideoType
  <1>3. Moves(v, v)
    BY DEF Moves
  <1>4. Continue(v) = Prime(w) /\ StartVideo(v) = IF v.start = 0 THEN Prime(x) ELSE v
    BY DEF Continue, StartVideo
  <1> HIDE DEF w, x
  <1>5. Moves(v, w) /\ Moves(v, x)
    BY <1>2, StillMoves
  <1>6. Moves(v, Prime(w)) /\ Moves(v, Prime(x))
    BY <1>1, <1>5, PrimeMoves, MovesTwice
  <1> QED BY <1>3, <1>4, <1>6

(* The cadence stages a picture or raises a flag. *)
LEMMA CadenceMoves ==
  ASSUME NEW v, VideoOK(v)
  PROVE  Moves(v, Cadence(v))
  <1> DEFINE w == Present(v)
             x == [w EXCEPT !.overdue = FALSE, !.reported = FALSE]
  <1>1. VideoOK(w) /\ Moves(v, w)
    BY PresentOK, PresentMoves
  <1>2. \/ Cadence(v) = x
        \/ /\ Cadence(v).current = v.current /\ Cadence(v).pending = v.pending
           /\ Cadence(v).frames = v.frames /\ Cadence(v).tail = v.tail
           /\ Cadence(v).input = v.input
    BY DEF Cadence, VideoOK, VideoType
  <1> HIDE DEF w
  <1>3. /\ x.current = w.current /\ x.pending = w.pending /\ x.frames = w.frames
        /\ x.tail = w.tail /\ x.input = w.input
    BY <1>1 DEF VideoOK, VideoType
  <1> HIDE DEF x
  <1>4. Moves(v, x)
    BY <1>1, <1>3, StillMoves, MovesTwice
  <1> QED BY <1>2, <1>4, StillMoves

(* FMV_VIDCMD touches no unit but by staging the first picture. *)
LEMMA VideoCommandMoves ==
  ASSUME Rest, NEW c \in SUBSET VideoCommands, VideoCommand(c)
  PROVE  Moves(video, video')
  <1> DEFINE updated == IF "update" \notin c THEN video
                        ELSE [video EXCEPT !.update = IF "scroll" \in c THEN "scroll" ELSE "picture"]
             hidden == IF "hide" \in c THEN [updated EXCEPT !.visible = FALSE] ELSE updated
             shown == [hidden EXCEPT !.visible = TRUE]
  <1>1. video' = IF "show" \in c THEN Prime(shown) ELSE hidden
    BY DEF VideoCommand
  <1>2. video \in VideoType
    BY DEF Rest, VideoOK
  <1>3. /\ Moves(video, hidden) /\ Moves(video, shown) /\ VideoOK(shown)
    <2>1. updated \in VideoType /\ VideoFacts(updated)
      BY <1>2 DEF Rest, VideoOK, VideoType, VideoFacts
    <2>2. /\ updated.current = video.current /\ updated.pending = video.pending
          /\ updated.frames = video.frames
          /\ updated.tail = video.tail /\ updated.input = video.input
      BY <1>2 DEF VideoType
    <2> HIDE DEF updated
    <2>3. /\ hidden.current = video.current /\ hidden.pending = video.pending
          /\ hidden.frames = video.frames
          /\ hidden.tail = video.tail /\ hidden.input = video.input
      BY <2>1, <2>2 DEF VideoType
    <2>4. hidden \in VideoType
      <3>1. [updated EXCEPT !.visible = FALSE] \in VideoType
        BY <2>1, ZenonT(60) DEF VideoType
      <3> QED BY <2>1, <3>1
    <2>5. VideoFacts(hidden)
      BY <2>1 DEF VideoType, VideoFacts
    <2> HIDE DEF hidden
    <2>6. shown \in VideoType
      BY <2>4, ZenonT(60) DEF VideoType
    <2>7. VideoFacts(shown)
      BY <2>4, <2>5 DEF VideoType, VideoFacts
    <2>8. /\ shown.current = video.current /\ shown.pending = video.pending
          /\ shown.frames = video.frames
          /\ shown.tail = video.tail /\ shown.input = video.input
      BY <2>3, <2>4 DEF VideoType
    <2> HIDE DEF shown
    <2> QED BY <2>3, <2>6, <2>7, <2>8, StillMoves DEF VideoOK
  <1> HIDE DEF hidden, shown
  <1> QED BY <1>1, <1>3, PrimeMoves, MovesTwice

(* A tick counts, starts, pauses and scrolls, then runs the cadence. *)
LEMMA TickVideoMoves ==
  ASSUME NEW v, VideoOK(v), NEW edges
  PROVE  Moves(v, TickVideo(v, edges))
  <1> DEFINE counted == Deadlines(v, edges)
             started == StartVideo(counted)
             paused == PauseDone(started)
             scrolled == ScrollUpdate(paused, edges)
  <1>1. VideoOK(counted) /\ Moves(v, counted)
    BY DeadlinesOK, FlagsMove
  <1>2. TickVideo(v, edges) = IF scrolled.playing /\ (scrolled.overdue \/ "frame" \in edges)
                              THEN Cadence(scrolled) ELSE scrolled
    BY DEF TickVideo
  <1> HIDE DEF counted
  <1>3. VideoOK(started) /\ Moves(v, started)
    BY <1>1, StartVideoOK, StartsMove, MovesTwice
  <1> HIDE DEF started
  <1>4. VideoOK(paused) /\ Moves(v, paused)
    BY <1>3, PauseDoneOK, FlagsMove, MovesTwice
  <1> HIDE DEF paused
  <1>5. VideoOK(scrolled) /\ Moves(v, scrolled)
    BY <1>4, ScrollUpdateOK, FlagsMove, MovesTwice
  <1> HIDE DEF scrolled
  <1>6. Moves(v, Cadence(scrolled))
    BY <1>5, CadenceMoves, MovesTwice
  <1> QED BY <1>2, <1>5, <1>6

(* Acknowledging status touches no unit. *)
LEMMA AcknowledgeFmvMoves ==
  ASSUME Rest, NEW bits, AcknowledgeFmv(bits)
  PROVE  Moves(video, video')
  <1> DEFINE v == [video EXCEPT !.isr = {}]
             w == [v EXCEPT !.after_eoi = TRUE]
  <1>1. video' = IF "esi" \in bits /\ v.iso_end_pending THEN SignalPendingIsoEnd(v)
                 ELSE IF "eii" \in bits THEN RaiseVideoUnderflow(w) ELSE v
    BY DEF AcknowledgeFmv
  <1>2. VideoOK(v) /\ Moves(video, v)
    BY StillMoves DEF Rest, VideoOK, VideoType, VideoFacts
  <1> HIDE DEF v
  <1>3. VideoOK(w) /\ Moves(v, w)
    <2>1. VideoOK(w)
      BY <1>2 DEF VideoOK, VideoType, VideoFacts
    <2>2. Moves(v, w)
      BY <1>2 DEF VideoOK, VideoType, Moves, Ready
    <2> QED BY <2>1, <2>2
  <1> HIDE DEF w
  <1>4. Moves(video, w)
    BY <1>2, <1>3, MovesTwice
  <1>5. Moves(video, SignalPendingIsoEnd(v)) /\ Moves(video, RaiseVideoUnderflow(w))
    BY <1>2, <1>3, <1>4, FlagsMove, MovesTwice
  <1> QED BY <1>1, <1>2, <1>5

(* A system command clears the line with its reset; all else that it does   *)
(* touches no unit but by staging one.                                      *)
LEMMA SystemMoves ==
  ASSUME Rest, NEW c \in SUBSET SystemCommands, SystemCommand(c)
  PROVE  \E w : /\ Moves(w, video')
                /\ "reset" \notin c => w = video
                /\ "reset" \in c => \E v : w = ResetDecoder(v)
  <1> DEFINE disabled == IF "disable" \in c THEN Disable(video) ELSE video
             cleared == IF "reset" \in c THEN ResetDecoder(disabled) ELSE disabled
             base == IF "reset" \in c THEN cleared ELSE video
             idle == IF c \cap {"disable", "reset"} # {} THEN Released(stc, cleared, audio) ELSE stc
             enabled == IF "enable" \in c THEN Enable(cleared) ELSE cleared
             armed == IF "play" \in c THEN Arm(enabled) ELSE enabled
             scheduled == IF "play" \in c THEN ScheduleStart(armed, idle) ELSE armed
             continued == IF "continue" \in c THEN Continue(scheduled) ELSE scheduled
             paused == IF "pause" \in c THEN Pause(continued) ELSE continued
             stopped == IF "stop" \in c THEN Stop(paused) ELSE paused
  <1>1. video' = stopped
    BY DEF SystemCommand
  <1>2. /\ "reset" \notin c => base = video
        /\ "reset" \in c => \E v : base = ResetDecoder(v)
    OBVIOUS
  <1>3. VideoOK(disabled) /\ Moves(video, disabled)
    BY DisableOK, FlagsMove DEF Rest, Moves
  <1> HIDE DEF disabled
  <1>4. VideoOK(cleared) /\ Moves(base, cleared)
    BY <1>3, ResetDecoderOK DEF Moves
  <1>5. idle \in Deadline
    BY ReleasedType DEF Rest, TypeOK
  <1> HIDE DEF base, cleared, idle
  <1>6. VideoOK(enabled) /\ Moves(base, enabled)
    BY <1>4, EnableOK, FlagsMove, MovesTwice
  <1> HIDE DEF enabled
  <1>7. VideoOK(armed) /\ Moves(base, armed)
    BY <1>6, ArmOK, FlagsMove, MovesTwice
  <1> HIDE DEF armed
  <1>8. VideoOK(scheduled) /\ Moves(base, scheduled)
    BY <1>5, <1>7, ScheduleOK, FlagsMove, MovesTwice
  <1> HIDE DEF scheduled
  <1>9. VideoOK(continued) /\ Moves(base, continued)
    BY <1>8, ContinueOK, StartsMove, MovesTwice
  <1> HIDE DEF continued
  <1>10. VideoOK(paused) /\ Moves(base, paused)
    BY <1>9, PauseOK, FlagsMove, MovesTwice
  <1> HIDE DEF paused
  <1>11. Moves(base, stopped)
    BY <1>10, FlagsMove, MovesTwice
  <1> QED BY <1>1, <1>2, <1>11

(* What the units q of play p are that are left of the first n sectors of   *)
(* the stream s: consecutive ones up to the last one of these sectors.      *)
Line(q, s, n, p) ==
    /\ n \in 0..Len(s)
    /\ \A i \in DOMAIN q : q[i].play = p
    /\ \A i \in 1..(Len(q) - 1) : q[i + 1].no = q[i].no + 1
    /\ q # <<>> =>
         /\ \E c \in 1..n : \E i \in DOMAIN s[c].units : q[Len(q)].no = s[c].units[i].no
         /\ \A c \in 1..n : \A i \in DOMAIN s[c].units : q[Len(q)].no >= s[c].units[i].no

(* Until the first picture is displayed the line starts with the first one, *)
(* and it is empty only as long as no unit was submitted.                   *)
Opened(q, current, s, n) ==
    /\ q # <<>> /\ current = <<>> => q[1].no = 1
    /\ q = <<>> => \A c \in 1..n : s[c].units = <<>>

Streams == Seq(ChunkOf(TitleUnit))

(* An abort leaves an empty line. *)
LEMMA LineEmpty ==
  ASSUME NEW s \in Streams, NEW p, NEW current
  PROVE  Line(<<>>, s, 0, p) /\ Opened(<<>>, current, s, 0)
  BY DEF Line, Opened, Streams

(* Units taken from the front leave a line. *)
LEMMA LineDrop ==
  ASSUME NEW front \in Seq(Unit), NEW q \in Seq(Unit), NEW s, NEW n, NEW p,
         Line(front \o q, s, n, p)
  PROVE  Line(q, s, n, p)
  <1> DEFINE all == front \o q
             k == Len(front)
  <1>1. /\ k \in Nat /\ Len(q) \in Nat /\ Len(all) = k + Len(q)
        /\ \A i \in 1..Len(q) : all[k + i] = q[i]
        /\ DOMAIN q = 1..Len(q) /\ DOMAIN all = 1..Len(all)
    OBVIOUS
  <1> HIDE DEF all, k
  <1>2. Line(all, s, n, p)
    BY DEF all
  <1>3. \A i \in DOMAIN q : q[i].play = p
    <2> SUFFICES ASSUME NEW i \in DOMAIN q PROVE q[i].play = p
      OBVIOUS
    <2>1. k + i \in DOMAIN all /\ all[k + i] = q[i]
      BY <1>1
    <2> QED BY <1>2, <2>1 DEF Line
  <1>4. \A i \in 1..(Len(q) - 1) : q[i + 1].no = q[i].no + 1
    <2> SUFFICES ASSUME NEW i \in 1..(Len(q) - 1) PROVE q[i + 1].no = q[i].no + 1
      OBVIOUS
    <2>1. /\ k + i \in 1..(Len(all) - 1) /\ all[k + i] = q[i]
          /\ (k + i) + 1 = k + (i + 1) /\ all[k + (i + 1)] = q[i + 1]
      BY <1>1
    <2> QED BY <1>2, <2>1 DEF Line
  <1>5. q # <<>> => all # <<>> /\ all[Len(all)] = q[Len(q)]
    <2> SUFFICES ASSUME q # <<>> PROVE all # <<>> /\ all[Len(all)] = q[Len(q)]
      OBVIOUS
    <2>1. Len(q) \in 1..Len(q) /\ Len(q) > 0
      BY <1>1
    <2>2. all[k + Len(q)] = q[Len(q)] /\ Len(all) > 0
      BY <1>1, <2>1
    <2> QED BY <1>1, <2>2
  <1> QED BY <1>2, <1>3, <1>4, <1>5 DEF Line

(* What a stream's numbers say of one sector: it goes on from the units     *)
(* before it.                                                               *)
LEMMA SectorGoesOn ==
  ASSUME NEW s \in Streams, Numbered(s), NEW c \in 1..Len(s)
  PROVE  LET u == s[c].units
         IN  /\ u \in Seq(TitleUnit)
             /\ \A i \in DOMAIN u : u[i].no \in Nat /\ u[i].no >= 1
             /\ \A i \in 1..(Len(u) - 1) : u[i + 1].no = u[i].no + 1
             /\ \A i \in DOMAIN u : \A b \in 1..(c - 1) : \A j \in DOMAIN s[b].units :
                    s[b].units[j].no < u[i].no
             /\ u # <<>> /\ u[1].no > 1 =>
                  \E b \in 1..(c - 1) : \E j \in DOMAIN s[b].units : s[b].units[j].no = u[1].no - 1
  <1> DEFINE u == s[c].units
  <1>1. DOMAIN s = 1..Len(s) /\ Len(s) \in Nat /\ \A b \in 1..Len(s) : s[b] \in ChunkOf(TitleUnit)
    BY DEF Streams
  <1>2. \A b \in 1..Len(s) : s[b].units \in Seq(TitleUnit)
    BY <1>1 DEF ChunkOf
  <1>3. \A b \in 1..Len(s) : \A i \in DOMAIN s[b].units : s[b].units[i].no \in Nat
    <2> SUFFICES ASSUME NEW b \in 1..Len(s), NEW i \in DOMAIN s[b].units
                 PROVE  s[b].units[i].no \in Nat
      OBVIOUS
    <2>1. s[b].units[i] \in TitleUnit
      BY <1>2
    <2> QED BY <2>1 DEF TitleUnit
  <1>4. DOMAIN u = 1..Len(u) /\ Len(u) \in Nat
    BY <1>2
  <1>5. \A i \in DOMAIN u :
          /\ u[i].no >= 1
          /\ \A b \in 1..c : \A j \in DOMAIN s[b].units :
                 b < c \/ j < i => s[b].units[j].no < u[i].no
          /\ u[i].no > 1 =>
                 \E b \in 1..c : \E j \in DOMAIN s[b].units : s[b].units[j].no = u[i].no - 1
    BY <1>1 DEF Numbered
  <1>6. \A i \in 1..(Len(u) - 1) : u[i + 1].no = u[i].no + 1
    <2> SUFFICES ASSUME NEW i \in 1..(Len(u) - 1) PROVE u[i + 1].no = u[i].no + 1
      OBVIOUS
    <2>1. i \in DOMAIN u /\ i + 1 \in DOMAIN u /\ u[i].no \in Nat /\ u[i + 1].no \in Nat
      BY <1>3, <1>4
    <2>2. u[i].no < u[i + 1].no /\ u[i].no >= 1
      BY <1>5, <2>1
    <2> DEFINE k == i + 1
    <2>10. k \in DOMAIN u /\ u[k].no > 1
      BY <2>1, <2>2
    <2>11. \E b \in 1..c : \E j \in DOMAIN s[b].units : s[b].units[j].no = u[k].no - 1
      <3> HIDE DEF k, u
      <3> QED BY <1>5, <2>10
    <2>3. PICK b \in 1..c : \E j \in DOMAIN s[b].units : s[b].units[j].no = u[i + 1].no - 1
      BY <2>11
    <2>4. PICK j \in DOMAIN s[b].units : s[b].units[j].no = u[i + 1].no - 1
      BY <2>3
    <2>5. s[b].units[j].no \in Nat /\ DOMAIN s[b].units \subseteq Int /\ b <= c
      <3>1. b \in 1..Len(s)
        OBVIOUS
      <3> QED BY <1>2, <1>3, <3>1
    <2>6. CASE b < c
      <3>1. s[b].units[j].no < u[i].no
        BY <1>5, <2>1, <2>6
      <3> QED BY <2>1, <2>2, <2>4, <2>5, <3>1
    <2>7. CASE b = c /\ j < i
      <3>1. s[b].units[j].no < u[i].no
        BY <1>5, <2>1, <2>7
      <3> QED BY <2>1, <2>2, <2>4, <2>5, <3>1
    <2>8. CASE b = c /\ j = i
      BY <2>1, <2>4, <2>8
    <2>9. CASE b = c /\ j > i
      <3>1. j \in DOMAIN u /\ u[j].no = u[i + 1].no - 1
        BY <2>4, <2>9
      <3>2. j = i + 1 \/ i + 1 < j
        BY <1>4, <2>9, <3>1
      <3>3. i + 1 < j => u[i + 1].no < u[j].no
        BY <1>5, <2>1, <3>1
      <3> QED BY <2>1, <3>1, <3>2, <3>3
    <2> QED BY <1>4, <2>5, <2>6, <2>7, <2>8, <2>9
  <1>7. ASSUME u # <<>>, u[1].no > 1
        PROVE  \E b \in 1..(c - 1) : \E j \in DOMAIN s[b].units : s[b].units[j].no = u[1].no - 1
    <2>1. 1 \in DOMAIN u
      BY <1>2, <1>4, <1>7
    <2>2. PICK b \in 1..c : \E j \in DOMAIN s[b].units : s[b].units[j].no = u[1].no - 1
      BY <1>5, <1>7, <2>1
    <2>3. PICK j \in DOMAIN s[b].units : s[b].units[j].no = u[1].no - 1
      BY <2>2
    <2>4. CASE b = c
      <3>1. j \in DOMAIN u /\ u[j].no = u[1].no - 1 /\ u[1].no \in Nat
        BY <1>3, <2>1, <2>3, <2>4
      <3>2. j = 1 \/ 1 < j
        BY <1>4, <3>1
      <3>3. 1 < j => u[1].no < u[j].no
        BY <1>5, <2>1, <3>1
      <3> QED BY <3>1, <3>2, <3>3
    <2>5. CASE b < c
      BY <2>3, <2>5
    <2> QED BY <2>4, <2>5
  <1>8. u \in Seq(TitleUnit) /\ \A i \in DOMAIN u : u[i].no \in Nat /\ u[i].no >= 1
    BY <1>2, <1>3, <1>5
  <1>9. ASSUME NEW i \in DOMAIN u, NEW b \in 1..(c - 1), NEW j \in DOMAIN s[b].units
        PROVE  s[b].units[j].no < u[i].no
    <2>1. b \in 1..c /\ b < c
      OBVIOUS
    <2> QED BY <1>5, <2>1
  <1> HIDE DEF u
  <1> QED BY <1>6, <1>7, <1>8, <1>9 DEF u

(* The units a driver submits carry the present play and keep their numbers. *)
LEMMA SubmittedUnits ==
  ASSUME NEW chunk \in ChunkOf(TitleUnit), NEW p \in Plays
  PROVE  LET u == Submitted(chunk, p).units
         IN  /\ u \in Seq(Unit) /\ Len(u) = Len(chunk.units)
             /\ \A i \in 1..Len(u) : u[i].play = p /\ u[i].no = chunk.units[i].no
  <1> DEFINE units == [i \in DOMAIN chunk.units |->
                         [play |-> p, no |-> chunk.units[i].no, last |-> chunk.units[i].last]]
  <1>1. chunk.units \in Seq(TitleUnit)
    BY DEF ChunkOf
  <1>2. DOMAIN chunk.units = 1..Len(chunk.units) /\ Len(chunk.units) \in Nat
    BY <1>1
  <1>3. Submitted(chunk, p).units = units
    BY DEF Submitted, ChunkOf
  <1>4. units \in Seq(Unit)
    BY <1>3, SubmittedType DEF Chunks, ChunkOf
  <1>5. Len(units) = Len(chunk.units)
    BY <1>2, <1>4
  <1>6. \A i \in 1..Len(chunk.units) : units[i].play = p /\ units[i].no = chunk.units[i].no
    BY <1>2
  <1> HIDE DEF units
  <1> QED BY <1>3, <1>4, <1>5, <1>6

\* A number that is behind another and not two further is the next one.
LEMMA NextNumber ==
  ASSUME NEW x \in Nat, NEW y \in Nat, x < y, x >= y - 1
  PROVE  y = x + 1
  OBVIOUS

(* The next sector continues the line. *)
LEMMA LinePush ==
  ASSUME NEW q \in Seq(Unit), NEW s \in Streams, Numbered(s), NEW n \in 0..(Len(s) - 1),
         NEW p \in Plays, Line(q, s, n, p)
  PROVE  LET u == Submitted(s[n + 1], p).units
         IN  /\ u \in Seq(Unit)
             /\ Line(q \o u, s, n + 1, p)
             /\ \A current : Opened(q, current, s, n) => Opened(q \o u, current, s, n + 1)
  <1> DEFINE u == Submitted(s[n + 1], p).units
             t == s[n + 1].units
             all == q \o u
             k == Len(q)
             m == Len(u)
  <1>0. Len(s) \in Nat /\ n \in Nat /\ n + 1 \in 1..Len(s)
    BY DEF Streams
  <1>1. s[n + 1] \in ChunkOf(TitleUnit)
    BY <1>0 DEF Streams
  <1>2. /\ u \in Seq(Unit) /\ Len(u) = Len(t)
        /\ \A i \in 1..Len(u) : u[i].play = p /\ u[i].no = t[i].no
    BY <1>1, SubmittedUnits
  <1>3. /\ t \in Seq(TitleUnit)
        /\ \A i \in DOMAIN t : t[i].no \in Nat /\ t[i].no >= 1
        /\ \A i \in 1..(Len(t) - 1) : t[i + 1].no = t[i].no + 1
        /\ \A i \in DOMAIN t : \A b \in 1..((n + 1) - 1) : \A j \in DOMAIN s[b].units :
               s[b].units[j].no < t[i].no
        /\ t # <<>> /\ t[1].no > 1 =>
             \E b \in 1..((n + 1) - 1) : \E j \in DOMAIN s[b].units : s[b].units[j].no = t[1].no - 1
    BY <1>0, SectorGoesOn
  <1>4. (n + 1) - 1 = n
    BY <1>0
  <1>5. /\ k \in Nat /\ m \in Nat /\ Len(all) = k + m
        /\ \A i \in 1..k : all[i] = q[i]
        /\ \A i \in 1..m : all[k + i] = u[i]
        /\ DOMAIN all = 1..(k + m) /\ DOMAIN q = 1..k /\ DOMAIN t = 1..m
        /\ q = <<>> <=> k = 0
        /\ t = <<>> <=> m = 0
        /\ all = <<>> <=> k + m = 0
    <2>1. u \in Seq(Unit) /\ t \in Seq(TitleUnit) /\ Len(u) = Len(t)
      BY <1>2, <1>3
    <2> HIDE DEF u, t
    <2> QED BY <2>1
  <1>6. all \in Seq(Unit)
    BY <1>2
  <1>7. q # <<>> =>
          /\ \E c \in 1..n : \E i \in DOMAIN s[c].units : q[k].no = s[c].units[i].no
          /\ \A c \in 1..n : \A i \in DOMAIN s[c].units : q[k].no >= s[c].units[i].no
    BY DEF Line
  <1>8. /\ \A i \in 1..k : q[i].play = p
        /\ \A i \in 1..(k - 1) : q[i + 1].no = q[i].no + 1
    BY <1>5 DEF Line
  <1> HIDE DEF u, t, all, k, m
  <1>9. \A b \in 1..n : \A j \in DOMAIN s[b].units : s[b].units[j].no \in Nat
    <2> SUFFICES ASSUME NEW b \in 1..n, NEW j \in DOMAIN s[b].units
                 PROVE  s[b].units[j].no \in Nat
      OBVIOUS
    <2>1. b \in 1..Len(s)
      BY <1>0
    <2> QED BY <2>1, SectorGoesOn
  <1>10. k # 0 /\ m # 0 => t[1].no = q[k].no + 1
    <2> SUFFICES ASSUME k # 0, m # 0 PROVE t[1].no = q[k].no + 1
      OBVIOUS
    <2>1. 1 \in DOMAIN t /\ t # <<>> /\ q # <<>>
      BY <1>5
    <2>2. PICK c \in 1..n : \E i \in DOMAIN s[c].units : q[k].no = s[c].units[i].no
      BY <1>7, <2>1
    <2>3. PICK i \in DOMAIN s[c].units : q[k].no = s[c].units[i].no
      BY <2>2
    <2>4. q[k].no \in Nat /\ q[k].no >= 1 /\ q[k].no < t[1].no /\ t[1].no \in Nat
      <3>1. c \in 1..Len(s)
        BY <1>0
      <3>2. s[c].units[i].no >= 1
        BY <3>1, SectorGoesOn
      <3> QED BY <1>3, <1>4, <1>9, <2>1, <2>3, <3>2
    <2>5. PICK b \in 1..n : \E j \in DOMAIN s[b].units : s[b].units[j].no = t[1].no - 1
      BY <1>3, <1>4, <2>1, <2>4
    <2>6. PICK j \in DOMAIN s[b].units : s[b].units[j].no = t[1].no - 1
      BY <2>5
    <2>7. q[k].no >= s[b].units[j].no /\ s[b].units[j].no \in Nat
      BY <1>7, <1>9, <2>1
    <2> QED BY <2>4, <2>6, <2>7, NextNumber
  <1>11. \A i \in 1..(k + m) : all[i].play = p
    <2> SUFFICES ASSUME NEW i \in 1..(k + m) PROVE all[i].play = p
      OBVIOUS
    <2>1. CASE i <= k
      BY <1>5, <1>8, <2>1
    <2>2. CASE i > k
      <3> DEFINE g == i - k
      <3>1. g \in 1..m /\ k + g = i
        BY <1>5, <2>2
      <3>2. g \in 1..Len(u)
        BY <1>2, <3>1 DEF m
      <3> HIDE DEF g
      <3>3. u[g].play = p /\ all[k + g] = u[g]
        BY <1>2, <1>5, <3>1, <3>2
      <3> QED BY <3>1, <3>3
    <2> QED BY <1>5, <2>1, <2>2
  <1>12. \A i \in 1..((k + m) - 1) : all[i + 1].no = all[i].no + 1
    <2> SUFFICES ASSUME NEW i \in 1..((k + m) - 1) PROVE all[i + 1].no = all[i].no + 1
      OBVIOUS
    <2>1. CASE i < k
      <3>1. i \in 1..(k - 1) /\ i \in 1..k /\ i + 1 \in 1..k
        BY <1>5, <2>1
      <3> QED BY <1>5, <1>8, <3>1
    <2>2. CASE i = k
      <3>1. k \in 1..k /\ 1 \in 1..m /\ k # 0 /\ m # 0
        BY <1>5, <2>2
      <3>2. all[i] = q[k] /\ all[i + 1] = u[1] /\ u[1].no = t[1].no
        BY <1>2, <1>5, <2>2, <3>1 DEF m
      <3> QED BY <1>10, <3>1, <3>2
    <2>3. CASE i > k
      <3>1. /\ i - k \in 1..(m - 1) /\ i - k \in 1..m /\ (i - k) + 1 \in 1..m
            /\ k + (i - k) = i /\ k + ((i - k) + 1) = i + 1
        BY <1>5, <2>3
      <3>2. all[i] = u[i - k] /\ all[i + 1] = u[(i - k) + 1]
        BY <1>5, <3>1
      <3> DEFINE g == i - k
      <3>5. g \in 1..(Len(u) - 1) /\ g \in 1..Len(u) /\ g + 1 \in 1..Len(u) /\ Len(t) = Len(u)
        BY <1>2, <3>1 DEF m
      <3> HIDE DEF g
      <3>3. u[g].no = t[g].no /\ u[g + 1].no = t[g + 1].no
        BY <1>2, <3>5
      <3>4. t[g + 1].no = t[g].no + 1
        BY <1>3, <3>5
      <3> QED BY <3>2, <3>3, <3>4 DEF g
    <2> QED BY <1>5, <2>1, <2>2, <2>3
  <1>13. all # <<>> =>
           /\ \E c \in 1..(n + 1) : \E i \in DOMAIN s[c].units : all[k + m].no = s[c].units[i].no
           /\ \A c \in 1..(n + 1) : \A i \in DOMAIN s[c].units : all[k + m].no >= s[c].units[i].no
    <2> SUFFICES ASSUME k + m # 0
                 PROVE  /\ \E c \in 1..(n + 1) : \E i \in DOMAIN s[c].units :
                               all[k + m].no = s[c].units[i].no
                        /\ \A c \in 1..(n + 1) : \A i \in DOMAIN s[c].units :
                               all[k + m].no >= s[c].units[i].no
      BY <1>5
    <2>1. CASE m = 0
      <3>1. k # 0 /\ k + m = k /\ k \in 1..k /\ all[k] = q[k] /\ q # <<>>
        BY <1>5, <2>1
      <3>2. \A i \in DOMAIN s[n + 1].units : FALSE
        BY <1>5, <2>1 DEF t
      <3>3. \A c \in 1..(n + 1) : c \in 1..n \/ c = n + 1
        BY <1>0
      <3>4. \A c \in 1..n : c \in 1..(n + 1)
        BY <1>0
      <3> QED BY <1>7, <3>1, <3>2, <3>3, <3>4
    <2>2. CASE m # 0
      <3>1. m \in DOMAIN t /\ m \in 1..m /\ all[k + m] = u[m]
        BY <1>5, <2>2
      <3>2. all[k + m].no = t[m].no /\ t[m].no \in Nat
        BY <1>2, <1>3, <3>1 DEF m
      <3>3. n + 1 \in 1..(n + 1) /\ \A c \in 1..(n + 1) : c \in 1..n \/ c = n + 1
        BY <1>0
      <3>4. \A c \in 1..n : \A i \in DOMAIN s[c].units : t[m].no >= s[c].units[i].no
        <4> SUFFICES ASSUME NEW c \in 1..n, NEW i \in DOMAIN s[c].units
                     PROVE  t[m].no >= s[c].units[i].no
          OBVIOUS
        <4>1. s[c].units[i].no \in Nat /\ s[c].units[i].no < t[m].no
          BY <1>3, <1>4, <1>9, <3>1
        <4> QED BY <3>2, <4>1
      <3>5. \A i \in DOMAIN t : t[m].no >= t[i].no
        <4> SUFFICES ASSUME NEW i \in DOMAIN t PROVE t[m].no >= t[i].no
          OBVIOUS
        <4>1. i \in 1..m /\ t[i].no \in Nat
          BY <1>3, <1>5
        <4>2. i < m => t[i].no < t[m].no
          <5>1. n + 1 \in DOMAIN s
            BY <1>0 DEF Streams
          <5>2. \A b \in 1..(n + 1) : \A j \in DOMAIN s[b].units :
                  b < n + 1 \/ j < m => s[b].units[j].no < t[m].no
            BY <3>1, <5>1 DEF Numbered, t
          <5> QED BY <3>3, <4>1, <5>2 DEF t
        <4> QED BY <1>5, <3>2, <4>1, <4>2
      <3> QED BY <3>1, <3>2, <3>3, <3>4, <3>5 DEF t
    <2> QED BY <2>1, <2>2
  <1>14. Line(all, s, n + 1, p)
    BY <1>0, <1>5, <1>11, <1>12, <1>13 DEF Line
  <1>15. ASSUME NEW current, Opened(q, current, s, n) PROVE Opened(all, current, s, n + 1)
    <2>1. ASSUME all # <<>>, current = <<>> PROVE all[1].no = 1
      <3>1. CASE k # 0
        <4>1. q # <<>> /\ 1 \in 1..k /\ all[1] = q[1]
          BY <1>5, <3>1
        <4> QED BY <1>15, <2>1, <4>1 DEF Opened
      <3>2. CASE k = 0
        <4>1. m # 0 /\ 1 \in 1..m /\ 1 \in DOMAIN t /\ k + 1 = 1 /\ t # <<>>
          BY <1>5, <2>1, <3>2
        <4>2. all[1] = u[1] /\ u[1].no = t[1].no
          BY <1>2, <1>5, <4>1 DEF m
        <4>3. \A b \in 1..n : DOMAIN s[b].units = {}
          BY <1>5, <1>15, <3>2 DEF Opened
        <4>4. t[1].no \in Nat /\ t[1].no >= 1 /\ ~(t[1].no > 1)
          BY <1>3, <1>4, <4>1, <4>3
        <4> QED BY <4>2, <4>4
      <3> QED BY <3>1, <3>2
    <2>2. ASSUME all = <<>> PROVE \A c \in 1..(n + 1) : s[c].units = <<>>
      <3>1. k = 0 /\ m = 0
        BY <1>5, <2>2
      <3>2. q = <<>> /\ t = <<>>
        BY <1>5, <3>1
      <3>3. \A c \in 1..n : s[c].units = <<>>
        BY <1>15, <3>2 DEF Opened
      <3>4. \A c \in 1..(n + 1) : c \in 1..n \/ c = n + 1
        BY <1>0
      <3> QED BY <3>2, <3>3, <3>4 DEF t
    <2> QED BY <2>1, <2>2 DEF Opened
  <1> QED BY <1>2, <1>14, <1>15 DEF all, u

-----------------------------------------------------------------------------
(* The line of each decoder, from the output back to the input. *)

Pipe(v) == Ready(v) \o v.tail.units \o v.input.units
AudioPipe(a) == a.pcm \o a.tail.units \o a.input.units

\* What the property calls shown and heard is the pipeline of the line.
LEMMA ShownIsPipe == Shown = Pipe(video) /\ Heard = AudioPipe(audio)
  BY DEF Shown, Heard, Pipe, AudioPipe, Ready

(* Every place of a line holds units. *)
LEMMA PlacesType ==
  ASSUME NEW v, VideoOK(v), NEW a, AudioOK(a)
  PROVE  /\ v.current \in Seq(Unit) /\ v.pending \in Seq(Unit) /\ v.frames \in Seq(Unit)
         /\ v.tail.units \in Seq(Unit) /\ v.input.units \in Seq(Unit)
         /\ v.tail \in Chunks /\ v.input \in Chunks /\ {"input", "tail"} \subseteq DOMAIN v
         /\ Ready(v) \in Seq(Unit) /\ Pipe(v) \in Seq(Unit)
         /\ a.pcm \in Seq(Unit) /\ a.tail.units \in Seq(Unit) /\ a.input.units \in Seq(Unit)
         /\ a.tail \in Chunks /\ a.input \in Chunks /\ {"input", "tail"} \subseteq DOMAIN a
         /\ AudioPipe(a) \in Seq(Unit)
  <1>1. /\ v.current \in Seq(Unit) /\ v.pending \in Seq(Unit) /\ v.frames \in Seq(Unit)
        /\ v.tail \in Chunks /\ v.input \in Chunks /\ {"input", "tail"} \subseteq DOMAIN v
    BY DEF VideoOK, VideoType, AtMostOne, Chunks
  <1>2. /\ a.pcm \in Seq(Unit) /\ a.tail \in Chunks /\ a.input \in Chunks
        /\ {"input", "tail"} \subseteq DOMAIN a
    BY DEF AudioOK, AudioType, Chunks
  <1>3. \A c \in Chunks : c.units \in Seq(Unit)
    BY DEF Chunks, ChunkOf
  <1>4. \A q \in Seq(Unit), r \in Seq(Unit) : q \o r \in Seq(Unit)
    BY LinesJoin
  <1>5. Ready(v) \in Seq(Unit)
    BY <1>1, <1>4 DEF Ready
  <1>6. Pipe(v) \in Seq(Unit)
    BY <1>1, <1>3, <1>4, <1>5 DEF Pipe
  <1>7. AudioPipe(a) \in Seq(Unit)
    BY <1>2, <1>3, <1>4 DEF AudioPipe
  <1> QED BY <1>1, <1>2, <1>3, <1>5, <1>6, <1>7

(* What moves no unit keeps the line. *)
LEMMA MovesPipe ==
  ASSUME NEW v, NEW w, Moves(v, w)
  PROVE  Pipe(w) = Pipe(v) /\ w.current = v.current
  BY DEF Moves, Pipe

(* finish_dma appends what it decoded to the queue and stages one picture. *)
LEMMA QueueReady ==
  ASSUME NEW v, VideoOK(v), NEW units \in Seq(Unit)
  PROVE  LET w == QueuePictures(v, units)
         IN  /\ Ready(w) = Ready(v) \o units
             /\ w.current = v.current /\ w.tail = v.tail /\ w.input = v.input
  <1> DEFINE d == Decoded(v, units)
             w == Prime(d)
  <1>1. VideoOK(d)
    <2>1. PrimingDelay \in Deadline
      BY DvcAssumption DEF Deadline
    <2>2. v.frames \o units \in Seq(Unit)
      BY DEF VideoOK, VideoType
    <2>3. d \in VideoType
      BY <2>1, <2>2 DEF Decoded, VideoOK, VideoType
    <2>4. VideoFacts(d)
      BY DEF Decoded, VideoOK, VideoType, VideoFacts
    <2> QED BY <2>3, <2>4 DEF VideoOK
  <1>2. /\ d.current = v.current /\ d.pending = v.pending /\ d.frames = v.frames \o units
        /\ d.tail = v.tail /\ d.input = v.input
    BY DEF Decoded, VideoOK, VideoType
  <1>3. QueuePictures(v, units) = [w EXCEPT !.reported = FALSE]
    BY DEF QueuePictures
  <1> HIDE DEF d
  <1>4. Moves(d, w) /\ VideoOK(w)
    BY <1>1, PrimeMoves, PrimeOK
  <1> HIDE DEF w
  <1>5. Moves(d, QueuePictures(v, units))
    <2> DEFINE x == [w EXCEPT !.reported = FALSE]
    <2>1. /\ x.current = w.current /\ x.pending = w.pending /\ x.frames = w.frames
          /\ x.tail = w.tail /\ x.input = w.input
      BY <1>4 DEF VideoOK, VideoType
    <2> HIDE DEF x
    <2>2. Moves(d, x)
      BY <1>4, <2>1, StillMoves, MovesTwice
    <2> QED BY <1>3, <2>2 DEF x
  <1>6. Ready(d) = Ready(v) \o units
    <2>1. /\ v.current \in Seq(Unit) /\ v.pending \in Seq(Unit) /\ v.frames \in Seq(Unit)
      BY DEF VideoOK, VideoType, AtMostOne
    <2>2. (v.current \o v.pending) \o (v.frames \o units) = ((v.current \o v.pending) \o v.frames) \o units
      <3>1. v.current \o v.pending \in Seq(Unit)
        BY <2>1, CatJoins, Zenon DEF Cat
      <3> DEFINE shown == v.current \o v.pending
                 queued == v.frames
      <3>2. shown \in Seq(Unit) /\ queued \in Seq(Unit)
        BY <2>1, <3>1
      <3> HIDE DEF shown, queued
      <3>3. Cat(shown, Cat(queued, units)) = Cat(Cat(shown, queued), units)
        BY <3>2, CatJoins
      <3>4. shown \o (queued \o units) = (shown \o queued) \o units
        BY <3>3, Zenon DEF Cat
      <3> QED BY <3>4, Zenon DEF shown, queued
    <2> QED BY <1>2, <2>2 DEF Ready
  <1> QED BY <1>2, <1>5, <1>6 DEF Moves

(* What is parsed goes from the head of the demultiplexer to the end of the *)
(* queue.                                                                   *)
LEMMA LineShift ==
  ASSUME NEW q \in Seq(Unit), NEW u \in Seq(Unit), NEW t1 \in Seq(Unit), NEW n1 \in Seq(Unit),
         NEW t \in Seq(Unit), NEW n \in Seq(Unit), Cat(Cat(u, t1), n1) = Cat(t, n)
  PROVE  Cat(Cat(Cat(q, u), t1), n1) = Cat(Cat(q, t), n)
  <1>1. Cat(u, t1) \in Seq(Unit)
    BY CatJoins
  <1>2. Cat(Cat(q, u), t1) = Cat(q, Cat(u, t1))
    BY CatJoins
  <1>3. Cat(Cat(q, Cat(u, t1)), n1) = Cat(q, Cat(Cat(u, t1), n1))
    BY <1>1, CatJoins
  <1>4. Cat(Cat(q, t), n) = Cat(q, Cat(t, n))
    BY CatJoins
  <1> QED BY <1>2, <1>3, <1>4, Zenon

(* What is submitted goes to the end of the line. *)
LEMMA LineAppend ==
  ASSUME NEW q \in Seq(Unit), NEW t \in Seq(Unit), NEW n \in Seq(Unit), NEW u \in Seq(Unit)
  PROVE  Cat(Cat(q, t), Cat(n, u)) = Cat(Cat(Cat(q, t), n), u)
  <1>1. Cat(q, t) \in Seq(Unit)
    BY CatJoins
  <1> QED BY <1>1, CatJoins

(* What the output takes goes from the front of the line. *)
LEMMA LineFront ==
  ASSUME NEW front \in Seq(Unit), NEW q \in Seq(Unit), NEW t \in Seq(Unit), NEW n \in Seq(Unit)
  PROVE  Cat(Cat(Cat(front, q), t), n) = Cat(front, Cat(Cat(q, t), n))
  <1>1. Cat(q, t) \in Seq(Unit)
    BY CatJoins
  <1>2. Cat(Cat(front, q), t) = Cat(front, Cat(q, t))
    BY CatJoins
  <1>3. Cat(Cat(front, Cat(q, t)), n) = Cat(front, Cat(Cat(q, t), n))
    BY <1>1, CatJoins
  <1> QED BY <1>2, <1>3, Zenon

(* A DMA completion keeps the picture line. *)
LEMMA FinishVideoPipe ==
  ASSUME Rest, NEW torn \in BOOLEAN, FinishVideo(torn)
  PROVE  Pipe(video') = Pipe(video) /\ video'.current = video.current
  <1> DEFINE p == Parsed(video, torn)
             demuxed == Feed(video, torn)
             clock == IF demuxed.armed /\ demuxed.scr # None THEN Anchored(stc, demuxed.scr) ELSE stc
             scheduled == ScheduleStart(demuxed, clock)
             ended == IF p.sequence_end THEN SequenceEnd(scheduled, clock) ELSE scheduled
             closed == IF p.program_end THEN SignalVideoEnd(ended) ELSE ended
             u == p.units
             t1 == demuxed.tail.units
             n1 == demuxed.input.units
             t == video.tail.units
             n == video.input.units
  <1>1. video' = IF u = <<>> THEN closed ELSE QueuePictures(closed, u)
    BY DEF FinishVideo
  <1>2. /\ u \in Seq(Unit) /\ t1 \in Seq(Unit) /\ n1 \in Seq(Unit)
        /\ (u \o t1) \o n1 = t \o n
    BY PlacesType, DemuxKeepsOrder DEF Rest
  <1>3. VideoOK(demuxed)
    BY FeedVideo DEF Rest
  <1>4. Ready(demuxed) = Ready(video) /\ demuxed.current = video.current
    BY DEF Feed, Ready, Rest, VideoOK, VideoType
  <1>5. t \in Seq(Unit) /\ n \in Seq(Unit) /\ Ready(video) \in Seq(Unit)
    BY PlacesType DEF Rest
  <1> HIDE DEF p, demuxed
  <1>6. clock \in Deadline
    <2>1. demuxed.scr \in Deadline /\ stc \in Deadline
      BY <1>3 DEF VideoOK, VideoType, Rest, TypeOK
    <2> QED BY <2>1, ClockTypes DEF Anchored
  <1> HIDE DEF clock
  <1>7. VideoOK(scheduled) /\ Moves(demuxed, scheduled)
    BY <1>3, <1>6, ScheduleOK, FlagsMove
  <1> HIDE DEF scheduled
  <1>8. VideoOK(ended) /\ Moves(demuxed, ended)
    BY <1>6, <1>7, SequenceEndOK, FlagsMove, MovesTwice
  <1>9. VideoOK(closed)
    <2>1. ended.isr \in {scheduled.isr, scheduled.isr \cup {"esi"}}
      BY <1>6, <1>7, SequenceEndOK
    <2> HIDE DEF ended
    <2> QED BY <1>8, SignalEndOK
  <1> HIDE DEF ended
  <1>10. Moves(demuxed, closed)
    BY <1>8, FlagsMove, MovesTwice
  <1> HIDE DEF closed
  <1>11. /\ Ready(video') = Ready(video) \o u
         /\ video'.tail.units = t1 /\ video'.input.units = n1
         /\ video'.current = video.current
    <2>1. Ready(closed) = Ready(video) /\ closed.current = video.current
      BY <1>4, <1>10 DEF Moves
    <2>2. closed.tail.units = t1 /\ closed.input.units = n1
      BY <1>10 DEF Moves
    <2>3. Ready(video) \o <<>> = Ready(video)
      BY <1>5, LinesJoin, Zenon
    <2> HIDE DEF t1, n1, u
    <2>4. CASE u = <<>>
      <3>1. video' = closed
        BY <1>1, <2>4
      <3> QED BY <2>1, <2>2, <2>3, <2>4, <3>1
    <2>5. CASE u # <<>>
      <3>1. video' = QueuePictures(closed, u)
        BY <1>1, <2>5
      <3>2. /\ Ready(video') = Ready(closed) \o u
            /\ video'.current = closed.current /\ video'.tail = closed.tail /\ video'.input = closed.input
        BY <1>2, <1>9, <3>1, QueueReady
      <3> QED BY <2>1, <2>2, <3>2
    <2> QED BY <2>4, <2>5
  <1> HIDE DEF u, t1, n1, t, n
  <1>12. ((Ready(video) \o u) \o t1) \o n1 = (Ready(video) \o t) \o n
    <2>1. /\ Ready(video) \in Seq(Unit) /\ u \in Seq(Unit) /\ t1 \in Seq(Unit)
          /\ n1 \in Seq(Unit) /\ t \in Seq(Unit) /\ n \in Seq(Unit)
      BY <1>2, <1>5
    <2>2. Cat(Cat(u, t1), n1) = Cat(t, n)
      BY <1>2, Zenon DEF Cat
    <2>3. Cat(Cat(Cat(Ready(video), u), t1), n1) = Cat(Cat(Ready(video), t), n)
      BY <2>1, <2>2, LineShift
    <2> QED BY <2>3, Zenon DEF Cat
  <1> QED BY <1>11, <1>12 DEF Pipe, t, n

(* A DMA completion keeps the line of samples. *)
LEMMA FinishAudioPipe ==
  ASSUME Rest, NEW torn \in BOOLEAN, FinishAudio(torn)
  PROVE  AudioPipe(audio') = AudioPipe(audio)
  <1> DEFINE p == Parsed(audio, torn)
             demuxed == Feed(audio, torn)
             clock == IF demuxed.armed /\ demuxed.scr # None THEN Anchored(stc, demuxed.scr) ELSE stc
             closed == IF p.program_end THEN SignalAudioEnd(demuxed) ELSE demuxed
             u == p.units
             t1 == demuxed.tail.units
             n1 == demuxed.input.units
             t == audio.tail.units
             n == audio.input.units
  <1>1. audio' = IF u = <<>> THEN closed ELSE DecodeAudio(closed, u, clock)
    BY DEF FinishAudio
  <1>2. /\ u \in Seq(Unit) /\ t1 \in Seq(Unit) /\ n1 \in Seq(Unit)
        /\ (u \o t1) \o n1 = t \o n
    BY PlacesType, DemuxKeepsOrder DEF Rest
  <1>3. AudioOK(demuxed) /\ demuxed.pcm = audio.pcm
    <2>1. AudioOK(demuxed)
      BY FeedAudio DEF Rest
    <2>2. demuxed.pcm = audio.pcm
      BY DEF Feed, Rest, AudioOK, AudioType
    <2> QED BY <2>1, <2>2
  <1>4. t \in Seq(Unit) /\ n \in Seq(Unit) /\ audio.pcm \in Seq(Unit)
    BY PlacesType DEF Rest
  <1> HIDE DEF p, demuxed, clock
  <1>5. /\ closed \in AudioType /\ closed.pcm = audio.pcm
        /\ closed.tail = demuxed.tail /\ closed.input = demuxed.input
    <2>1. closed \in AudioType
      BY <1>3, SignalAudioEndOK DEF AudioOK
    <2> QED BY <1>3, <2>1 DEF SignalAudioEnd, AudioOK, AudioType
  <1> HIDE DEF closed
  <1>6. /\ audio'.pcm = audio.pcm \o u
        /\ audio'.tail.units = t1 /\ audio'.input.units = n1
    <2>1. audio.pcm \o <<>> = audio.pcm
      BY <1>4, LinesJoin
    <2>2. CASE u = <<>>
      BY <1>1, <1>5, <2>1, <2>2
    <2>3. CASE u # <<>>
      BY <1>1, <1>5, <2>3 DEF DecodeAudio, AudioType
    <2> QED BY <2>2, <2>3
  <1> HIDE DEF u, t1, n1, t, n
  <1>7. ((audio.pcm \o u) \o t1) \o n1 = (audio.pcm \o t) \o n
    <2>1. /\ audio.pcm \in Seq(Unit) /\ u \in Seq(Unit) /\ t1 \in Seq(Unit)
          /\ n1 \in Seq(Unit) /\ t \in Seq(Unit) /\ n \in Seq(Unit)
      BY <1>2, <1>4
    <2>2. Cat(Cat(u, t1), n1) = Cat(t, n)
      BY <1>2, Zenon DEF Cat
    <2>3. Cat(Cat(Cat(audio.pcm, u), t1), n1) = Cat(Cat(audio.pcm, t), n)
      BY <2>1, <2>2, LineShift
    <2> QED BY <2>3, Zenon DEF Cat
  <1> QED BY <1>6, <1>7 DEF AudioPipe, t, n

(* VSYNC takes the picture that was displayed from the front and displays   *)
(* the staged one.                                                          *)
LEMMA LatchPipe ==
  ASSUME NEW v, VideoOK(v), v.pending # <<>>
  PROVE  LET w == Latch(v)
         IN  /\ w.current # <<>>
             /\ Pipe(v) = v.current \o Pipe(w)
  <1> DEFINE shown == [v EXCEPT !.current = v.pending, !.pending = <<>>,
                                !.isr = IF v.pending[1].last THEN @ \cup {"lpd"} ELSE @,
                                !.last_due = IF v.pending[1].last THEN None ELSE @]
             updated == IF v.update = "picture" THEN CompleteUpdate(shown) ELSE shown
             w == RaiseVideoUnderflow(updated)
  <1>1. Latch(v) = w
    BY DEF Latch
  <1>2. /\ shown.current = v.pending /\ shown.pending = <<>> /\ shown.frames = v.frames
        /\ shown.tail = v.tail /\ shown.input = v.input
    BY DEF VideoOK, VideoType
  <1>3. VideoOK(shown)
    <2>1. shown \in VideoType
      <3>1. v.isr \cup {"lpd"} \in SUBSET FmvStatus
        BY DEF VideoOK, VideoType, FmvStatus
      <3> QED BY <3>1, EmptyQueues DEF VideoOK, VideoType
    <2>2. VideoFacts(shown)
      BY DEF VideoOK, VideoType, VideoFacts
    <2> QED BY <2>1, <2>2 DEF VideoOK
  <1> HIDE DEF shown
  <1>4. VideoOK(updated) /\ Moves(shown, updated)
    BY <1>3, CompleteUpdateOK, FlagsMove DEF Moves
  <1> HIDE DEF updated
  <1>5. Moves(shown, w)
    BY <1>4, FlagsMove, MovesTwice
  <1> HIDE DEF w
  <1>6. w.current = v.pending /\ Pipe(w) = Pipe(shown)
    BY <1>2, <1>5, MovesPipe
  <1>7. Pipe(v) = v.current \o Pipe(shown)
    <2> DEFINE c == v.current
               p == v.pending
               f == v.frames
               t == v.tail.units
               n == v.input.units
    <2>1. c \in Seq(Unit) /\ p \in Seq(Unit) /\ f \in Seq(Unit) /\ t \in Seq(Unit) /\ n \in Seq(Unit)
      BY PlacesType DEF AudioOK, VideoOK, VideoType, AtMostOne, ChunkOf
    <2>2. Pipe(v) = (((c \o p) \o f) \o t) \o n
      BY DEF Pipe, Ready
    <2>3. Pipe(shown) = (((p \o <<>>) \o f) \o t) \o n
      BY <1>2 DEF Pipe, Ready
    <2> HIDE DEF c, p, f, t, n
    <2>4. p \o <<>> = p /\ p \o f \in Seq(Unit) /\ (c \o p) \o f = c \o (p \o f)
      <3>1. Cat(p, <<>>) = p /\ Cat(p, f) \in Seq(Unit) /\ Cat(Cat(c, p), f) = Cat(c, Cat(p, f))
        BY <2>1, CatJoins
      <3> QED BY <3>1, Zenon DEF Cat
    <2> DEFINE q == p \o f
    <2>5. q \in Seq(Unit) /\ Pipe(v) = ((c \o q) \o t) \o n /\ Pipe(shown) = (q \o t) \o n
      BY <2>2, <2>3, <2>4, Zenon
    <2> HIDE DEF q
    <2>6. Cat(Cat(Cat(c, q), t), n) = Cat(c, Cat(Cat(q, t), n))
      BY <2>1, <2>5, LineFront
    <2>7. Pipe(v) = c \o Pipe(shown)
      BY <2>5, <2>6, Zenon DEF Cat
    <2> QED BY <2>7 DEF c
  <1> QED BY <1>1, <1>6, <1>7

(* A line cut in two. *)
LEMMA LineSplit ==
  ASSUME NEW q \in Seq(Unit), NEW k \in 0..Len(q)
  PROVE  q = SubSeq(q, 1, k) \o SubSeq(q, k + 1, Len(q))
  <1> DEFINE front == SubSeq(q, 1, k)
             rest == SubSeq(q, k + 1, Len(q))
             both == front \o rest
  <1>1. /\ front \in Seq(Unit) /\ Len(front) = k /\ \A i \in 1..k : front[i] = q[i]
    BY SubSeqProperties
  <1>2. /\ rest \in Seq(Unit) /\ Len(rest) = Len(q) - k
        /\ \A i \in 1..(Len(q) - k) : rest[i] = q[k + i]
    OBVIOUS
  <1> HIDE DEF front, rest
  <1>0. Len(q) \in Nat /\ k \in Nat
    OBVIOUS
  <1>a. /\ both \in Seq(Unit) /\ Len(both) = Len(front) + Len(rest)
        /\ \A i \in 1..(Len(front) + Len(rest)) :
              both[i] = IF i <= Len(front) THEN front[i] ELSE rest[i - Len(front)]
    BY <1>1, <1>2, ConcatProperties
  <1> HIDE DEF both
  <1>3. /\ both \in Seq(Unit) /\ Len(both) = Len(q)
        /\ \A i \in 1..Len(q) : both[i] = IF i <= k THEN front[i] ELSE rest[i - k]
    BY <1>0, <1>1, <1>2, <1>a
  <1>4. ASSUME NEW i \in 1..Len(q) PROVE q[i] = both[i]
    <2>1. CASE i <= k
      <3>1. i \in 1..k /\ both[i] = front[i]
        BY <1>0, <1>3, <2>1
      <3> QED BY <1>1, <3>1
    <2>2. CASE i > k
      <3>1. i - k \in 1..(Len(q) - k) /\ k + (i - k) = i /\ both[i] = rest[i - k]
        BY <1>0, <1>3, <2>2
      <3>2. rest[i - k] = q[k + (i - k)]
        BY <1>2, <3>1
      <3> QED BY <3>1, <3>2
    <2> QED BY <1>0, <2>1, <2>2
  <1>5. q = both
    BY <1>3, <1>4, SeqEqual
  <1> QED BY <1>5 DEF both, front, rest

(* A sample period takes samples from the front, the rest of a tick takes   *)
(* none.                                                                    *)
LEMMA TickAudioPipe ==
  ASSUME NEW a, AudioOK(a), NEW edges
  PROVE  \E front \in Seq(Unit) : AudioPipe(a) = front \o AudioPipe(TickAudio(a, edges))
  <1> DEFINE b == StartAudio(a, edges)
             d == Drain(b, edges)
             r == RaiseAudioUnderflow(d)
  <1>1. TickAudio(a, edges) = IF b.enabled THEN r ELSE b
    BY DEF TickAudio
  <1>2. AudioOK(b) /\ b.pcm = a.pcm /\ b.tail = a.tail /\ b.input = a.input
    BY StartAudioOK DEF StartAudio, AudioOK, AudioType
  <1> DEFINE n == b.input.units
             t == b.tail.units
  <1> HIDE DEF b
  <1>3. b.pcm \in Seq(Unit) /\ t \in Seq(Unit) /\ n \in Seq(Unit)
    BY <1>2 DEF AudioOK, AudioType, ChunkOf
  <1>4. AudioPipe(a) = (b.pcm \o t) \o n
    BY <1>2 DEF AudioPipe
  <1>5. CASE ~b.enabled
    <2>1. AudioPipe(a) \in Seq(Unit)
      BY <1>3, <1>4
    <2>2. AudioPipe(b) = AudioPipe(a)
      BY <1>4 DEF AudioPipe
    <2>3. AudioPipe(a) = <<>> \o AudioPipe(a)
      BY <2>1, LinesJoin
    <2> QED BY <1>1, <1>5, <2>2, <2>3, EmptyQueues
  <1>6. CASE b.enabled
    <2>1. PICK k \in 0..Len(b.pcm) :
            /\ d.pcm = SubSeq(b.pcm, k + 1, Len(b.pcm)) /\ d.tail = b.tail /\ d.input = b.input
      <3> DEFINE owed == IF "sample" \in edges /\ b.owed < MaxOwed THEN b.owed + 1 ELSE b.owed
                 played == IF owed <= Len(b.pcm) THEN owed ELSE Len(b.pcm)
      <3>1. owed \in Nat
        BY <1>2, DvcAssumption DEF AudioOK, AudioType
      <3>2. d = [b EXCEPT !.owed = owed - played, !.pcm = SubSeq(b.pcm, played + 1, Len(b.pcm))]
        BY DEF Drain
      <3> HIDE DEF owed, d
      <3>3. played \in 0..Len(b.pcm)
        BY <1>3, <3>1
      <3> HIDE DEF played
      <3>4. /\ d.pcm = SubSeq(b.pcm, played + 1, Len(b.pcm))
            /\ d.tail = b.tail /\ d.input = b.input
        BY <1>2, <3>2 DEF AudioOK, AudioType
      <3> QED BY <3>3, <3>4
    <2>2. r.pcm = d.pcm /\ r.tail = d.tail /\ r.input = d.input
      <3>1. AudioOK(d)
        BY <1>2, DrainOK
      <3> HIDE DEF d
      <3> QED BY <3>1 DEF RaiseAudioUnderflow, AudioOK, AudioType
    <2> DEFINE front == SubSeq(b.pcm, 1, k)
               rest == SubSeq(b.pcm, k + 1, Len(b.pcm))
    <2>3. front \in Seq(Unit) /\ rest \in Seq(Unit) /\ b.pcm = front \o rest
      <3> DEFINE q == b.pcm
      <3>1. q \in Seq(Unit) /\ k \in 0..Len(q)
        BY <1>3
      <3> HIDE DEF q
      <3>2. SubSeq(q, 1, k) \in Seq(Unit) /\ SubSeq(q, k + 1, Len(q)) \in Seq(Unit)
        BY <3>1
      <3>3. q = SubSeq(q, 1, k) \o SubSeq(q, k + 1, Len(q))
        BY <3>1, LineSplit
      <3> QED BY <3>2, <3>3 DEF q
    <2>4. AudioPipe(r) = (rest \o t) \o n
      BY <2>1, <2>2 DEF AudioPipe
    <2> HIDE DEF front, rest, r, n, t, d
    <2>5. AudioPipe(a) = ((front \o rest) \o t) \o n
      BY <1>4, <2>3, Zenon
    <2>6. Cat(Cat(Cat(front, rest), t), n) = Cat(front, Cat(Cat(rest, t), n))
      BY <1>3, <2>3, LineFront
    <2>7. AudioPipe(a) = front \o AudioPipe(r)
      BY <2>4, <2>5, <2>6, Zenon DEF Cat
    <2> QED BY <1>1, <1>6, <2>3, <2>7, Zenon
  <1> QED BY <1>5, <1>6

-----------------------------------------------------------------------------
(* StreamsInOrder is LineInv with what the two lines may still hold of the  *)
(* play, which makes it inductive: a push needs to know that the last unit  *)
(* of the line is the last one submitted.                                   *)

VideoLine(v, s, n, p) == Line(Pipe(v), s, n, p) /\ Opened(Pipe(v), v.current, s, n)
AudioLine(a, s, n, p) == Line(AudioPipe(a), s, n, p)

LineInv ==
    /\ VideoLine(video, title.video, fed.video, play.video)
    /\ AudioLine(audio, title.audio, fed.audio, play.audio)

\* The streams of a title are numbered in their order.
LEMMA TitleStreams ==
  ASSUME TypeOK
  PROVE  /\ title.video \in Streams /\ title.audio \in Streams
         /\ Numbered(title.video) /\ Numbered(title.audio)
  BY DvcAssumption DEF TypeOK, Streams

(* A line keeps its facts while nothing leaves it. *)
LEMMA LinesStay ==
  ASSUME NEW s, NEW n, NEW p, NEW v, NEW w, Pipe(w) = Pipe(v), w.current = v.current,
         VideoLine(v, s, n, p)
  PROVE  VideoLine(w, s, n, p)
  BY DEF VideoLine

(* The next sector goes to the end of the picture line. *)
LEMMA PushVideoLine ==
  ASSUME Rest, LineInv, PushVideo
  PROVE  LineInv'
  <1> DEFINE s == title.video
             n == fed.video
             p == play.video
             u == Submitted(s[n + 1], p).units
  <1>1. s \in Streams /\ Numbered(s) /\ n \in 0..(Len(s) - 1) /\ p \in Plays
    BY TitleStreams DEF Rest, TypeOK, PushVideo, Streams
  <1>2. Line(Pipe(video), s, n, p) /\ Opened(Pipe(video), video.current, s, n)
    BY DEF LineInv, VideoLine
  <1>3. Pipe(video) \in Seq(Unit)
    BY PlacesType DEF Rest
  <1> HIDE DEF s, n, p
  <1>4. /\ u \in Seq(Unit)
        /\ Line(Pipe(video) \o u, s, n + 1, p)
        /\ Opened(Pipe(video) \o u, video.current, s, n + 1)
    BY <1>1, <1>2, <1>3, LinePush
  <1>5. /\ video'.current = video.current /\ video'.pending = video.pending
        /\ video'.frames = video.frames /\ video'.tail = video.tail
        /\ video'.input.units = video.input.units \o u
    BY DEF PushVideo, NextSector, Join, Rest, VideoOK, VideoType, s, n, p
  <1>6. /\ Ready(video) \in Seq(Unit) /\ video.tail.units \in Seq(Unit)
        /\ video.input.units \in Seq(Unit)
    BY PlacesType DEF Rest
  <1> HIDE DEF u
  <1>7. Cat(Cat(Ready(video), video.tail.units), Cat(video.input.units, u))
          = Cat(Cat(Cat(Ready(video), video.tail.units), video.input.units), u)
    BY <1>4, <1>6, LineAppend
  <1>8. Pipe(video') = Pipe(video) \o u
    <2>1. Ready(video') = Ready(video)
      BY <1>5 DEF Ready
    <2>2. Pipe(video') = Cat(Cat(Ready(video), video.tail.units), Cat(video.input.units, u))
      BY <1>5, <2>1, Zenon DEF Pipe, Cat
    <2>3. Pipe(video) \o u = Cat(Cat(Cat(Ready(video), video.tail.units), video.input.units), u)
      BY Zenon DEF Pipe, Cat
    <2> QED BY <1>7, <2>2, <2>3
  <1>9. VideoLine(video', s, n + 1, p)
    BY <1>4, <1>5, <1>8, Zenon DEF VideoLine
  <1>10. /\ title' = title /\ play' = play /\ audio' = audio
         /\ fed'.video = fed.video + 1 /\ fed'.audio = fed.audio
    BY DEF PushVideo, Rest, TypeOK
  <1> QED BY <1>9, <1>10 DEF LineInv, s, n, p

(* The next sector goes to the end of the line of samples. *)
LEMMA PushAudioLine ==
  ASSUME Rest, LineInv, PushDma, dma_target = "audio"
  PROVE  LineInv'
  <1> DEFINE s == title.audio
             n == fed.audio
             p == play.audio
             u == Submitted(s[n + 1], p).units
  <1>1. s \in Streams /\ Numbered(s) /\ n \in 0..(Len(s) - 1) /\ p \in Plays
    BY TitleStreams DEF Rest, TypeOK, PushDma, Streams
  <1>2. Line(AudioPipe(audio), s, n, p)
    BY DEF LineInv, AudioLine
  <1>3. AudioPipe(audio) \in Seq(Unit)
    BY PlacesType DEF Rest
  <1> HIDE DEF s, n, p
  <1>4. u \in Seq(Unit) /\ Line(AudioPipe(audio) \o u, s, n + 1, p)
    BY <1>1, <1>2, <1>3, LinePush
  <1>5. /\ audio'.pcm = audio.pcm /\ audio'.tail = audio.tail
        /\ audio'.input.units = audio.input.units \o u
    <2>1. audio' = [audio EXCEPT !.input = Join(audio.input, NextSector("audio"))]
      BY DEF PushDma
    <2>2. audio \in AudioType
      BY DEF Rest, AudioOK
    <2>3. NextSector("audio").units = u
      BY DEF NextSector, s, n, p
    <2> HIDE DEF u
    <2> QED BY <2>1, <2>2, <2>3 DEF Join, AudioType
  <1>6. /\ audio.pcm \in Seq(Unit) /\ audio.tail.units \in Seq(Unit)
        /\ audio.input.units \in Seq(Unit)
    BY PlacesType DEF Rest
  <1> HIDE DEF u
  <1>7. Cat(Cat(audio.pcm, audio.tail.units), Cat(audio.input.units, u))
          = Cat(Cat(Cat(audio.pcm, audio.tail.units), audio.input.units), u)
    BY <1>4, <1>6, LineAppend
  <1>8. AudioPipe(audio') = AudioPipe(audio) \o u
    <2>1. AudioPipe(audio') = Cat(Cat(audio.pcm, audio.tail.units), Cat(audio.input.units, u))
      BY <1>5, Zenon DEF AudioPipe, Cat
    <2>2. AudioPipe(audio) \o u = Cat(Cat(Cat(audio.pcm, audio.tail.units), audio.input.units), u)
      BY Zenon DEF AudioPipe, Cat
    <2> QED BY <1>7, <2>1, <2>2
  <1>9. AudioLine(audio', s, n + 1, p)
    BY <1>4, <1>8, Zenon DEF AudioLine
  <1>10. /\ title' = title /\ play' = play /\ video' = video
         /\ fed'.audio = fed.audio + 1 /\ fed'.video = fed.video
    BY DEF PushDma, Rest, TypeOK
  <1> QED BY <1>9, <1>10 DEF LineInv, s, n, p

(* An empty line is one of a play that was given nothing yet. *)
LEMMA EmptyLine ==
  ASSUME NEW s \in Streams, NEW p
  PROVE  /\ \A v : Pipe(v) = <<>> => VideoLine(v, s, 0, p)
         /\ \A a : AudioPipe(a) = <<>> => AudioLine(a, s, 0, p)
  BY LineEmpty DEF VideoLine, AudioLine

(* What the flushes leave. *)
LEMMA FlushedLines ==
  /\ \A d : Pipe(ResetVideo(d)) = <<>> /\ AudioPipe(ResetAudio(d)) = <<>>
  /\ \A v : Pipe(ResetDecoder(v)) = <<>>
  <1>1. Nothing.units = <<>> /\ <<>> \o <<>> = <<>>
    BY EmptyQueues, LinesJoin DEF Nothing
  <1>2. ASSUME NEW d PROVE Pipe(ResetVideo(d)) = <<>> /\ AudioPipe(ResetAudio(d)) = <<>>
    BY <1>1 DEF Pipe, Ready, AudioPipe, ResetVideo, ResetAudio
  <1>3. ASSUME NEW v PROVE Pipe(ResetDecoder(v)) = <<>>
    <2> DEFINE w == ResetDecoder(v)
    <2>1. /\ w.current = <<>> /\ w.pending = <<>> /\ w.frames = <<>>
          /\ w.tail = Nothing /\ w.input = Nothing
      BY DEF ResetDecoder, ResetVideo
    <2> HIDE DEF w
    <2>2. Pipe(w) = <<>>
      BY <1>1, <2>1 DEF Pipe, Ready
    <2> QED BY <2>2 DEF w
  <1> QED BY <1>2, <1>3

(* The system command empties the picture line and starts a new play, or    *)
(* keeps both.                                                              *)
LEMMA SystemLine ==
  ASSUME Rest, LineInv, NEW c \in SUBSET SystemCommands, SystemCommand(c)
  PROVE  LineInv'
  <1>1. PICK w : /\ Moves(w, video')
                 /\ "reset" \notin c => w = video
                 /\ "reset" \in c => \E v : w = ResetDecoder(v)
    BY SystemMoves
  <1>2. Pipe(video') = Pipe(w) /\ video'.current = w.current
    BY <1>1, MovesPipe
  <1>3. audio' = audio /\ title' = title
    BY DEF SystemCommand
  <1>4. CASE "reset" \notin c
    <2>1. fed' = fed /\ play' = play
      BY <1>4 DEF SystemCommand
    <2> QED BY <1>1, <1>2, <1>3, <1>4, <2>1, LinesStay DEF LineInv
  <1>5. CASE "reset" \in c
    <2>1. /\ fed'.video = 0 /\ fed'.audio = fed.audio /\ play'.audio = play.audio
      BY <1>5 DEF SystemCommand, Rest, TypeOK
    <2>2. Pipe(video') = <<>>
      BY <1>1, <1>2, <1>5, FlushedLines
    <2>3. VideoLine(video', title.video, 0, play'.video)
      BY <2>2, TitleStreams, EmptyLine DEF Rest
    <2> QED BY <1>3, <2>1, <2>3 DEF LineInv
  <1> QED BY <1>4, <1>5

(* The audio command empties the line of samples and starts a new play, or  *)
(* keeps both.                                                              *)
LEMMA AudioCommandLine ==
  ASSUME Rest, LineInv, NEW c \in SUBSET AudioCommands, AudioCommand(c)
  PROVE  LineInv'
  <1> DEFINE stopped == IF "stop" \in c THEN StopAudio(audio) ELSE audio
             armed == IF "play" \in c THEN [stopped EXCEPT !.armed = TRUE] ELSE stopped
  <1>1. /\ audio' = IF "dma" \in c THEN [armed EXCEPT !.reported = FALSE] ELSE armed
        /\ fed' = IF "stop" \in c THEN [fed EXCEPT !.audio = 0] ELSE fed
        /\ play' = IF "stop" \in c THEN [play EXCEPT !.audio = 1 - @] ELSE play
        /\ UNCHANGED <<video, title>>
    BY DEF AudioCommand
  <1>2. stopped \in AudioType
    BY StopAudioOK DEF Rest, AudioOK
  <1>3. AudioPipe(stopped) = IF "stop" \in c THEN <<>> ELSE AudioPipe(audio)
    <2>1. CASE "stop" \in c
      <3>1. stopped.pcm = <<>> /\ stopped.tail = Nothing /\ stopped.input = Nothing
        BY <2>1 DEF StopAudio, Rest, AudioOK, AudioType
      <3>2. Nothing.units = <<>> /\ <<>> \o <<>> = <<>>
        BY EmptyQueues, LinesJoin DEF Nothing
      <3> HIDE DEF stopped
      <3> QED BY <2>1, <3>1, <3>2 DEF AudioPipe
    <2>2. CASE "stop" \notin c
      BY <2>2
    <2> QED BY <2>1, <2>2
  <1> HIDE DEF stopped
  <1>4. /\ armed \in AudioType /\ armed.pcm = stopped.pcm
        /\ armed.tail = stopped.tail /\ armed.input = stopped.input
    BY <1>2 DEF AudioType
  <1> HIDE DEF armed
  <1>5. /\ audio'.pcm = stopped.pcm
        /\ audio'.tail = stopped.tail /\ audio'.input = stopped.input
    BY <1>1, <1>4 DEF AudioType
  <1>6. AudioPipe(audio') = AudioPipe(stopped)
    BY <1>5 DEF AudioPipe
  <1>7. CASE "stop" \notin c
    <2>1. fed' = fed /\ play' = play /\ AudioPipe(audio') = AudioPipe(audio)
      BY <1>1, <1>3, <1>6, <1>7
    <2> QED BY <1>1, <2>1 DEF LineInv, AudioLine
  <1>8. CASE "stop" \in c
    <2>1. fed'.audio = 0 /\ fed'.video = fed.video /\ play'.video = play.video
      BY <1>1, <1>8 DEF Rest, TypeOK
    <2>2. AudioPipe(audio') = <<>>
      BY <1>3, <1>6, <1>8
    <2>3. AudioLine(audio', title.audio, 0, play'.audio)
      BY <2>2, TitleStreams, EmptyLine DEF Rest
    <2> QED BY <1>1, <2>1, <2>3 DEF LineInv
  <1> QED BY <1>7, <1>8

(* Acknowledging audio status touches no sample. *)
LEMMA AcknowledgeFmaLine ==
  ASSUME Rest, LineInv, NEW bits, AcknowledgeFma(bits)
  PROVE  LineInv'
  <1> DEFINE a == [audio EXCEPT !.isr = {}]
             b == [a EXCEPT !.after_eoi = TRUE, !.reported = FALSE]
  <1>1. /\ audio' = IF "eoi" \in bits /\ a.iso_end_reported THEN RaiseAudioUnderflow(b) ELSE a
        /\ UNCHANGED <<video, title, fed, play>>
    BY DEF AcknowledgeFma
  <1>2. a \in AudioType /\ a.pcm = audio.pcm /\ a.tail = audio.tail /\ a.input = audio.input
    BY DEF Rest, AudioOK, AudioType
  <1> HIDE DEF a
  <1>3. b \in AudioType /\ b.pcm = audio.pcm /\ b.tail = audio.tail /\ b.input = audio.input
    BY <1>2 DEF AudioType
  <1> HIDE DEF b
  <1>4. audio'.pcm = audio.pcm /\ audio'.tail = audio.tail /\ audio'.input = audio.input
    BY <1>1, <1>2, <1>3 DEF RaiseAudioUnderflow, AudioType
  <1>5. AudioPipe(audio') = AudioPipe(audio)
    BY <1>4 DEF AudioPipe
  <1> QED BY <1>1, <1>5 DEF LineInv, AudioLine

(* A tick moves pictures and takes samples. *)
LEMMA TickLine ==
  ASSUME Rest, LineInv, NEW edges, Tick(edges)
  PROVE  LineInv'
  <1>1. /\ video' = TickVideo(video, edges) /\ audio' = TickAudio(audio, edges)
        /\ UNCHANGED <<title, fed, play>>
    BY DEF Tick
  <1>2. VideoLine(video', title.video, fed.video, play.video)
    BY <1>1, TickVideoMoves, MovesPipe, LinesStay DEF Rest, LineInv
  <1>3. PICK front \in Seq(Unit) : AudioPipe(audio) = front \o AudioPipe(audio')
    BY <1>1, TickAudioPipe DEF Rest
  <1>4. AudioPipe(audio') \in Seq(Unit)
    BY <1>1, TickAudioOK, PlacesType DEF Rest
  <1>5. AudioLine(audio', title.audio, fed.audio, play.audio)
    BY <1>3, <1>4, LineDrop DEF LineInv, AudioLine
  <1> QED BY <1>1, <1>2, <1>5 DEF LineInv

(* VSYNC drops the picture displayed before. *)
LEMMA VsyncLine ==
  ASSUME Rest, LineInv, NotifyVsync
  PROVE  LineInv'
  <1>1. /\ video' = IF video.pending = <<>> THEN video ELSE Latch(video)
        /\ UNCHANGED <<audio, title, fed, play>>
    BY DEF NotifyVsync
  <1>2. CASE video.pending = <<>>
    BY <1>1, <1>2 DEF LineInv
  <1>3. CASE video.pending # <<>>
    <2>1. VideoOK(video') /\ video'.current # <<>> /\ Pipe(video) = video.current \o Pipe(video')
      BY <1>1, <1>3, LatchOK, LatchPipe DEF Rest
    <2>2. /\ Pipe(video') \in Seq(Unit) /\ video.current \in Seq(Unit)
          /\ video'.current \in Seq(Unit) /\ video'.pending \in Seq(Unit)
          /\ video'.frames \in Seq(Unit) /\ video'.tail.units \in Seq(Unit)
          /\ video'.input.units \in Seq(Unit)
      BY <2>1, PlacesType DEF Rest
    <2>3. Line(Pipe(video'), title.video, fed.video, play.video)
      BY <2>1, <2>2, LineDrop DEF LineInv, VideoLine
    <2>4. Pipe(video') # <<>>
      <3>1. ASSUME NEW a \in Seq(Unit), NEW b \in Seq(Unit), a # <<>>
            PROVE  a \o b # <<>> /\ a \o b \in Seq(Unit)
        BY <3>1
      <3>2. /\ video'.current \o video'.pending # <<>>
            /\ video'.current \o video'.pending \in Seq(Unit)
        BY <2>1, <2>2, <3>1
      <3>3. Ready(video') # <<>> /\ Ready(video') \in Seq(Unit)
        BY <2>2, <3>1, <3>2 DEF Ready
      <3>4. /\ Ready(video') \o video'.tail.units # <<>>
            /\ Ready(video') \o video'.tail.units \in Seq(Unit)
        BY <2>2, <3>1, <3>3
      <3> QED BY <2>2, <3>1, <3>4 DEF Pipe
    <2>5. VideoLine(video', title.video, fed.video, play.video)
      BY <2>1, <2>3, <2>4 DEF VideoLine, Opened
    <2> QED BY <1>1, <2>5 DEF LineInv
  <1> QED BY <1>2, <1>3

(* The resets empty both lines and start new plays. *)
LEMMA ResetLine ==
  ASSUME Rest, NEW power \in BOOLEAN, Reset(power)
  PROVE  LineInv'
  <1>1. Pipe(video') = <<>> /\ AudioPipe(audio') = <<>>
    BY FlushedLines DEF Reset
  <1>2. title' = title /\ fed'.video = 0 /\ fed'.audio = 0
    BY DEF Reset
  <1>3. /\ VideoLine(video', title.video, 0, play'.video)
        /\ AudioLine(audio', title.audio, 0, play'.audio)
    BY <1>1, TitleStreams, EmptyLine DEF Rest
  <1> QED BY <1>2, <1>3 DEF LineInv

(* Every step keeps both lines. *)
LEMMA LineStep ==
  ASSUME Rest, LineInv, [Next]_vars
  PROVE  LineInv'
  <1>1. CASE UNCHANGED vars
    BY <1>1 DEF vars, LineInv, VideoLine, AudioLine, Line, Opened, Pipe, Ready, AudioPipe
  <1>2. CASE PushDma
    BY <1>2, PushVideoLine, PushAudioLine DEF PushDma
  <1>3. CASE WriteTransferPort
    BY <1>3, PushVideoLine DEF WriteTransferPort
  <1>4. CASE FinishDma
    <2>1. PICK torn \in BOOLEAN : FinishVideo(torn) \/ FinishAudio(torn)
      BY <1>4 DEF FinishDma
    <2>2. UNCHANGED <<title, fed, play>>
      BY <1>4 DEF FinishDma
    <2>3. CASE FinishVideo(torn)
      <3>1. audio' = audio /\ Pipe(video') = Pipe(video) /\ video'.current = video.current
        BY <2>3, FinishVideoPipe DEF FinishVideo
      <3> QED BY <2>2, <3>1, LinesStay DEF LineInv
    <2>4. CASE FinishAudio(torn)
      <3>1. video' = video /\ AudioPipe(audio') = AudioPipe(audio)
        BY <2>4, FinishAudioPipe DEF FinishAudio
      <3> QED BY <2>2, <3>1 DEF LineInv, AudioLine
    <2> QED BY <2>1, <2>3, <2>4
  <1>5. CASE \E c \in SUBSET SystemCommands : SystemCommand(c)
    BY <1>5, SystemLine
  <1>6. ASSUME Moves(video, video'), UNCHANGED <<audio, title, fed, play>>
        PROVE  LineInv'
    BY <1>6, MovesPipe, LinesStay DEF LineInv
  <1>7. CASE \E c \in SUBSET VideoCommands : VideoCommand(c)
    <2>1. Moves(video, video') /\ UNCHANGED <<audio, title, fed, play>>
      BY <1>7, VideoCommandMoves DEF VideoCommand
    <2> QED BY <1>6, <2>1
  <1>8. CASE \E c \in SUBSET AudioCommands : AudioCommand(c)
    BY <1>8, AudioCommandLine
  <1>9. CASE ReadFmvIsr \/ \E bits \in SUBSET FmvStatus : WriteFmvIsr(bits)
    <2>1. PICK bits : AcknowledgeFmv(bits)
      BY <1>9 DEF ReadFmvIsr, WriteFmvIsr
    <2>2. Moves(video, video') /\ UNCHANGED <<audio, title, fed, play>>
      BY <2>1, AcknowledgeFmvMoves DEF AcknowledgeFmv
    <2> QED BY <1>6, <2>2
  <1>10. CASE ReadFmaIsr \/ \E bits \in SUBSET FmaStatus : WriteFmaIsr(bits)
    BY <1>10, AcknowledgeFmaLine DEF ReadFmaIsr, WriteFmaIsr
  <1>11. CASE \E edges \in SUBSET Edges : Tick(edges)
    BY <1>11, TickLine
  <1>12. CASE NotifyVsync
    BY <1>12, VsyncLine
  <1>13. CASE \E power \in BOOLEAN : Reset(power)
    BY <1>13, ResetLine
  <1> QED BY <1>1, <1>2, <1>3, <1>4, <1>5, <1>7, <1>8, <1>9, <1>10, <1>11, <1>12, <1>13 DEF Next

(* What the lines say of the outputs. *)
LEMMA LinesInOrder ==
  ASSUME LineInv
  PROVE  StreamsInOrder
  <1>1. ASSUME NEW q, NEW stream \in {"video", "audio"},
               Line(q, title[stream], fed[stream], play[stream])
        PROVE  InOrder(q, stream)
    BY <1>1 DEF Line, InOrder
  <1>2. InOrder(Shown, "video") /\ InOrder(Heard, "audio")
    BY <1>1, ShownIsPipe DEF LineInv, VideoLine, AudioLine
  <1>3. Opened(Shown, video.current, title.video, fed.video)
    BY ShownIsPipe DEF LineInv, VideoLine
  <1> QED BY <1>2, <1>3 DEF Opened, StreamsInOrder

(* No picture and no block of samples is lost, repeated, reordered or left  *)
(* over from an aborted play between the driver's transfer and the output,  *)
(* for every title, however its stream is cut into sectors, wherever a      *)
(* packet is torn, and whatever words the drivers write at what time.       *)
THEOREM StreamsInOrderHolds == Spec => []StreamsInOrder
  <1>1. Init => Rest /\ LineInv
    <2> SUFFICES ASSUME Init PROVE Rest /\ LineInv
      OBVIOUS
    <2>1. Rest
      BY InitRest
    <2>2. /\ Pipe(video) = <<>> /\ AudioPipe(audio) = <<>>
          /\ fed.video = 0 /\ fed.audio = 0
      BY FlushedLines DEF Init
    <2>3. LineInv
      BY <2>1, <2>2, TitleStreams, EmptyLine DEF LineInv, Rest
    <2> QED BY <2>1, <2>3
  <1>2. Rest /\ LineInv /\ [Next]_vars => (Rest /\ LineInv)'
    BY NextStep, LineStep
  <1>3. LineInv => StreamsInOrder
    BY LinesInOrder
  <1> QED BY <1>1, <1>2, <1>3, PTL DEF Spec
=============================================================================
