-------------------------------- MODULE MCDvc --------------------------------
(* Instances of Dvc for TLC.  A scenario is the use a driver makes of the   *)
(* cartridge: the title it plays and the commands it gives.  Every          *)
(* scenario's steps are steps of Next.                                      *)
EXTENDS Dvc

CONSTANT Scenarios

(* paused: the last command about the video play was Pause. *)
VARIABLES scenario, paused

mcvars == <<vars, scenario, paused>>

-----------------------------------------------------------------------------
(* Titles *)

Sector(scr, pts, units, sequence_end, program_end) ==
    [scr |-> scr, first_pts |-> pts, last_pts |-> pts, units |-> units,
     sequence_end |-> sequence_end, program_end |-> program_end]

U(n) == [no |-> n, last |-> FALSE]
L(n) == [no |-> n, last |-> TRUE]

(* The program end in a sector of its own, with the sequence end, and in a  *)
(* stream without timestamps and sequence end.                              *)
Clip == <<Sector(0, 1, <<U(1), U(2)>>, FALSE, FALSE), Sector(1, 2, <<L(3)>>, TRUE, FALSE),
          Sector(None, None, <<>>, FALSE, TRUE)>>
ShortClip == <<Sector(0, 1, <<U(1)>>, FALSE, FALSE), Sector(0, 2, <<L(2)>>, TRUE, TRUE)>>
(* One sector that spans two timestamps. *)
Loop == <<[Sector(0, 1, <<U(1), L(2)>>, TRUE, FALSE) EXCEPT !.last_pts = 2]>>
PlainClip == <<Sector(None, None, <<U(1), U(2)>>, FALSE, TRUE)>>
Sound == <<Sector(0, 1, <<U(1)>>, FALSE, FALSE), Sector(0, 2, <<U(2), U(3)>>, FALSE, FALSE),
           Sector(None, None, <<>>, FALSE, TRUE)>>
ShortSound == <<Sector(1, 1, <<U(1)>>, FALSE, TRUE)>>

ClipTitle == [video |-> Clip, audio |-> <<>>]
ShortTitle == [video |-> ShortClip, audio |-> <<>>]
LoopTitle == [video |-> Loop, audio |-> <<>>]
PlainTitle == [video |-> PlainClip, audio |-> <<>>]
SoundTitle == [video |-> <<>>, audio |-> Sound]
SyncTitle == [video |-> <<Sector(0, 1, <<U(1)>>, FALSE, FALSE)>>,
              audio |-> <<Sector(1, 2, <<U(1)>>, FALSE, FALSE)>>]

AllTitles == {ClipTitle, ShortTitle, LoopTitle, PlainTitle, SoundTitle, SyncTitle}

TitlesOf(s) == CASE s = "ends" -> {ClipTitle, ShortTitle}
                 [] s = "panel" -> {PlainTitle}
                 [] s = "control" -> {LoopTitle}
                 [] s = "audio" -> {SoundTitle}
                 [] s = "sync" -> {SyncTitle}
                 [] s = "finish" -> {ClipTitle}

-----------------------------------------------------------------------------
(* Drivers *)

SystemCommandsOf(s) ==
    CASE s = "ends" -> {{"enable", "play"}, {"dma"}, {"reset"}}
      [] s = "panel" -> {{"dma"}, {"continue"}}
      [] s = "control" -> {{"play", "dma"}, {"pause"}, {"continue"}, {"stop"}, {"disable", "reset"}}
      [] s = "sync" -> {{"play"}, {"dma"}, {"stop"}}
      [] s = "finish" -> {{"enable", "play"}, {"dma"}}
      [] OTHER -> {}

VideoCommandsOf(s) ==
    CASE s = "panel" -> {{"show"}, {"hide"}, {"update"}, {"update", "scroll"}}
      [] OTHER -> {}

AudioCommandsOf(s) ==
    CASE s = "audio" -> {{"play"}, {"dma"}, {"stop"}, {"play", "dma"}}
      [] s = "sync" -> {{"play"}, {"dma"}, {"stop"}}
      [] OTHER -> {}

EdgesOf(s) ==
    CASE s = "audio" -> {{"dclk"}, {"sample"}, {"dclk", "sample"}}
      [] s = "sync" -> {{"dclk"}, {"frame"}}
      [] s = "panel" -> {{"frame"}, {"scroll"}}
      [] s = "control" -> {{"dclk"}, {"frame"}}
      [] OTHER -> {{"dclk"}, {"frame"}, {"dclk", "frame"}}

StatusWrites(s) == IF s = "ends" THEN {{}, {"esi"}} ELSE {}
AudioStatusWrites(s) == IF s = "audio" THEN {{}, {"eoi"}} ELSE {}

PauseAfter(c) ==
    IF c \cap {"disable", "reset", "play", "continue", "pause", "stop"} = {} THEN paused
    ELSE "pause" \in c

Driver ==
    \/ \E c \in SystemCommandsOf(scenario) : SystemCommand(c) /\ paused' = PauseAfter(c)
    \/ /\ \/ \E c \in VideoCommandsOf(scenario) : VideoCommand(c)
          \/ \E c \in AudioCommandsOf(scenario) : AudioCommand(c)
          \/ \E bits \in StatusWrites(scenario) : WriteFmvIsr(bits)
          \/ \E bits \in AudioStatusWrites(scenario) : WriteFmaIsr(bits)
          \/ scenario = "panel" /\ WriteTransferPort
       /\ UNCHANGED paused
    \/ /\ scenario \in {"panel", "audio"} /\ \E power \in BOOLEAN : Reset(power)
       /\ paused' = FALSE

Acknowledge == (ReadFmvIsr \/ ReadFmaIsr) /\ UNCHANGED paused
Transfer == (PushDma \/ FinishDma) /\ UNCHANGED paused
Ticks == (\E e \in EdgesOf(scenario) : Tick(e)) /\ UNCHANGED paused
Edge(e) == e \in UNION EdgesOf(scenario) /\ Tick({e}) /\ UNCHANGED paused
Vsync == NotifyVsync /\ UNCHANGED paused

ScenarioNext == (Driver \/ Acknowledge \/ Transfer \/ Ticks \/ Vsync) /\ UNCHANGED scenario

ScenarioInit ==
    /\ Init
    /\ scenario \in Scenarios
    /\ title \in TitlesOf(scenario)
    /\ paused = FALSE

ScenarioSpec == ScenarioInit /\ [][ScenarioNext]_mcvars

(* The clocks of the cartridge and the display run whatever the CPU does.   *)
FairClocks ==
    /\ ScenarioSpec
    /\ \A e \in Edges : WF_mcvars(Edge(e) /\ UNCHANGED scenario)
    /\ WF_mcvars(Vsync /\ UNCHANGED scenario)

(* Paused device time consumes no queued pictures: while the driver's last  *)
(* command about the play is Pause, the decoded queue only grows            *)
(* (handle_fmv_write's pause against schedule_video_start and tick).        *)
PausedKeepsPictures ==
    [][paused /\ paused' => Len(video'.frames) >= Len(video.frames)]_mcvars
=============================================================================
