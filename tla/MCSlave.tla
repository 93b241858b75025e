------------------------------ MODULE MCSlave ------------------------------
(* Instances of Slave for TLC.  A run explores several scenarios side by    *)
(* side, each a group of channels with the actors that use it: their        *)
(* product would be too large, and the groups meet only in the interrupt    *)
(* line and the assembly buffer.  Every scenario's steps are steps of Next. *)
EXTENDS Slave

CONSTANT Scenarios
VARIABLE scenario

\* /kb1 reports and status queries share channel 2.
ChannelCWrites == {<<2, "80">>, <<2, "81">>, <<3, "F3">>, <<3, "F6">>}
\* Queries and reports, on a guest that never disables reports.
QueryWrites == {<<2, "80">>, <<3, "F3">>, <<3, "F4">>}
\* SERVO notices and drive queries on channel 3, the launch on channel 2.
DriveWrites == {<<3, "B0">>, <<3, "B1">>, <<3, "00">>, <<3, "FA">>, <<3, "FB">>, <<2, "8A">>}
\* Pointer packets and player-control reports, channels 0 and 1.
InputWrites == {<<0, "83">>, <<0, "84">>, <<0, "C0">>, <<3, "F7">>,
                <<1, "8D">>, <<1, "8E">>}
\* Commands of several bytes, begun on one channel and cut by another.
ParserWrites == {<<0, "87">>, <<0, "88">>, <<0, "C0">>, <<1, "8D">>, <<2, "90">>,
                 <<2, "F0">>, <<3, "B0">>, <<3, "F8">>}
\* Payload commands, the LCD's among them, cut by bytes of all four channels.
PayloadWrites == {<<0, "00">>, <<0, "C0">>, <<1, "00">>, <<2, "F0">>, <<2, "C0">>, <<2, "82">>, <<2, "90">>, <<2, "88">>,
                  <<3, "B0">>, <<3, "F8">>, <<3, "00">>}

AllWrites == ChannelCWrites \cup QueryWrites \cup DriveWrites \cup InputWrites \cup ParserWrites \cup PayloadWrites

MovingMotions == {-1, 1}

-----------------------------------------------------------------------------

Alphabet == [channelC |-> ChannelCWrites, queries |-> QueryWrites, drive |-> DriveWrites,
             input |-> InputWrites, parser |-> ParserWrites, payload |-> PayloadWrites]

ScenarioWrites == \E w \in Alphabet[scenario] : Write(w[1], w[2])

KeyboardSteps ==
    \/ \E code \in Keys, pressed \in BOOLEAN, m \in Modifiers : SetKeyboardKey(code, pressed, m)
    \/ \E m \in Modifiers : SetKeyboardModifiers(m)

DiscSteps ==
    \/ \E present \in Discs : SetDiscPresent(present)
    \/ \E type \in DiscTypes : SetDiscType(type)
    \/ \E present \in Discs, replacing \in BOOLEAN : NotifyDiscChange(present, replacing)
    \/ TakeHostResetRequest

InputSteps ==
    \/ \E x \in Positions, btn \in Buttons : SetPointer(x, btn)
    \/ \E dx \in Motions, btn \in Buttons : MovePointer(dx, btn)
    \/ \E x \in Positions, btn \in Buttons : SetPointerAbsolute(x, btn)
    \/ \E key \in PlayerKeys, pressed \in BOOLEAN : SetPlayerControlKey(key, pressed)

ScenarioFrontend ==
    \/ /\ scenario \in {"channelC", "queries"}
       /\ \/ KeyboardSteps
          \/ \E attached \in IF scenario = "queries" THEN {TRUE} ELSE Attachments :
                 SetKeyboardAttached(attached)
    \/ scenario = "drive" /\ DiscSteps
    \/ scenario = "input" /\ InputSteps
    \/ scenario = "parser" /\ (TakeAttenuation \/ \E video \in Videos : SetVideoStandard(video))

ScenarioNext ==
    /\ \/ \E c \in Channels : Read(c)
       \/ ScenarioWrites
       \/ ScenarioFrontend
       \/ \E cycles \in TickLengths : Tick(cycles)
       \/ Reset
    /\ UNCHANGED scenario

mcvars == <<vars, scenario>>

ScenarioInit == Init /\ scenario \in Scenarios

ScenarioSpec == ScenarioInit /\ [][ScenarioNext]_mcvars

\* The machine ticks; the guest reads what there is and writes on.
FairScenarios ==
    /\ ScenarioSpec
    /\ WF_mcvars(UNCHANGED scenario /\ \E cycles \in TickLengths : Tick(cycles))
    /\ \A c \in Channels : WF_mcvars(UNCHANGED scenario /\ Read(c))
    /\ WF_mcvars(UNCHANGED scenario /\ ScenarioWrites)
=============================================================================
