------------------------------- MODULE MCCdic -------------------------------
(* Instances of Cdic for TLC.  A disc is a short sequence of sectors whose  *)
(* kinds and channels meet every case of the filters.  A run explores       *)
(* several scenarios side by side, each a use the guest makes of the        *)
(* controller with the inputs that belong to it: the product of all inputs  *)
(* would be too large.  Every scenario's steps are steps of Next.           *)
EXTENDS Cdic

CONSTANT Scenarios
VARIABLE scenario

Stereo8 == <<8, 37, 2>>     \* two sector times
Mpeg == <<0, 37, 2>>        \* not supported: no time at all

DataSector == [mode |-> 2, file |-> 0, chan |-> 0, event |-> FALSE, kind |-> "data",
               form2 |-> FALSE, coding |-> ZeroCoding]
OtherChannel == [DataSector EXCEPT !.chan = 1]
OtherFile == [DataSector EXCEPT !.file = 1, !.event = TRUE]
AudioSector == [DataSector EXCEPT !.kind = "audio", !.form2 = TRUE, !.coding = Stereo8]
EndSector == [AudioSector EXCEPT !.coding = EndOfMap]
Trigger == [OtherChannel EXCEPT !.event = TRUE]
Mode1Sector == [DataSector EXCEPT !.mode = 1]
CddaSector == [DataSector EXCEPT !.mode = 0, !.kind = "none"]

Disc(list) == [l \in 0..(Len(list) - 1) |-> list[l + 1]]

Go == <<TRUE, TRUE, FALSE, 0>>
Hold == <<FALSE, FALSE, FALSE, 0>>
Gates == {Go, Hold, <<FALSE, TRUE, FALSE, 1>>}

Scenario == [
    \* sound maps alone, with every AUDCTL value, refilled and ended at any time
    map    |-> [discs |-> {}, commands |-> {}, dbuf |-> {}, audctl |-> BOOLEAN \X BOOLEAN,
                codings |-> {Stereo8, EndOfMap, Mpeg}, channels |-> {}, writes |-> {<<"abuf", TRUE>>}],
    \* the same with one coding, to see that maps stop
    stop   |-> [discs |-> {}, commands |-> {}, dbuf |-> {}, audctl |-> BOOLEAN \X BOOLEAN,
                codings |-> {Stereo8}, channels |-> {}, writes |-> {}],
    \* Mode-2 reads with file and channel filters, gates, stops and cancellations
    read   |-> [discs |-> {<<DataSector, AudioSector, OtherChannel, Trigger>>},
                commands |-> {"23", "2A", "2B"}, dbuf |-> Gates, audctl |-> {},
                codings |-> {}, channels |-> {<<0, {0}>>}, writes |-> {"xbuf"} \X BOOLEAN],
    \* Mode-1 reads and Mode-2 reads that select by file, submode and audio channel
    plain  |-> [discs |-> {<<Mode1Sector, OtherFile, AudioSector>>}, commands |-> {"23", "29", "2A"},
                dbuf |-> {Go}, audctl |-> {}, codings |-> {}, channels |-> {},
                writes |-> {<<"abuf", FALSE>>}],
    \* a disc of which the filters soon reject every sector
    silent |-> [discs |-> {<<DataSector, OtherChannel, OtherChannel>>}, commands |-> {"23", "2A"},
                dbuf |-> Gates, audctl |-> {}, codings |-> {}, channels |-> {<<0, {0}>>}, writes |-> {}],
    \* CD-fed ADPCM from an interleaved disc, with the player on and off
    stream |-> [discs |-> {<<AudioSector, DataSector, AudioSector, OtherChannel, AudioSector>>},
                commands |-> {"2A"}, dbuf |-> Gates, audctl |-> {<<TRUE, FALSE>>, <<FALSE, FALSE>>},
                codings |-> {}, channels |-> {}, writes |-> {}],
    \* CD-fed ADPCM and a sound map, which share the two halves
    mix    |-> [discs |-> {<<AudioSector, DataSector, EndSector>>}, commands |-> {"2A"},
                dbuf |-> {Go}, audctl |-> {<<TRUE, FALSE>>, <<TRUE, TRUE>>},
                codings |-> {Stereo8}, channels |-> {}, writes |-> {}],
    \* CD-DA and TOC reads, and the maps that abort them
    cdda   |-> [discs |-> {<<CddaSector, CddaSector, CddaSector>>}, commands |-> {"27", "28"},
                dbuf |-> {Go, Hold},
                audctl |-> {<<TRUE, FALSE>>, <<FALSE, FALSE>>, <<TRUE, TRUE>>},
                codings |-> {}, channels |-> {}, writes |-> {}]]

ScenarioDiscs == {Disc(list) : list \in Scenario[scenario].discs}

AllDiscs == {Disc(list) : list \in UNION {Scenario[n].discs : n \in Scenarios}}
Channel0 == {<<0, {0}>>}
AudioOnOff == {{}, {0}}
AnyBits == BOOLEAN \X BOOLEAN
AnyDbuf == BOOLEAN \X BOOLEAN \X BOOLEAN \X Halves
AnyBuffer == {"abuf", "xbuf"} \X BOOLEAN
MapBytes == {Stereo8, EndOfMap, Mpeg}

-----------------------------------------------------------------------------

ScenarioMailbox ==
    \/ \E c \in Scenario[scenario].commands : WriteCommand(c)
    \/ \E w \in Scenario[scenario].channels : WriteChannel(w[1], w[2])
    \/ scenario \notin {"map", "stop"} /\ \E l \in Starts : WriteTime(l)
    \/ scenario = "plain" /\ \E f \in Files : WriteFile(f)
    \/ scenario = "plain" /\ \E set \in AudioChannels : WriteAchan(set)

ScenarioGuest ==
    \/ ScenarioMailbox
    \/ \E w \in Scenario[scenario].dbuf : WriteDbuf(w[1], w[2], w[3], w[4])
    \/ \E w \in Scenario[scenario].audctl : WriteAudctl(w[1], w[2])
    \/ ReadAbuf
    \/ ReadXbuf
    \/ ReadAudctl
    \/ \E w \in Scenario[scenario].writes : WriteBuffer(w[1], w[2])
    \/ \E half \in Halves, coding \in Scenario[scenario].codings : FillMapHalf(half, coding)

ScenarioMachine ==
    \/ Pump
    \/ Reset
    \/ PowerCycle
    \/ \E medium \in ScenarioDiscs \cup {NoDisc} : MediaChanged(medium)

ScenarioNext == (ScenarioGuest \/ ScenarioMachine) /\ UNCHANGED scenario

mcvars == <<vars, scenario>>

ScenarioInit == Init /\ scenario \in Scenarios /\ disc \in ScenarioDiscs \cup {NoDisc}

ScenarioSpec == ScenarioInit /\ [][ScenarioNext]_mcvars

FairScenarios == ScenarioSpec /\ WF_mcvars(Pump /\ UNCHANGED scenario)
=============================================================================
