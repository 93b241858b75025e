----------------------------- MODULE MCFrontend -----------------------------
(***************************************************************************)
(* Instances of the five parts of the desktop frontend. They share no      *)
(* state a property relates, so a scenario lets one of them move and       *)
(* leaves the others where they start; Player and HostInput have several   *)
(* scenarios, each with the commands or the input that disturb each other. *)
(***************************************************************************)
EXTENDS Player, PhotoViewer, HostInput, Library, AudioRing

VARIABLE scenario

PlayerScenarios == {"discs", "hardware", "roms"}
HostScenarios == {"pad", "mouse", "keys"}
Scenarios == PlayerScenarios \cup HostScenarios \cup {"photos", "library", "audio"}

MCDisc == {"european", "mixed"}
MCProfile == [d \in MCDisc |-> IF d = "mixed" THEN "ntsc" ELSE Unknown]
MCHint == [d \in MCDisc |-> IF d = "mixed" THEN "mixed" ELSE "pal"]
MCMixedPreference == "ntsc"
MCRom == {"cdi220f2", "cdi200f1", "cdi490"}
MCBoardOf == [r \in MCRom |-> CASE r = "cdi220f2" -> "mono1"
                                [] r = "cdi200f1" -> "mini" [] OTHER -> NoBoard]
MCRomStandard == [r \in MCRom |-> "pal"]

\* A Photo CD with a CD-i program, one without, and another disc.
MCPhotoDisc == {"portfolio", "photos", "game"}
MCImages == [d \in MCPhotoDisc |-> CASE d = "portfolio" -> 2 [] d = "photos" -> 1 [] OTHER -> 0]
MCHasCdiApp == [d \in MCPhotoDisc |-> d = "portfolio"]

\* Two host keys that are one key of the player.
MCKeyCode == [k \in {"left shift", "right shift"} |-> "shift"]

-----------------------------------------------------------------------------
PlayerWindow ==
    \/ /\ scenario = "discs"
       /\ \/ \E d \in Disc : PostDisc([kind |-> "LoadDisc", disc |-> d])
          \/ PostDisc([kind |-> "EjectDisc"])
          \/ PostStandard("ntsc")
          \/ UseDetectedDefault
          \/ PostOther([kind |-> "SetSystemRom", rom |-> "cdi220f2"])
    \/ /\ scenario = "hardware"
       /\ \/ \E k \in {"AttachDvc", "DetachDvc", "ResetNvram", "Reset"} : PostOther([kind |-> k])
          \/ \E a \in BOOLEAN : PostOther([kind |-> "SetKeyboardAttached", attached |-> a])
          \/ TogglePause
    \/ /\ scenario = "roms"
       /\ \/ \E r \in Rom : PickSystemRom(r)
          \/ PostSystemRom
          \/ \E s \in Standard : PostStandard(s)

\* Bound: two saves only where the cartridge and the storage are changed.
PlayerMoves ==
    /\ EmuStep \/ Quit \/ Crash \/ Start \/ PlayerWindow
    /\ scenario # "hardware" => saves' <= 1

-----------------------------------------------------------------------------
\* Input of the host, one kind of device at a time.
Quiet == [pad |-> {}, presses |-> {}, mouse |-> {}, kb |-> {}, key |-> NoKey, command |-> FALSE,
          menuButton |-> FALSE, start |-> FALSE, dpad |-> FALSE, moved |-> FALSE,
          hover |-> FALSE, focus |-> TRUE, typing |-> FALSE, viewing |-> FALSE,
          escape |-> FALSE, loads |-> FALSE, clicked |-> "nothing"]

PadEvents ==
    {[Quiet EXCEPT !.dpad = d] : d \in BOOLEAN} \cup
    {[Quiet EXCEPT !.menuButton = TRUE], [Quiet EXCEPT !.clicked = "library"],
     [Quiet EXCEPT !.clicked = "to title"], [Quiet EXCEPT !.loads = TRUE]}

PadInputs ==
    {[e EXCEPT !.pad = p, !.presses = q \cup (p \ pad)] :
        e \in PadEvents, p \in SUBSET CdiButton, q \in {{}, {SelectButton}}}

MouseEvents ==
    {[Quiet EXCEPT !.moved = m] : m \in BOOLEAN} \cup
    {[Quiet EXCEPT !.menuButton = TRUE], [Quiet EXCEPT !.clicked = "library"],
     [Quiet EXCEPT !.escape = TRUE], [Quiet EXCEPT !.viewing = TRUE]}

MouseInputs ==
    {[e EXCEPT !.mouse = p, !.hover = h] :
        e \in MouseEvents, p \in {{}, {SelectButton}, {BackButton}}, h \in BOOLEAN}

KeyEvents ==
    {[Quiet EXCEPT !.kb = b] : b \in {{}, {SelectButton}}} \cup
    {[Quiet EXCEPT !.menuButton = TRUE], [Quiet EXCEPT !.focus = FALSE],
     [Quiet EXCEPT !.typing = TRUE], [Quiet EXCEPT !.viewing = TRUE],
     [Quiet EXCEPT !.clicked = "library"], [Quiet EXCEPT !.clicked = "to library"],
     [Quiet EXCEPT !.command = TRUE]}

KeyInputs ==
    {[e EXCEPT !.key = k, !.start = (e = Quiet)] :
        e \in KeyEvents,
        k \in {NoKey} \cup {[key |-> x, down |-> x \notin pressedKeys] : x \in HostKey}}

HostMoves ==
    \/ scenario = "pad" /\ \E in \in PadInputs : Look(in)
    \/ scenario = "mouse" /\ ToggleCapture
    \/ scenario = "mouse" /\ \E in \in MouseInputs : Look(in)
    \/ scenario = "keys" /\ (TogglePassthrough \/ \E in \in KeyInputs : Look(in))
    \/ EmulateFrame

-----------------------------------------------------------------------------
mcvars == <<playerVars, photoVars, hostVars, libraryVars, audioVars, scenario>>

FrontendInit ==
    /\ PlayerInit /\ PhotoInit /\ HostInit /\ LibraryInit /\ AudioInit
    /\ scenario \in Scenarios

FrontendNext ==
    /\ \/ /\ scenario \in PlayerScenarios /\ PlayerMoves
          /\ UNCHANGED <<photoVars, hostVars, libraryVars, audioVars>>
       \/ /\ scenario = "photos" /\ PhotoNext
          /\ UNCHANGED <<playerVars, hostVars, libraryVars, audioVars>>
       \/ /\ scenario \in HostScenarios /\ HostMoves
          /\ UNCHANGED <<playerVars, photoVars, libraryVars, audioVars>>
       \/ /\ scenario = "library" /\ LibraryNext
          /\ UNCHANGED <<playerVars, photoVars, hostVars, audioVars>>
       \/ /\ scenario = "audio" /\ AudioNext
          /\ UNCHANGED <<playerVars, photoVars, hostVars, libraryVars>>
    /\ UNCHANGED scenario

\* PlayerFairness asks nothing of a player that does not move; the fairness of
\* PhotoViewer holds where its window and worker run.
FrontendSpec ==
    /\ FrontendInit
    /\ [][FrontendNext]_mcvars
    /\ PlayerFairness
    /\ WF_photoVars(scenario = "photos" /\ Worker)
    /\ WF_photoVars(scenario = "photos" /\ Update)

=============================================================================
