---------------------------- MODULE PhotoViewer ----------------------------
(***************************************************************************)
(* The Photo CD viewer of the desktop frontend: the window owns what is    *)
(* shown (`PhotoCdUi`), a worker thread owns the opened disc, and two      *)
(* queues join them.  Loads and ejects clear the viewer at once while      *)
(* commands and events of the previous disc are still on their way.        *)
(***************************************************************************)
EXTENDS Integers, Sequences

CONSTANTS
    PhotoDisc,      \* disc images the user may load
    Images,         \* PhotoDisc -> number of pictures; 0: not a Photo CD
    HasCdiApp,      \* PhotoDisc -> BOOLEAN: a CD-i program shows the pictures
    MaxTier,        \* resolutions above Base that are decoded
    MaxPending      \* bound: commands and events under way

NoPhoto == "none"

ASSUME PhotoAssumption ==
    /\ Images \in [PhotoDisc -> Nat]
    /\ HasCdiApp \in [PhotoDisc -> BOOLEAN]
    /\ MaxTier \in Nat /\ MaxPending \in Nat
    /\ NoPhoto \notin PhotoDisc

VARIABLES
    photocd,        \* `App::photocd`: NoViewer or the viewer shown
    pcdCommands,    \* window to worker
    pcdEvents,      \* worker to window
    workerDisc,     \* the disc the worker holds open
    lastLoad,       \* history: what the user asked for last, NoPhoto after an eject
    drained         \* the window has taken the events of this pass

photoVars == <<photocd, pcdCommands, pcdEvents, workerDisc, lastLoad, drained>>

\* `decoded` names the picture it has, with the disc
\* it was decoded from.
NoImage == [disc |-> NoPhoto, index |-> 0, tier |-> 0]
NoViewer == [shown |-> FALSE]

Opened(d) ==
    [shown |-> TRUE, disc |-> d, current |-> 0, tier |-> 0, view |-> ~HasCdiApp[d],
     slideshow |-> FALSE, decoding |-> FALSE, decoded |-> NoImage, error |-> FALSE]

OpenDisc(d) == [kind |-> "Open", disc |-> d]
CloseDisc == [kind |-> "Close"]
Decode(index, tier) == [kind |-> "Decode", index |-> index, tier |-> tier]

-----------------------------------------------------------------------------
(* The worker.                                                             *)

Shown(index, tier) == [kind |-> "Decoded", index |-> index,
                       image |-> [disc |-> workerDisc, index |-> index, tier |-> tier]]

Pictures(c) == IF c.index < Images[workerDisc] THEN {<<Shown(c.index, c.tier)>>} ELSE {}

\* Mutant: a disc without pictures says nothing.
AnswersWithoutNo(c) ==
    CASE c.kind = "Open" /\ Images[c.disc] > 0 -> {<<[kind |-> "Opened", disc |-> c.disc]>>}
      [] c.kind = "Decode" /\ workerDisc # NoPhoto -> Pictures(c) \cup {<<[kind |-> "DecodeError"]>>}
      [] OTHER -> {<<>>}

\* Mutant: a picture that does not decode says nothing.
AnswersWithoutErrors(c) ==
    CASE c.kind = "Open" /\ Images[c.disc] > 0 -> {<<[kind |-> "Opened", disc |-> c.disc]>>}
      [] c.kind = "Open" /\ Images[c.disc] = 0 -> {<<[kind |-> "NotPhotoCd"]>>}
      [] c.kind = "Decode" /\ workerDisc # NoPhoto -> Pictures(c) \cup {<<>>}
      [] OTHER -> {<<>>}

\* What may answer a command: a picture the disc does not have, or one that
\* does not decode, is an error; without a disc a request to decode is dropped.
Answers(c) ==
    CASE c.kind = "Open" /\ Images[c.disc] > 0 -> {<<[kind |-> "Opened", disc |-> c.disc]>>}
      [] c.kind = "Open" /\ Images[c.disc] = 0 -> {<<[kind |-> "NotPhotoCd"]>>}
      [] c.kind = "Decode" /\ workerDisc # NoPhoto -> Pictures(c) \cup {<<[kind |-> "DecodeError"]>>}
      [] OTHER -> {<<>>}

\* One command: the old disc is closed before the new one is opened.
Worker ==
    /\ pcdCommands # <<>>
    /\ pcdCommands' = Tail(pcdCommands)
    /\ LET c == Head(pcdCommands)
       IN  /\ \E events \in Answers(c) : pcdEvents' = pcdEvents \o events
           /\ workerDisc' = CASE c.kind = "Decode" -> workerDisc
                              [] c.kind = "Open" /\ Images[c.disc] > 0 -> c.disc
                              [] OTHER -> NoPhoto
    /\ UNCHANGED <<photocd, lastLoad, drained>>

-----------------------------------------------------------------------------
(* A pass of the window: `update` takes every event, then the arrow keys   *)
(* and the slideshow choose a picture, then at most one decode is asked    *)
(* for.  Buttons come later in the same pass, or in a later one.           *)

Least(a, b) == IF a < b THEN a ELSE b

\* Mutant: a picture that arrives leaves the selection where it is.
AppliedKeepsCurrent(s, e) ==
    CASE e.kind = "Opened" -> [p |-> Opened(e.disc), ask |-> ~HasCdiApp[e.disc]]
      [] e.kind = "NotPhotoCd" -> [s EXCEPT !.p = NoViewer]
      [] e.kind = "Decoded" /\ s.p.shown ->
            [s EXCEPT !.p.decoding = FALSE, !.p.decoded = e.image]
      [] e.kind = "DecodeError" /\ s.p.shown -> [s EXCEPT !.p.decoding = FALSE, !.p.error = TRUE]
      [] OTHER -> s

\* One event applied to the viewer and to `request_first_decode`.
Applied(s, e) ==
    CASE e.kind = "Opened" -> [p |-> Opened(e.disc), ask |-> ~HasCdiApp[e.disc]]
      [] e.kind = "NotPhotoCd" -> [s EXCEPT !.p = NoViewer]
      [] e.kind = "Decoded" /\ s.p.shown ->
            [s EXCEPT !.p.decoding = FALSE, !.p.decoded = e.image,
                      !.p.current = Least(e.index, Images[s.p.disc] - 1)]
      [] e.kind = "DecodeError" /\ s.p.shown -> [s EXCEPT !.p.decoding = FALSE, !.p.error = TRUE]
      [] OTHER -> s

\* The viewer after the first n events that wait.
Viewed[n \in 0..Len(pcdEvents)] ==
    IF n = 0 THEN [p |-> photocd, ask |-> FALSE] ELSE Applied(Viewed[n - 1], pcdEvents[n])

\* The next or the previous picture, round the end.
Turned(p, by) == [p EXCEPT !.current = (p.current + by + Images[p.disc]) % Images[p.disc]]

Turnable(p) == p.shown /\ Images[p.disc] > 1

\* An arrow key, or none; then the slideshow when five seconds have passed.
Keyed(s, by) == IF by = 0 THEN s ELSE [p |-> Turned(s.p, by), ask |-> TRUE]

\* `request_photo_decode`.
Asked(s) ==
    IF s.ask /\ s.p.shown
    THEN /\ photocd' = [s.p EXCEPT !.decoding = TRUE, !.error = FALSE]
         /\ pcdCommands' = Append(pcdCommands, Decode(s.p.current, s.p.tier))
    ELSE photocd' = s.p /\ UNCHANGED pcdCommands

Update ==
    /\ Len(pcdCommands) < MaxPending
    /\ \E by \in {-1, 0, 1}, elapsed \in BOOLEAN :
         LET s0 == Viewed[Len(pcdEvents)]
             s1 == Keyed(s0, by)
             turns == Turnable(s1.p) /\ s1.p.view /\ s1.p.slideshow /\ ~s1.p.decoding
         IN  /\ by # 0 => Turnable(s0.p) /\ s0.p.view
             /\ elapsed => turns /\ by = 0
             /\ Asked(Keyed(s1, IF elapsed THEN 1 ELSE 0))
    /\ pcdEvents' = <<>>
    /\ drained' = TRUE
    /\ UNCHANGED <<workerDisc, lastLoad>>

\* A button of the status bar. Every button but the view toggle needs the view.
Clicks(p, ask) ==
    /\ drained
    /\ drained' = FALSE
    /\ Len(pcdCommands) < MaxPending
    /\ photocd.shown
    /\ Asked([p |-> p, ask |-> ask])
    /\ UNCHANGED <<pcdEvents, workerDisc, lastLoad>>

ToggleView ==
    /\ photocd.shown /\ HasCdiApp[photocd.disc]
    /\ IF photocd.view
       THEN Clicks([photocd EXCEPT !.view = FALSE, !.slideshow = FALSE], FALSE)
       ELSE Clicks([photocd EXCEPT !.view = TRUE],
                   photocd.decoded = NoImage /\ ~photocd.decoding)

Buttons ==
    /\ photocd.shown /\ photocd.view
    /\ \/ \E by \in {-1, 1} : Clicks(Turned(photocd, by), TRUE)
       \/ \E tier \in (0..MaxTier) \ {photocd.tier} :
              Clicks([photocd EXCEPT !.tier = tier], TRUE)
       \/ /\ Turnable(photocd)
          /\ Clicks([photocd EXCEPT !.slideshow = ~photocd.slideshow], FALSE)

\* `load_disc_path` and `eject_disc`: the viewer goes before the worker knows.
LoadPhoto(d) ==
    /\ drained
    /\ drained' = FALSE
    /\ Len(pcdCommands) < MaxPending
    /\ photocd' = NoViewer
    /\ pcdCommands' = Append(pcdCommands, OpenDisc(d))
    /\ lastLoad' = d
    /\ UNCHANGED <<pcdEvents, workerDisc>>

EjectPhoto ==
    /\ drained
    /\ drained' = FALSE
    /\ Len(pcdCommands) < MaxPending
    /\ photocd' = NoViewer
    /\ pcdCommands' = Append(pcdCommands, CloseDisc)
    /\ lastLoad' = NoPhoto
    /\ UNCHANGED <<pcdEvents, workerDisc>>

PhotoInit ==
    /\ photocd = NoViewer
    /\ pcdCommands = <<>>
    /\ pcdEvents = <<>>
    /\ workerDisc = NoPhoto
    /\ lastLoad = NoPhoto
    /\ drained = FALSE

PhotoNext ==
    \/ Worker \/ Update \/ ToggleView \/ Buttons
    \/ \E d \in PhotoDisc : LoadPhoto(d)
    \/ EjectPhoto

PhotoSpec == PhotoInit /\ [][PhotoNext]_photoVars

\* Both threads keep running: the worker takes what is queued, the window is
\* repainted after every event and every ten milliseconds.
PhotoFairness == WF_photoVars(Worker) /\ WF_photoVars(Update)

-----------------------------------------------------------------------------
(* Properties.                                                             *)

PhotoTypeOK ==
    /\ photocd.shown \in BOOLEAN
    /\ workerDisc \in PhotoDisc \cup {NoPhoto}
    /\ Len(pcdCommands) <= MaxPending
    /\ photocd.shown => photocd.current \in 0..(Images[photocd.disc] - 1)

PhotoQuiet == pcdCommands = <<>> /\ pcdEvents = <<>>

\* When nothing is under way the viewer is that of the disc loaded last, and
\* there is none for a disc without pictures: whatever Opened, NotPhotoCd and
\* picture of an earlier disc arrived after the load cleared the viewer.
ViewerFollowsLoad ==
    PhotoQuiet /\ lastLoad # NoPhoto =>
        IF Images[lastLoad] > 0 THEN photocd.shown /\ photocd.disc = lastLoad
                                ELSE ~photocd.shown

\* When nothing is under way after a load, no decode is awaited, and the
\* picture shown is the one selected, from that disc, unless an error is
\* reported: pictures that were overtaken by other choices do not stay. (Its
\* resolution may be one chosen in the viewer of the disc before.)
ShowsTheSelection ==
    PhotoQuiet /\ lastLoad # NoPhoto /\ photocd.shown =>
        /\ ~photocd.decoding
        /\ \/ photocd.error
           \/ photocd.decoded.disc = lastLoad /\ photocd.decoded.index = photocd.current
           \/ photocd.decoded = NoImage /\ ~photocd.view

PhotoInv == PhotoTypeOK /\ ViewerFollowsLoad /\ ShowsTheSelection

\* A picture asked for is shown or refused, or another one is selected: the
\* spinner goes away. (After an eject it may not: the worker has no disc.)
DecodeAnswered ==
    \A d \in PhotoDisc : \A i \in 0..(Images[d] - 1) :
        (photocd.shown /\ photocd.decoding /\ photocd.disc = d /\ photocd.current = i) ~>
            \/ ~photocd.shown \/ ~photocd.decoding
            \/ photocd.disc # d \/ photocd.current # i
            \/ lastLoad = NoPhoto
=============================================================================
