----------------------------- MODULE HostInput -----------------------------
(***************************************************************************)
(* Input in the desktop frontend: gamepad, mouse and keyboard are polled   *)
(* by the window once per pass, used by the host (library, quick menu,     *)
(* mouse capture) or passed on to the CD-i player.  Buttons travel as the  *)
(* present state (`Shared::input`), keys as events in a queue              *)
(* (`Shared::guest_input`) that the emulation thread empties before each   *)
(* frame; while the quick menu is open it runs no frame.                   *)
(***************************************************************************)
EXTENDS Integers, Sequences, FiniteSets

CONSTANTS
    CdiButton,      \* the pointer's buttons, and the pad and mouse buttons for them
    SelectButton,   \* the pad button that activates a menu row
    BackButton,     \* the pad button that closes a menu
    HostKey,        \* host keys
    KeyCode,        \* HostKey -> CD-i key code
    MaxEvents       \* bound: events under way, with the releases of the keys held

ASSUME HostInputAssumption ==
    {SelectButton, BackButton} \subseteq CdiButton

VARIABLES
    win,            \* the window's state
    buttons,        \* `Shared::input.buttons`
    events,         \* `Shared::guest_input`
    guest,          \* what the player was last given: buttons, keys, Pause
    pad, mouse, pressedKeys, \* what is held down on the host
    usedInMenu,     \* history: pad buttons held since the quick menu used the pad
    captureHeld,    \* history: the press that captured the mouse is not over
    skipped         \* history: keys in the player whose release was skipped

hostVars == <<win, buttons, events, guest, pad, mouse, pressedKeys, usedInMenu, captureHeld, skipped>>

\* What one pass of the window finds. `presses` are pad buttons pressed since
\* the last pass, held still or not; `key` is at most one key event, `command`
\* whether the Command modifier, without Control, was down with it; `moved` and
\* `dpad` are motions; `typing`: a text field takes the keys; `viewing`: a
\* Photo CD picture is shown; `clicked` is what the mouse chose in the window.
NoKey == [key |-> "none", down |-> FALSE]

Code(held) == {KeyCode[k] : k \in held}

\* The keys the window holds in the player, in the order they went down.
Held(w) == {w.keys[i] : i \in DOMAIN w.keys}
Position(w, k) == CHOOSE i \in DOMAIN w.keys : w.keys[i] = k

-----------------------------------------------------------------------------
(* The parts of a pass, in their order. Each takes the window's state with *)
(* `buttons` and `events` in it, and the input.                            *)

\* The buttons given to the player are those of all sources.
Given(w) == [w EXCEPT !.buttons = w.game \cup w.padButtons \cup w.kb]

SetCapture(w, captured) ==
    IF w.captured = captured THEN w
    ELSE [w EXCEPT !.captured = captured, !.buttons = {},
                   !.suppressClick = captured /\ w.suppressClick,
                   !.game = IF captured THEN w.game ELSE {}]

KeyEvent(k, down) == [kind |-> "key", code |-> KeyCode[k], down |-> down]
PauseEvent(down) == [kind |-> "pause", down |-> down]

\* Mutant: only the window forgets its keys.
ForgetKeyboard(w) == [w EXCEPT !.keys = <<>>]

\* `release_guest_keyboard`: the keys held in the player go up, last first.
ReleaseGuestKeyboard(w) ==
    [w EXCEPT !.keys = <<>>,
              !.events = w.events \o [i \in 1..Len(w.keys) |->
                  KeyEvent(w.keys[Len(w.keys) + 1 - i], FALSE)]]

\* The Library button of the status bar.
ToggleLibrary(w) ==
    IF w.library THEN [w EXCEPT !.library = FALSE]
    ELSE SetCapture(ReleaseGuestKeyboard([w EXCEPT !.library = TRUE, !.padButtons = {}]), FALSE)

\* Escape, a window without the focus and the setting release the mouse.
ReleasedCapture(w, in) ==
    IF w.captured /\ (in.escape \/ ~in.focus \/ ~w.enabled) THEN SetCapture(w, FALSE) ELSE w

\* `poll_library_gamepad`: a disc may be loaded with the select button, or the
\* library closed with the back button; the pad is not given to the player.
PollLibrary(w, in) ==
    [w EXCEPT !.padButtons = {},
              !.library = ~(in.loads \/ BackButton \in in.presses)]

\* The press that captures the mouse.
Capturing(w, in) ==
    /\ w.enabled /\ ~w.captured /\ in.hover
    /\ SelectButton \in in.mouse \ mouse

\* The picture: mouse buttons are taken where the mouse is captured or hovers;
\* the press that captures the mouse is the host's.
Picture(w, in) ==
    LET pressed == in.mouse \ mouse
        w1 == IF Capturing(w, in) THEN [SetCapture(w, TRUE) EXCEPT !.suppressClick = TRUE] ELSE w
        kept == [w1 EXCEPT !.game = w1.game \ (mouse \ in.mouse),
                           !.suppressClick = w1.suppressClick /\ SelectButton \notin mouse \ in.mouse]
        taken == IF kept.captured
                 THEN pressed \ (IF kept.suppressClick THEN {SelectButton} ELSE {})
                 ELSE IF ~w.enabled /\ in.hover THEN pressed ELSE {}
        w2 == [kept EXCEPT !.game = kept.game \cup taken]
    IN  IF in.viewing THEN w
        ELSE IF w2.captured \/ (~w.enabled /\ in.moved /\ in.hover) THEN Given(w2) ELSE w2

\* Buttons held while the menu opens end there; the player stops.
OpenQuickMenu(w) ==
    SetCapture([w EXCEPT !.menu = TRUE, !.selection = 0, !.buttons = {}], FALSE)

CloseQuickMenu(w) == [w EXCEPT !.menu = FALSE]

EnterLibrary(w) == [w EXCEPT !.menu = FALSE, !.library = TRUE]

\* A click on a row of the quick menu.
PaintQuickMenu(w, in) ==
    IF ~w.menu \/ in.clicked \notin {"to library", "to title"} THEN w
    ELSE IF in.clicked = "to library" THEN EnterLibrary(w) ELSE CloseQuickMenu(w)

\* `poll_guest_keyboard`: without the focus, or in a view of the host, every
\* key goes up; a key that is down already, or never went down, is ignored. The
\* events of a Command shortcut are the host's, the release of a key that went
\* down before Command among them.
PollGuestKeyboard(w, in) ==
    LET k == in.key.key
    IN  IF ~in.focus \/ in.typing \/ in.viewing \/ w.library \/ w.menu THEN ReleaseGuestKeyboard(w)
        ELSE IF in.key = NoKey \/ in.command THEN w
        ELSE IF in.key.down /\ k \notin Held(w)
        THEN [w EXCEPT !.keys = Append(w.keys, k), !.events = Append(w.events, KeyEvent(k, TRUE))]
        ELSE IF ~in.key.down /\ k \in Held(w)
        THEN [w EXCEPT !.keys = SubSeq(w.keys, 1, Position(w, k) - 1)
                                    \o SubSeq(w.keys, Position(w, k) + 1, Len(w.keys)),
                       !.events = Append(w.events, KeyEvent(k, FALSE))]
        ELSE w

\* `poll_keyboard`, or the release of the keyboard while the menu is open.
PollKeyboard(w, in) ==
    IF w.menu THEN [ReleaseGuestKeyboard(w) EXCEPT !.kb = {}]
    ELSE IF w.passthrough
    THEN LET w1 == PollGuestKeyboard(w, in)
         IN  IF w1.kb = {} THEN w1
             ELSE [w1 EXCEPT !.kb = {}, !.buttons = w1.game \cup w1.padButtons]
    ELSE IF in.typing \/ in.viewing THEN w
    ELSE IF in.kb = w.kb /\ ~in.moved THEN w ELSE Given([w EXCEPT !.kb = in.kb])

\* The menu's own use of the pad.
MenuPad(w, in) ==
    LET turned == IF in.dpad THEN [w EXCEPT !.selection = 1 - w.selection] ELSE w
    IN  IF in.menuButton
        THEN IF w.library THEN w ELSE IF w.menu THEN CloseQuickMenu(w) ELSE OpenQuickMenu(w)
        ELSE IF ~w.menu THEN w
        ELSE IF BackButton \in in.presses THEN CloseQuickMenu(turned)
        ELSE IF SelectButton \in in.presses
        THEN IF turned.selection = 0 THEN EnterLibrary(turned) ELSE CloseQuickMenu(turned)
        ELSE turned

\* `quick_menu_consumes_controller_poll`.
MenuConsumes(w, in) == w.menu \/ (in.menuButton /\ ~w.library)

\* Mutant: what is held when the menu closes goes to the player.
SuppressNothing(w, in) == {}

\* Pad buttons kept from the player until they are released.
Suppressed(w, in) ==
    IF MenuConsumes(w, in) THEN w.suppressed \cup in.pad ELSE w.suppressed \cap in.pad

\* `poll_gamepad`.
PollGamepad(w, in) ==
    LET paused == IF in.start = w.pause THEN w
                  ELSE [w EXCEPT !.pause = in.start, !.events = Append(w.events, PauseEvent(in.start))]
        held == [MenuPad(paused, in) EXCEPT !.suppressed = Suppressed(paused, in)]
        free == in.pad \ held.suppressed
    IN  IF MenuConsumes(w, in) THEN [held EXCEPT !.padButtons = {}, !.buttons = {}]
        ELSE IF free = w.padButtons /\ ~in.dpad THEN held
        ELSE Given([held EXCEPT !.padButtons = free])

-----------------------------------------------------------------------------
\* One pass: `update`. The library replaces everything after the status bar.
Before == [f \in DOMAIN win \cup {"buttons", "events"} |->
              IF f = "buttons" THEN buttons ELSE IF f = "events" THEN events ELSE win[f]]
StatusBar(in) ==
    LET w == ReleasedCapture(Before, in)
    IN  IF in.clicked = "library" THEN ToggleLibrary(w) ELSE w

BeforePad(in) == PollKeyboard(PaintQuickMenu(Picture(StatusBar(in), in), in), in)

Pass(in) ==
    IF StatusBar(in).library THEN PollLibrary(StatusBar(in), in)
    ELSE PollGamepad(BeforePad(in), in)

\* Pad buttons that were not released since the last pass.
StillHeld(in) == (pad \cap in.pad) \ in.presses

Look(in) ==
    LET w == Pass(in)
        played == ~StatusBar(in).library
    IN
    /\ Len(w.events) + Len(w.keys) <= MaxEvents
    /\ win' = [f \in DOMAIN win |-> w[f]]
    /\ buttons' = w.buttons
    /\ events' = w.events
    /\ pad' = in.pad /\ mouse' = in.mouse
    /\ pressedKeys' = IF in.key = NoKey THEN pressedKeys
                      ELSE IF in.key.down THEN pressedKeys \cup {in.key.key}
                                          ELSE pressedKeys \ {in.key.key}
    /\ skipped' = Held(w) \cap
           (IF in.key = NoKey THEN skipped
            ELSE IF in.command /\ ~in.key.down THEN skipped \cup {in.key.key}
                                               ELSE skipped \ {in.key.key})
    /\ usedInMenu' = (usedInMenu \cap StillHeld(in)) \cup
                         (IF played /\ MenuConsumes(BeforePad(in), in) THEN in.pad ELSE {})
    /\ captureHeld' = /\ SelectButton \in in.mouse
                      /\ captureHeld \/ (played /\ ~in.viewing /\ Capturing(StatusBar(in), in))
    /\ UNCHANGED guest

\* The settings switch between the CD-i keyboard and keys that move the pointer.
TogglePassthrough ==
    LET w == ReleaseGuestKeyboard(Before)
    IN  /\ Len(w.events) + Len(w.keys) <= MaxEvents
        /\ win' = [f \in DOMAIN win |-> IF f = "passthrough" THEN ~win.passthrough ELSE w[f]]
        /\ events' = w.events /\ skipped' = {}
        /\ UNCHANGED <<buttons, guest, pad, mouse, pressedKeys, usedInMenu, captureHeld>>

\* The setting to capture the mouse.
ToggleCapture ==
    /\ win' = [win EXCEPT !.enabled = ~win.enabled]
    /\ UNCHANGED <<buttons, events, guest, pad, mouse, pressedKeys, usedInMenu, captureHeld, skipped>>

\* The events applied to what the player holds.
Apply(g, e) ==
    IF e.kind = "pause" THEN [g EXCEPT !.pause = e.down]
    ELSE [g EXCEPT !.keys = IF e.down THEN g.keys \cup {e.code} ELSE g.keys \ {e.code}]

Replayed(g, queue) ==
    LET after[n \in 0..Len(queue)] == IF n = 0 THEN g ELSE Apply(after[n - 1], queue[n])
    IN  after[Len(queue)]

\* The emulation thread before a frame.
EmulateFrame ==
    /\ ~win.menu
    /\ guest' = [Replayed(guest, events) EXCEPT !.buttons = buttons]
    /\ events' = <<>>
    /\ UNCHANGED <<win, buttons, pad, mouse, pressedKeys, usedInMenu, captureHeld, skipped>>

HostInit ==
    /\ win = [library |-> FALSE, menu |-> FALSE, selection |-> 0, captured |-> FALSE,
              enabled |-> TRUE, suppressClick |-> FALSE, game |-> {}, padButtons |-> {}, suppressed |-> {},
              kb |-> {}, keys |-> <<>>, pause |-> FALSE, passthrough |-> FALSE]
    /\ buttons = {} /\ events = <<>>
    /\ guest = [buttons |-> {}, keys |-> {}, pause |-> FALSE]
    /\ pad = {} /\ mouse = {} /\ pressedKeys = {}
    /\ usedInMenu = {} /\ captureHeld = FALSE /\ skipped = {}

\* Input the host can produce: what is newly held was pressed, and a key goes
\* down when it is up and up when it is down.
HostInputs ==
    {in \in [pad : SUBSET CdiButton, presses : SUBSET CdiButton, mouse : SUBSET CdiButton,
             kb : SUBSET CdiButton, key : [key : HostKey, down : BOOLEAN] \cup {NoKey},
             command : BOOLEAN,
             menuButton : BOOLEAN, start : BOOLEAN, dpad : BOOLEAN, moved : BOOLEAN,
             hover : BOOLEAN, focus : BOOLEAN, typing : BOOLEAN, viewing : BOOLEAN,
             escape : BOOLEAN, loads : BOOLEAN,
             clicked : {"nothing", "library", "to library", "to title"}] :
        /\ in.pad \ pad \subseteq in.presses
        /\ in.key # NoKey => in.key.down = (in.key.key \notin pressedKeys)}

HostNext ==
    \/ \E in \in HostInputs : Look(in)
    \/ TogglePassthrough \/ ToggleCapture
    \/ EmulateFrame

HostSpec == HostInit /\ [][HostNext]_hostVars

-----------------------------------------------------------------------------
(* Properties.                                                             *)

HostTypeOK ==
    /\ buttons \subseteq CdiButton
    /\ win.game \cup win.padButtons \cup win.kb \cup win.suppressed \subseteq CdiButton
    /\ Held(win) \subseteq HostKey
    /\ guest.keys \subseteq Code(HostKey)

\* Whatever the player holds once the queue is applied, the window holds, and
\* what the window holds is held down on the host: no key is left stuck in the
\* player by a menu, a view, a text field or a lost focus that hides its
\* release. The exception are keys let go of while Command was down: their
\* release is skipped, and they stay in the player until the key is used again
\* or a view, another window or the setting takes the keyboard (main.rs:3832).
NoStuckKey ==
    LET player == Replayed(guest, events)
    IN  /\ player.keys \subseteq Code(Held(win))
        /\ player.pause = win.pause
        /\ Held(win) \subseteq pressedKeys \cup skipped
        /\ win.library \/ ~win.passthrough => skipped = {}

\* A pad button held while the quick menu used the pad is not given to the
\* player before it has been released, wherever the menu led.
MenuPressStaysWithHost == usedInMenu \cap win.padButtons = {}

\* "Capturing is a frontend action, not a CD-i click": while the press that
\* captured the mouse lasts, the player's button is up. Only the buttons given
\* to the player are cleared, not those the window remembers: one whose release
\* the library hid is given again in the same pass.
CaptureStaysWithHost == captureHeld => SelectButton \notin win.game

HostInv == HostTypeOK /\ NoStuckKey /\ MenuPressStaysWithHost
=============================================================================
