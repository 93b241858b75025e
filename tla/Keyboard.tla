------------------------------ MODULE Keyboard ------------------------------
(***************************************************************************)
(* The K-mode keyboard on the SCC68070's serial port (keyboard.rs). It     *)
(* sends its ID when it is powered on and when the guest recognises it, by *)
(* holding RTS low for a time and raising it again, and a packet of two    *)
(* bytes whenever the keys or the modifiers change. Bytes take time, RTS   *)
(* may fall between any two of them, and keys move whenever they like.     *)
(***************************************************************************)
EXTENDS Integers, Sequences, SequencesExt

CONSTANTS
    Key, Modifier,      \* codes of keys, and states of the modifiers
    Up,                 \* the modifiers when none is pressed
    NoKey,              \* a packet's key when none is held
    BitTime,            \* `bit_cycles`, in ticks
    Character,          \* `character_cycles`
    Recognition,        \* `recognition_low_cycles`
    PowerOn,            \* `power_on_id_cycles`
    MaxTicks,           \* ticks that may pass at once
    MaxPending          \* bound: bytes queued before the host holds back keys

ASSUME KeyboardAssumption ==
    /\ {BitTime, Character, Recognition, PowerOn, MaxTicks} \subseteq Nat \ {0}
    /\ MaxPending \in Nat /\ Up \in Modifier /\ NoKey \notin Key

VARIABLES
    attached, rts, rtsLow, pending, powerOn, idPending, pressedKeys, modifiers,
    tx,         \* `tx_countdown`, None if no byte is being sent
    guest       \* the guest's side, see Parse; external, and what it can expect

keyboardVars == <<attached, rts, rtsLow, pending, powerOn, idPending, pressedKeys, modifiers, tx, guest>>

None == -1

\* A byte: the ID, or the first or the second byte of packet `of`. The key is
\* split between the two.
Id == [kind |-> "id", of |-> <<NoKey, Up>>]
Part(kind, state) == [kind |-> kind, of |-> state]

HeldKey(held) == IF held = <<>> THEN NoKey ELSE Last(held)
StateOf(held, mods) == <<HeldKey(held), mods>>

-----------------------------------------------------------------------------
(* The guest takes a first byte and the second one that follows it for a   *)
(* packet, and an ID for itself. `lost` is whether bytes of the packet that *)
(* says how things are were thrown away, `owed` whether an ID is due.      *)

Parse(g, byte) ==
    CASE byte.kind = "id" -> [g EXCEPT !.owed = FALSE]
      [] byte.kind = "first" -> [g EXCEPT !.half = byte.of, !.owed = FALSE]
      [] OTHER -> [g EXCEPT !.packet = <<g.half, byte.of>>, !.owed = FALSE]

Unparsed == [half |-> <<NoKey, Up>>, packet |-> <<<<NoKey, Up>>, <<NoKey, Up>>>>,
             lost |-> FALSE, owed |-> FALSE]

-----------------------------------------------------------------------------
ResetSerialState ==
    /\ rts' = FALSE /\ rtsLow' = 0 /\ pending' = <<>> /\ tx' = None /\ idPending' = FALSE
    /\ pressedKeys' = <<>> /\ modifiers' = Up
    /\ guest' = Unparsed

SetAttached(yes) ==
    /\ attached' = yes
    /\ ResetSerialState
    /\ powerOn' = IF yes THEN PowerOn ELSE None

ResetKeyboard ==
    /\ ResetSerialState
    /\ powerOn' = IF attached THEN PowerOn ELSE None
    /\ UNCHANGED attached

\* Mutant: what was queued before the recognition is sent before the ID.
QueueIdentificationBehind(delay) ==
    /\ pending' = Append(pending, Id)
    /\ tx' = delay
    /\ guest' = [guest EXCEPT !.owed = TRUE]

QueueIdentification(delay) ==
    /\ pending' = <<Id>>
    /\ tx' = delay
    /\ guest' = [guest EXCEPT !.owed = TRUE, !.lost = @ \/ pending # <<>>]

\* A fall throws the queue away; a rise brings the ID that waited for it, or
\* the answer to a recognition.
RtsFalls ==
    /\ rts
    /\ rts' = FALSE
    /\ IF attached
       THEN /\ pending' = <<>> /\ tx' = None /\ rtsLow' = 0
            /\ guest' = [guest EXCEPT !.lost = @ \/ pending # <<>>, !.owed = FALSE]
       ELSE UNCHANGED <<pending, tx, rtsLow, guest>>
    /\ UNCHANGED <<attached, powerOn, idPending, pressedKeys, modifiers>>

RtsRises ==
    /\ ~rts
    /\ rts' = TRUE
    /\ CASE attached /\ idPending ->
              /\ idPending' = FALSE
              /\ QueueIdentification(Character)
              /\ UNCHANGED powerOn
         [] attached /\ ~idPending /\ rtsLow >= Recognition ->
              /\ powerOn' = None /\ idPending' = FALSE
              /\ QueueIdentification(BitTime + Character)
         [] OTHER -> UNCHANGED <<idPending, powerOn, pending, tx, guest>>
    /\ UNCHANGED <<attached, rtsLow, pressedKeys, modifiers>>

\* Bytes are queued whether RTS is up or not, and sent once they are the first
\* to be queued while it is.
QueueStatePacket(state) ==
    /\ pending' = pending \o <<Part("first", state), Part("second", state)>>
    /\ tx' = IF rts /\ tx = None THEN Character ELSE tx
    /\ guest' = [guest EXCEPT !.lost = FALSE]

Without(held, code) ==
    IF Contains(held, code) THEN RemoveAt(held, CHOOSE i \in DOMAIN held : held[i] = code) ELSE held

\* A key that goes up need not be one that is held: its packet is sent anyway.
SetKey(code, down, mods) ==
    /\ attached /\ Len(pending) < MaxPending
    /\ LET others == Without(pressedKeys, code)
       IN pressedKeys' = IF down THEN Append(others, code) ELSE others
    /\ modifiers' = mods
    /\ QueueStatePacket(StateOf(pressedKeys', mods))
    /\ UNCHANGED <<attached, rts, rtsLow, powerOn, idPending>>

SetModifiers(mods) ==
    /\ attached /\ mods # modifiers /\ Len(pending) < MaxPending
    /\ modifiers' = mods
    /\ QueueStatePacket(StateOf(pressedKeys, mods))
    /\ UNCHANGED <<attached, rts, rtsLow, powerOn, idPending, pressedKeys>>

-----------------------------------------------------------------------------
\* The countdown of s runs out, and the next byte is timed from there.
SendByte(s) ==
    IF s.tx = None \/ s.left < s.tx THEN s
    ELSE LET rest == Tail(s.pending) IN
         [left |-> s.left - s.tx, pending |-> rest, guest |-> Parse(s.guest, Head(s.pending)),
          tx |-> IF rest = <<>> THEN None ELSE Character]

\* What is sent to the guest g in `ticks` while RTS is up.
Sending(ticks, g) ==
    LET start == [left |-> ticks, tx |-> tx, pending |-> pending, guest |-> g]
        run[n \in 0..Len(pending)] == IF n = 0 THEN start ELSE SendByte(run[n - 1])
        s == run[Len(pending)]
    IN [s EXCEPT !.tx = IF @ = None THEN None ELSE @ - s.left]

PowerOnIsDue(ticks) == powerOn # None /\ ticks >= powerOn

\* The ID of a keyboard that was just powered on does not wait for the queue.
KeyboardTick(ticks) ==
    /\ attached
    /\ powerOn' = IF powerOn = None \/ PowerOnIsDue(ticks) THEN None ELSE powerOn - ticks
    /\ idPending' = (idPending \/ (PowerOnIsDue(ticks) /\ ~rts))
    /\ IF rts
       THEN LET s == Sending(ticks, IF PowerOnIsDue(ticks) THEN Parse(guest, Id) ELSE guest)
            IN tx' = s.tx /\ pending' = s.pending /\ guest' = s.guest /\ UNCHANGED rtsLow
       ELSE \* Bound: RTS is low for at least Recognition, or for how long it is.
            /\ rtsLow' = IF rtsLow + ticks > Recognition THEN Recognition ELSE rtsLow + ticks
            /\ UNCHANGED <<tx, pending, guest>>
    /\ UNCHANGED <<attached, rts, pressedKeys, modifiers>>

KeyboardInit ==
    /\ attached = FALSE /\ rts = FALSE /\ rtsLow = 0 /\ pending = <<>> /\ tx = None
    /\ powerOn = None /\ idPending = FALSE /\ pressedKeys = <<>> /\ modifiers = Up
    /\ guest = Unparsed

KeyboardNext ==
    \/ \E yes \in BOOLEAN : SetAttached(yes)
    \/ ResetKeyboard
    \/ RtsFalls \/ RtsRises
    \/ \E code \in Key, down \in BOOLEAN, mods \in Modifier : SetKey(code, down, mods)
    \/ \E mods \in Modifier : SetModifiers(mods)
    \/ \E ticks \in 1..MaxTicks : KeyboardTick(ticks)

KeyboardSpec == KeyboardInit /\ [][KeyboardNext]_keyboardVars

-----------------------------------------------------------------------------
State == (Key \cup {NoKey}) \X Modifier

KeyboardTypeOK ==
    /\ attached \in BOOLEAN /\ rts \in BOOLEAN /\ idPending \in BOOLEAN
    /\ rtsLow \in 0..Recognition /\ powerOn \in -1..PowerOn /\ tx \in -1..(BitTime + Character)
    /\ pending \in Seq([kind : {"id", "first", "second"}, of : State])
    /\ pressedKeys \in Seq(Key) /\ modifiers \in Modifier

\* The two bytes the guest puts together belong to one packet, whatever was
\* thrown away or sent between them (keyboard.rs:100, 164).
PacketsWhole == guest.packet[1] = guest.packet[2]

\* A keyboard with nothing left to send has told the guest the keys and the
\* modifiers as they are, unless RTS or a recognition took that packet away
\* (keyboard.rs:164).
GuestKnowsTheKeys ==
    (attached /\ pending = <<>> /\ ~guest.lost) =>
        guest.packet[2] = StateOf(pressedKeys, modifiers)

\* The ID is the first thing sent to a guest that recognises the keyboard, and
\* it is on its way (keyboard.rs:132).
IdComesFirst == guest.owed => rts /\ pending # <<>> /\ Head(pending) = Id /\ tx # None

\* A byte is only being sent while RTS is up and there is one.
SendingIsDriven == tx # None => rts /\ attached /\ pending # <<>> /\ tx > 0

KeyboardInv ==
    KeyboardTypeOK /\ PacketsWhole /\ GuestKnowsTheKeys /\ IdComesFirst /\ SendingIsDriven

\* "Sends two-byte packets only when key or modifier state changes"
\* (keyboard.rs:7): one queued while RTS is low for less than a recognition
\* waits for the next change.
QueuedBytesMove == (attached /\ rts /\ pending # <<>>) => tx # None
=============================================================================
