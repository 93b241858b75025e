------------------------------- MODULE Slave -------------------------------
(***************************************************************************)
(* The SLAVE microcontroller (crates/cdi-core/src/slave.rs, SlaveHle): it  *)
(* answers the 68070 over four byte channels that share one interrupt      *)
(* line, IN2.  The guest CPU writes command bytes and reads reply bytes,   *)
(* the host frontend injects input and media changes, and the machine      *)
(* ticks it.  All three interleave freely.                                 *)
(*                                                                         *)
(* Variables group the fields of the struct and keep their names:          *)
(*   out        what the guest can read, the interrupt state, and the four *)
(*              queues of replies and reports that wait for a channel      *)
(*   parser     in_buf[0], in_index, in_count: ONE assembly buffer for the *)
(*              four channels                                              *)
(*   mode       the gates and latches that commands set                    *)
(*   keyboard, player, drive, pointer   the attached devices               *)
(*   poll_countdown                     clocks to the next input poll      *)
(*                                                                         *)
(* Data kept abstract: a command byte is its hexadecimal name and one name *)
(* may stand for a class of bytes the code treats alike; a packet is the   *)
(* tuple of its informative bytes; the pointer has one axis; delays are    *)
(* small constants in place of fractions of a second.  The LCD text and    *)
(* the transport repeat delay are written and never read: left out.        *)
(***************************************************************************)
EXTENDS Integers, Sequences, SequencesExt

CONSTANTS
    HostWrites,       \* the <<channel, byte>> pairs the guest may write
    Keys, Modifiers,  \* key codes and modifier states of the keyboard
    NoKey, NoModifiers,
    Attachments,      \* the values of "a keyboard is attached" the frontend sets
    PlayerKeys,       \* the physical player-control keys
    MaxPosition,      \* the pointer moves over 0..MaxPosition
    Positions,        \* the absolute positions the frontend reports
    Motions,          \* relative motions the frontend may report
    Buttons,          \* button states, 0 is none
    Videos,           \* video standards: 1 is NTSC, 2 is PAL
    Discs,            \* the values of "a disc is present" the frontend sets
    DiscTypes,        \* disc types: 2 is CD-i, 4 is CD-ROM XA Bridge
    ReadbackDelay,    \* clock_hz / 10000
    DriveStatusDelay, \* clock_hz / 4
    PollInterval,     \* clock_hz / 60
    TickLengths,      \* the cycle counts one tick may cover
    MaxQueue          \* bound of each of the four VecDeques

Channels == 0..3
NoByte == "none"
\* Mutant: an assembly buffer too short for the four-byte payloads.
ShortBuffer == 3

ParserCap == 18      \* in_index is compared with at most 17

(* Bytes: "00" any byte no table names, "80"/"82" also the immediate       *)
(* commands without modelled effect, "C0" the class C0..CF, "D0" the class *)
(* D0..EF, "F8" the channel-3 commands that only rewind the parser.        *)
Bytes == {"00", "80", "81", "82", "83", "84", "87", "88", "8A", "8D", "8E",
          "90", "B0", "B1", "C0", "D0", "F0", "F3", "F4", "F6", "F7", "F8",
          "FA", "FB"}
PositionBytes == {"C0", "D0", "F0", "F3", "F4", "F6", "F7", "F8", "FA", "FB"}

NoCmd == "none"
Queries == {"F0", "F3", "F4", "F6"}
Replies == Queries \cup {"87", "A0", "B0", "B1", "F7"}
ReplyLength == [cmd \in Replies |->
    CASE cmd \in Queries \cup {"87"} -> 2
      [] cmd = "A0" -> 3
      [] OTHER -> 4]
\* Replies whose first byte acknowledges the channel's interrupt.
AckingReplies == Replies \ {"F6", "87"}

ASSUME SlaveAssumption ==
    /\ HostWrites \subseteq Channels \X Bytes
    /\ Attachments \subseteq BOOLEAN /\ NoKey \notin Keys /\ NoModifiers \in Modifiers
    /\ MaxPosition \in Nat /\ Positions \subseteq 0..MaxPosition /\ Motions \subseteq Int
    /\ Buttons \subseteq Nat /\ 0 \in Buttons
    /\ Videos \subseteq {1, 2} /\ Discs \subseteq BOOLEAN /\ DiscTypes \subseteq {2, 4}
    /\ ReadbackDelay \in Nat \ {0} /\ DriveStatusDelay \in Nat \ {0}
    /\ PollInterval \in Nat \ {0}
    /\ TickLengths \subseteq Nat \ {0}
    /\ MaxQueue \in Nat

VARIABLES out, parser, mode, keyboard, player, drive, pointer, poll_countdown
vars == <<out, parser, mode, keyboard, player, drive, pointer, poll_countdown>>

-----------------------------------------------------------------------------
(* Types *)

KeyPackets == {"A0"} \X (Keys \cup {NoKey}) \X Modifiers
PlayerPackets == {"87"} \X SUBSET PlayerKeys
QueryPackets == Queries \X {0, 1, 2, 5}
DrivePackets == {"B0", "B1"} \X {0, 2, 4, 66, 68}
PointerPackets == {"F7"} \X (0..MaxPosition) \X Buttons
Packets == KeyPackets \cup PlayerPackets \cup QueryPackets
           \cup DrivePackets \cup PointerPackets

OutChannel == [cmd : Replies, index : Nat, count : Nat \ {0}, buf : Packets]
EmptyChannel == [cmd |-> NoCmd, index |-> 0, count |-> 0, buf |-> <<>>]
PendingReadback == [cmd : Queries, buf : QueryPackets, delay : Nat]

OutType ==
    [channels : [Channels -> OutChannel \cup {EmptyChannel}],
     irq_countdowns : [Channels -> Nat],      \* 0 is None
     irq_pending_channels : SUBSET Channels,
     irq_asserted : BOOLEAN,
     pending_channel2_readbacks : Seq(PendingReadback),
     pending_keyboard : Seq(KeyPackets),
     pending_player_control : Seq(PlayerPackets),
     pending_drive_status : Seq(DrivePackets)]

ParserType == [head : Bytes \cup {NoByte}, index : Nat, count : Nat]

ModeType ==
    [polling_active : BOOLEAN, pointer_interrupt_enable : BOOLEAN,
     xbus_interrupt_enable : BOOLEAN, player_control_enabled : BOOLEAN,
     keyboard_events_enabled : BOOLEAN, boot_status : {0, 2},
     host_reset_requested : BOOLEAN, attenuation : BOOLEAN,
     transport_adjust_enabled : BOOLEAN, transport_parameter_bytes : 0..2,
     video_status : {1, 2}]

KeyboardType == [attached : BOOLEAN, pressed : Seq(Keys), modifiers : Modifiers]
DriveType == [disc_present : BOOLEAN, disc_boot_mode : BOOLEAN,
              disc_type_code : {2, 4}]
PointerType == [input : 0..MaxPosition, buttons : Buttons,
                last : -1..MaxPosition, last_buttons : Buttons,
                device : 0..MaxPosition, pending : Int]

\* Every field holds a value the code can represent.
TypeOK ==
    /\ out \in OutType
    /\ parser \in ParserType
    /\ mode \in ModeType
    /\ keyboard \in KeyboardType
    /\ player \in SUBSET PlayerKeys
    /\ drive \in DriveType
    /\ pointer \in PointerType
    /\ poll_countdown \in 1..PollInterval

-----------------------------------------------------------------------------
(* The reply side: channels, the shared interrupt line and the queues.     *)
(* Each operator is the value of `out' after the method of that name.      *)

AssertChannelIrq(o, c) ==
    [o EXCEPT !.irq_pending_channels = @ \cup {c}, !.irq_asserted = TRUE]

\* Mutant: the line stays asserted when the last contributor is gone.
ClearOnlyContribution(o, c) == [o EXCEPT !.irq_pending_channels = @ \ {c}]

ClearChannelIrq(o, c) ==
    [o EXCEPT !.irq_pending_channels = @ \ {c},
              !.irq_asserted = o.irq_pending_channels \ {c} # {}]

FreshChannel(cmd, buf) ==
    [cmd |-> cmd, index |-> 0, count |-> ReplyLength[cmd], buf |-> buf]

PrepareReadback(o, c, cmd, buf, delay) ==
    [o EXCEPT !.channels[c] = FreshChannel(cmd, buf), !.irq_countdowns[c] = delay]

ServicePlayerControl(o, m) ==
    IF /\ m.player_control_enabled
       /\ o.channels[1].count = 0
       /\ o.pending_player_control # <<>>
    THEN AssertChannelIrq(
           [o EXCEPT !.channels[1] = FreshChannel("87", Head(o.pending_player_control)),
                     !.pending_player_control = Tail(@)], 1)
    ELSE o

\* Mutant: a key report overwrites a status reply that waits for its delay.
ReplaceReply(o, m) ==
    IF m.keyboard_events_enabled /\ o.pending_keyboard # <<>>
    THEN AssertChannelIrq(
           [o EXCEPT !.channels[2] = FreshChannel("A0", Head(o.pending_keyboard)),
                     !.pending_keyboard = Tail(@)], 2)
    ELSE o

ServiceKeyboard(o, m) ==
    IF /\ m.keyboard_events_enabled
       /\ o.channels[2].count = 0
       /\ o.pending_channel2_readbacks = <<>>
       /\ o.pending_keyboard # <<>>
    THEN AssertChannelIrq(
           [o EXCEPT !.channels[2] = FreshChannel("A0", Head(o.pending_keyboard)),
                     !.pending_keyboard = Tail(@)], 2)
    ELSE o

\* Mutant: the next reply is prepared over a half-read one.
ServiceBusyChannel2(o, m) ==
    IF o.irq_countdowns[2] # 0 THEN o
    ELSE IF o.pending_channel2_readbacks # <<>>
    THEN LET r == Head(o.pending_channel2_readbacks)
         IN  PrepareReadback(
               [o EXCEPT !.pending_channel2_readbacks = Tail(@)],
               2, r.cmd, r.buf, r.delay)
    ELSE ServiceKeyboard(o, m)

ServiceChannel2(o, m) ==
    IF o.channels[2].count # 0 \/ o.irq_countdowns[2] # 0 THEN o
    ELSE IF o.pending_channel2_readbacks # <<>>
    THEN LET r == Head(o.pending_channel2_readbacks)
         IN  PrepareReadback(
               [o EXCEPT !.pending_channel2_readbacks = Tail(@)],
               2, r.cmd, r.buf, r.delay)
    ELSE ServiceKeyboard(o, m)

\* Mutant: a query answers over the reply channel 2 still holds.
AnswerAtOnce(o, m, cmd, buf, delay) == PrepareReadback(o, 2, cmd, buf, delay)

\* Mutant: a query is queued and nothing serves the idle channel.
QueueOnly(o, m, cmd, buf, delay) ==
    [o EXCEPT !.pending_channel2_readbacks =
                Append(@, [cmd |-> cmd, buf |-> buf, delay |-> delay])]

QueueChannel2Readback(o, m, cmd, buf, delay) ==
    ServiceChannel2(
      [o EXCEPT !.pending_channel2_readbacks =
                  Append(@, [cmd |-> cmd, buf |-> buf, delay |-> delay])], m)

\* Mutant: a notice does not wait for the reply channel 3 still holds.
NoticeAtOnce(o, m) ==
    IF m.xbus_interrupt_enable /\ o.pending_drive_status # <<>>
    THEN PrepareReadback([o EXCEPT !.pending_drive_status = Tail(@)],
                         3, "B0", Head(o.pending_drive_status), ReadbackDelay)
    ELSE o

ServiceDriveStatusNotification(o, m) ==
    IF /\ m.xbus_interrupt_enable
       /\ o.channels[3].count = 0
       /\ o.irq_countdowns[3] = 0
       /\ o.pending_drive_status # <<>>
    THEN PrepareReadback([o EXCEPT !.pending_drive_status = Tail(@)],
                         3, "B0", Head(o.pending_drive_status), ReadbackDelay)
    ELSE o

\* Mutant: the report stays on the channel after its path is disabled.
WithdrawNothing(o, c, cmd) == o

\* Disabling a report path takes its half-read report off the channel too.
WithdrawReport(o, c, cmd) ==
    IF o.channels[c].cmd = cmd
    THEN ClearChannelIrq([o EXCEPT !.channels[c] = EmptyChannel], c)
    ELSE o

EmptyDrive == <<"B0", 0>>
DriveStatusPacket(d) ==
    IF d.disc_present
    THEN <<"B0", d.disc_type_code + (IF d.disc_boot_mode THEN 64 ELSE 0)>>
    ELSE EmptyDrive

KeyboardPacket(k) ==
    <<"A0", IF k.pressed = <<>> THEN NoKey ELSE Last(k.pressed), k.modifiers>>

-----------------------------------------------------------------------------
(* Power-on and reset: SlaveHle::new, and reset, which keeps the hardware  *)
(* facts (attached keyboard, medium, video standard) and nothing else.     *)

NewOut ==
    [channels |-> [c \in Channels |-> EmptyChannel],
     irq_countdowns |-> [c \in Channels |-> 0],
     irq_pending_channels |-> {},
     irq_asserted |-> FALSE,
     pending_channel2_readbacks |-> <<>>,
     pending_keyboard |-> <<>>,
     pending_player_control |-> <<>>,
     pending_drive_status |-> <<>>]

NewMode(video) ==
    [polling_active |-> FALSE, pointer_interrupt_enable |-> FALSE,
     xbus_interrupt_enable |-> FALSE, player_control_enabled |-> FALSE,
     keyboard_events_enabled |-> FALSE, boot_status |-> 0,
     host_reset_requested |-> FALSE, attenuation |-> FALSE,
     transport_adjust_enabled |-> FALSE, transport_parameter_bytes |-> 0,
     video_status |-> video]

NewKeyboard(attached) ==
    [attached |-> attached, pressed |-> <<>>, modifiers |-> NoModifiers]

NewPointer ==
    [input |-> 0, buttons |-> 0, last |-> -1, last_buttons |-> 0,
     device |-> 0, pending |-> 0]

IdleParser == [head |-> NoByte, index |-> 0, count |-> 0]

Init ==
    /\ out = NewOut
    /\ parser = IdleParser
    /\ \E video \in Videos : mode = NewMode(video)
    /\ keyboard = NewKeyboard(FALSE)
    /\ player = {}
    /\ drive = [disc_present |-> FALSE, disc_boot_mode |-> FALSE, disc_type_code |-> 2]
    /\ pointer = NewPointer
    /\ poll_countdown = PollInterval

Reset ==
    /\ out' = NewOut
    /\ parser' = IdleParser
    /\ mode' = NewMode(mode.video_status)
    /\ keyboard' = NewKeyboard(keyboard.attached)
    /\ player' = {}
    /\ drive' = [drive EXCEPT !.disc_boot_mode = FALSE]
    /\ pointer' = NewPointer
    /\ poll_countdown' = PollInterval

-----------------------------------------------------------------------------
(* The guest reads a channel.  An empty channel answers FF and changes     *)
(* nothing, so the action starts at a channel that holds a reply.          *)

Read(c) ==
    LET ch     == out.channels[c]
        acks   == ch.index = 0 /\ (ch.cmd \in AckingReplies \/ (c = 1 /\ ch.cmd = "87"))
        polled == out.irq_countdowns[c] # 0
        taken  == [out EXCEPT
                     !.irq_countdowns[c] = 0,
                     !.channels[c] = IF ch.count = 1 THEN EmptyChannel
                                     ELSE [ch EXCEPT !.index = @ + 1, !.count = @ - 1]]
        acked  == IF acks \/ polled THEN ClearChannelIrq(taken, c) ELSE taken
    IN  /\ ch.count # 0
        /\ out' = CASE c = 1 -> ServicePlayerControl(acked, mode)
                    [] c = 2 -> ServiceChannel2(acked, mode)
                    [] OTHER -> acked
        /\ UNCHANGED <<parser, mode, keyboard, player, drive, pointer, poll_countdown>>

-----------------------------------------------------------------------------
(* The guest writes a command byte.  Every byte but an idle channel 1's is *)
(* pushed into the shared buffer first.                                    *)

Pushed(b) ==
    [parser EXCEPT !.head = IF parser.index = 0 THEN b ELSE @,
                   !.index = IF @ < ParserCap THEN @ + 1 ELSE @]

\* in_index := 0.  The buffer beyond in_index is dead, in_count is not touched.
Rewound(p) == [p EXCEPT !.head = NoByte, !.index = 0]

\* Mutant: the length of the finished command is left behind.
ClearIndexOnly(p) == Rewound(p)

ClearInput(p) == [Rewound(p) EXCEPT !.count = 0]

\* Mutant: channel 1 takes a payload byte without looking at the length.
CountOnly(b) ==
    /\ parser' = IF parser.index = 0 THEN ClearInput(parser) ELSE Pushed(b)
    /\ UNCHANGED <<out, mode, keyboard, player, drive, pointer, poll_countdown>>

WritePlayer(b) ==
    LET p == Pushed(b) IN
    /\ IF parser.index = 0
       THEN /\ parser' = ClearInput(parser)
            /\ CASE b = "8D" ->
                      /\ mode' = [mode EXCEPT !.player_control_enabled = TRUE]
                      /\ out' = [out EXCEPT !.pending_player_control = <<>>]
                 [] b = "8E" ->
                      /\ mode' = [mode EXCEPT !.player_control_enabled = FALSE]
                      /\ out' = WithdrawReport(
                                  [out EXCEPT !.pending_player_control = <<>>], 1, "87")
                 [] OTHER -> UNCHANGED <<mode, out>>
       ELSE /\ parser' = IF p.index > 1 /\ p.index = p.count THEN ClearInput(p) ELSE p
            /\ UNCHANGED <<mode, out>>
    /\ UNCHANGED <<keyboard, player, drive, pointer, poll_countdown>>

MouseCommand(b) ==
    /\ mode' = CASE b = "83" -> [mode EXCEPT !.pointer_interrupt_enable = TRUE]
                 [] b = "84" -> [mode EXCEPT !.pointer_interrupt_enable = FALSE]
                 [] b = "87" -> [mode EXCEPT !.boot_status = 0]
                 [] b = "88" -> [mode EXCEPT !.boot_status = 2]
                 [] OTHER -> mode
    /\ out' = IF b = "83" /\ out.channels[0].cmd = "F7" /\ out.channels[0].count # 0
              THEN AssertChannelIrq(out, 0)
              ELSE out

WriteMouse(b) ==
    LET p == Pushed(b) IN
    /\ \/ /\ p.head \in PositionBytes
          /\ p.index = 1
          /\ parser' = [p EXCEPT !.count = 3]
          /\ UNCHANGED <<out, mode, pointer>>
       \/ /\ p.head \in PositionBytes
          /\ p.index # 1 /\ p.index = p.count
          /\ \E x \in 0..MaxPosition : pointer' = [pointer EXCEPT !.device = x]
          /\ parser' = ClearInput(p)
          /\ UNCHANGED <<out, mode>>
       \/ /\ p.head \in PositionBytes
          /\ p.index # 1 /\ p.index # p.count
          /\ parser' = p
          /\ UNCHANGED <<out, mode, pointer>>
       \/ /\ p.head \notin PositionBytes
          /\ MouseCommand(b)
          /\ parser' = IF p.index = 1 THEN Rewound(p) ELSE p
          /\ UNCHANGED pointer
    /\ UNCHANGED <<keyboard, player, drive, poll_countdown>>

\* Channel 2, first byte of a command.
Channel2Command(b) ==
    CASE b = "80" ->
           /\ mode' = [mode EXCEPT !.keyboard_events_enabled = TRUE]
           /\ out' = [out EXCEPT !.pending_keyboard = <<>>]
           /\ UNCHANGED drive
      [] b = "81" ->
           /\ mode' = [mode EXCEPT !.keyboard_events_enabled = FALSE]
           /\ out' = WithdrawReport([out EXCEPT !.pending_keyboard = <<>>], 2, "A0")
           /\ UNCHANGED drive
      [] b = "88" ->
           /\ mode' = [mode EXCEPT !.transport_adjust_enabled = ~@]
           /\ UNCHANGED <<out, drive>>
      [] b = "90" ->
           /\ mode' = [mode EXCEPT !.transport_parameter_bytes =
                                      IF mode.transport_adjust_enabled THEN 2 ELSE @]
           /\ UNCHANGED <<out, drive>>
      [] b = "8A" ->
           /\ mode' = [mode EXCEPT !.host_reset_requested = TRUE]
           /\ drive' = [drive EXCEPT !.disc_boot_mode = TRUE]
           /\ UNCHANGED out
      [] OTHER -> UNCHANGED <<out, mode, drive>>

WriteCh2(b) ==
    LET p == Pushed(b) IN
    /\ \/ /\ mode.transport_parameter_bytes # 0
          /\ mode' = [mode EXCEPT !.transport_parameter_bytes = @ - 1]
          /\ parser' = ClearInput(p)
          /\ UNCHANGED <<out, drive>>
       \/ /\ mode.transport_parameter_bytes = 0 /\ p.index > 1
          /\ mode' = IF p.index = p.count /\ p.head = "C0"
                     THEN [mode EXCEPT !.attenuation = TRUE] ELSE mode
          /\ parser' = CASE p.index # p.count -> p
                         [] p.index = p.count /\ p.head = "F0" -> [p EXCEPT !.count = 17]
                         [] OTHER -> ClearInput(p)
          /\ UNCHANGED <<out, drive>>
       \/ /\ mode.transport_parameter_bytes = 0 /\ p.index = 1
          /\ Channel2Command(b)
          /\ parser' = CASE b = "C0" -> [p EXCEPT !.count = 5]
                         [] b = "F0" -> [p EXCEPT !.count = 17]
                         [] OTHER -> ClearInput(p)
    /\ UNCHANGED <<keyboard, player, pointer, poll_countdown>>

\* The value a channel-3 query is answered with is read when it is asked.
QueryAnswer(b) ==
    <<b, CASE b = "F0" -> 0        \* the revision
           [] b = "F3" -> IF keyboard.attached THEN 5 ELSE 1
           [] b = "F4" -> mode.boot_status
           [] b = "F6" -> mode.video_status>>

Channel3Command(b) ==
    CASE b \in Queries ->
           /\ Len(out.pending_channel2_readbacks) < MaxQueue
           /\ out' = QueueChannel2Readback(out, mode, b, QueryAnswer(b),
                                           IF b = "F6" THEN 0 ELSE ReadbackDelay)
           /\ UNCHANGED mode
      [] b = "F7" ->
           /\ mode' = [mode EXCEPT !.polling_active = TRUE]
           /\ UNCHANGED out
      [] b = "FA" ->
           /\ mode' = [mode EXCEPT !.xbus_interrupt_enable = TRUE]
           /\ out' = ServiceDriveStatusNotification(out, mode')
      [] b = "FB" ->
           /\ mode' = [mode EXCEPT !.xbus_interrupt_enable = FALSE]
           /\ UNCHANGED out
      [] OTHER -> UNCHANGED <<out, mode>>

WriteCh3(b) ==
    LET p == Pushed(b) IN
    /\ \/ /\ p.index > 1 /\ p.index = p.count
          /\ out' = CASE p.head = "B0" ->
                           PrepareReadback(out, 3, "B0", DriveStatusPacket(drive),
                                           DriveStatusDelay)
                      [] p.head = "B1" ->
                           PrepareReadback(out, 3, "B1", <<"B1", 0>>, ReadbackDelay)
                      [] OTHER -> out
          /\ parser' = ClearInput(p)
          /\ UNCHANGED mode
       \/ /\ p.index > 1 /\ p.index # p.count
          /\ parser' = p
          /\ UNCHANGED <<out, mode>>
       \/ /\ p.index = 1
          /\ Channel3Command(b)
          /\ parser' = CASE b \in {"B0", "B1"} -> [p EXCEPT !.count = 4]
                         [] b \in Queries \cup {"F7", "F8", "FA", "FB"} -> Rewound(p)
                         [] OTHER -> ClearInput(p)
    /\ UNCHANGED <<keyboard, player, drive, pointer, poll_countdown>>

Write(c, b) ==
    CASE c = 0 -> WriteMouse(b)
      [] c = 1 -> WritePlayer(b)
      [] c = 2 -> WriteCh2(b)
      [] c = 3 -> WriteCh3(b)

-----------------------------------------------------------------------------
(* The frontend and the machine. *)

SetPointer(x, btn) ==
    /\ pointer' = [pointer EXCEPT !.input = x, !.buttons = btn]
    /\ UNCHANGED <<out, parser, mode, keyboard, player, drive, poll_countdown>>

\* Motions pile up until the next poll: the bound keeps the sum finite.
MovePointer(dx, btn) ==
    /\ pointer.pending + dx \in -MaxPosition..MaxPosition
    /\ pointer' = [pointer EXCEPT !.pending = @ + dx, !.buttons = btn]
    /\ UNCHANGED <<out, parser, mode, keyboard, player, drive, poll_countdown>>

SetPointerAbsolute(x, btn) ==
    /\ pointer' = [input |-> x, buttons |-> btn, last |-> x, last_buttons |-> btn,
                   device |-> x, pending |-> 0]
    /\ UNCHANGED <<out, parser, mode, keyboard, player, drive, poll_countdown>>

SetPlayerControlKey(key, pressed) ==
    LET held == IF pressed THEN player \cup {key} ELSE player \ {key} IN
    /\ held # player
    /\ player' = held
    /\ \/ /\ ~mode.player_control_enabled
          /\ UNCHANGED out
       \/ /\ mode.player_control_enabled
          /\ Len(out.pending_player_control) < MaxQueue
          /\ out' = ServicePlayerControl(
                      [out EXCEPT !.pending_player_control = Append(@, <<"87", held>>)], mode)
    /\ UNCHANGED <<parser, mode, keyboard, drive, pointer, poll_countdown>>

SetKeyboardAttached(attached) ==
    /\ keyboard.attached # attached
    /\ keyboard' = NewKeyboard(attached)
    /\ mode' = [mode EXCEPT !.keyboard_events_enabled = FALSE]
    /\ out' = WithdrawReport([out EXCEPT !.pending_keyboard = <<>>], 2, "A0")
    /\ UNCHANGED <<parser, player, drive, pointer, poll_countdown>>

\* Mutant: the packet is built before the state changes.
ReportOldKeyboard(k) ==
    \/ /\ ~mode.keyboard_events_enabled \/ KeyboardPacket(k) = KeyboardPacket(keyboard)
       /\ UNCHANGED out
    \/ /\ mode.keyboard_events_enabled /\ KeyboardPacket(k) # KeyboardPacket(keyboard)
       /\ Len(out.pending_keyboard) < MaxQueue
       /\ out' = ServiceKeyboard(
                   [out EXCEPT !.pending_keyboard = Append(@, KeyboardPacket(keyboard))], mode)

\* Queue the state packet, unless reports are off or nothing changed.
ReportKeyboard(k) ==
    \/ /\ ~mode.keyboard_events_enabled \/ KeyboardPacket(k) = KeyboardPacket(keyboard)
       /\ UNCHANGED out
    \/ /\ mode.keyboard_events_enabled /\ KeyboardPacket(k) # KeyboardPacket(keyboard)
       /\ Len(out.pending_keyboard) < MaxQueue
       /\ out' = ServiceKeyboard(
                   [out EXCEPT !.pending_keyboard = Append(@, KeyboardPacket(k))], mode)

\* The held keys without one of them; each is held at most once.
Without(held, code) ==
    IF \E i \in DOMAIN held : held[i] = code
    THEN RemoveAt(held, CHOOSE i \in DOMAIN held : held[i] = code)
    ELSE held

SetKeyboardKey(code, pressed, modifiers) ==
    LET others == Without(keyboard.pressed, code)
        k      == [keyboard EXCEPT !.pressed = IF pressed THEN Append(others, code) ELSE others,
                                   !.modifiers = modifiers]
    IN  /\ keyboard.attached
        /\ keyboard' = k
        /\ ReportKeyboard(k)
        /\ UNCHANGED <<parser, mode, player, drive, pointer, poll_countdown>>

SetKeyboardModifiers(modifiers) ==
    LET k == [keyboard EXCEPT !.modifiers = modifiers] IN
    /\ keyboard.attached /\ modifiers # keyboard.modifiers
    /\ keyboard' = k
    /\ ReportKeyboard(k)
    /\ UNCHANGED <<parser, mode, player, drive, pointer, poll_countdown>>

\* Mutant: notices queued for the previous medium survive a power-on insert.
KeepNotices(present) ==
    /\ drive' = [drive EXCEPT !.disc_present = present, !.disc_boot_mode = FALSE]
    /\ UNCHANGED <<out, parser, mode, keyboard, player, pointer, poll_countdown>>

SetDiscPresent(present) ==
    /\ drive' = [drive EXCEPT !.disc_present = present, !.disc_boot_mode = FALSE]
    /\ out' = [out EXCEPT !.pending_drive_status = <<>>]
    /\ UNCHANGED <<parser, mode, keyboard, player, pointer, poll_countdown>>

\* set_cd_rom_xa_bridge(type = 4).
SetDiscType(type) ==
    /\ drive' = [drive EXCEPT !.disc_type_code = type]
    /\ UNCHANGED <<out, parser, mode, keyboard, player, pointer, poll_countdown>>

NotifyDiscChange(present, replacing) ==
    LET d == [drive EXCEPT !.disc_present = present, !.disc_boot_mode = FALSE]
        notices == (IF replacing THEN <<EmptyDrive>> ELSE <<>>) \o <<DriveStatusPacket(d)>>
    IN  /\ Len(out.pending_drive_status \o notices) <= MaxQueue
        /\ drive' = d
        /\ out' = ServiceDriveStatusNotification(
                    [out EXCEPT !.pending_drive_status = @ \o notices], mode)
        /\ UNCHANGED <<parser, mode, keyboard, player, pointer, poll_countdown>>

\* set_video_standard; the clock difference is below the model's resolution.
SetVideoStandard(video) ==
    /\ mode' = [mode EXCEPT !.video_status = video]
    /\ poll_countdown' = PollInterval
    /\ UNCHANGED <<out, parser, keyboard, player, drive, pointer>>

TakeAttenuation ==
    /\ mode.attenuation
    /\ mode' = [mode EXCEPT !.attenuation = FALSE]
    /\ UNCHANGED <<out, parser, keyboard, player, drive, pointer, poll_countdown>>

TakeHostResetRequest ==
    /\ mode.host_reset_requested
    /\ mode' = [mode EXCEPT !.host_reset_requested = FALSE]
    /\ UNCHANGED <<out, parser, keyboard, player, drive, pointer, poll_countdown>>

-----------------------------------------------------------------------------
(* Time. *)

\* The delayed replies whose time has come raise IN2.
ExpireCountdowns(o, cycles) ==
    LET due == {c \in Channels : o.irq_countdowns[c] \in 1..cycles}
    IN  [o EXCEPT !.irq_countdowns =
                    [c \in Channels |-> IF @[c] > cycles THEN @[c] - cycles ELSE 0],
                  !.irq_pending_channels = @ \cup due,
                  !.irq_asserted = @ \/ due # {}]

Clamp(x) == IF x < 0 THEN 0 ELSE IF x > MaxPosition THEN MaxPosition ELSE x

\* The first position is an anchor.  A poll that finds no net motion has
\* consumed the pending motion all the same.
PolledPointer(p) ==
    LET delta == p.input - p.last + p.pending IN
    IF p.last < 0
    THEN [p EXCEPT !.last = p.input, !.last_buttons = p.buttons]
    ELSE IF delta = 0 /\ p.buttons = p.last_buttons
    THEN [p EXCEPT !.pending = 0]
    ELSE [p EXCEPT !.last = p.input, !.last_buttons = p.buttons, !.pending = 0,
                   !.device = Clamp(@ + delta)]

PointerChanged(p) ==
    /\ p.last >= 0
    /\ p.input - p.last + p.pending # 0 \/ p.buttons # p.last_buttons

\* The latest packet replaces whatever channel 0 holds.
ReportPointer(o, p) ==
    LET shown == PrepareReadback(o, 0, "F7", <<"F7", p.device, p.buttons>>, 0)
    IN  IF mode.pointer_interrupt_enable THEN AssertChannelIrq(shown, 0) ELSE shown

Tick(cycles) ==
    LET ticked == ExpireCountdowns(ServiceDriveStatusNotification(out, mode), cycles)
    IN  /\ \/ /\ poll_countdown > cycles
              /\ poll_countdown' = poll_countdown - cycles
              /\ out' = ticked
              /\ UNCHANGED pointer
           \/ /\ poll_countdown <= cycles
              /\ poll_countdown' = PollInterval
              /\ pointer' = PolledPointer(pointer)
              /\ out' = IF PointerChanged(pointer) /\ mode.polling_active
                        THEN ReportPointer(ticked, pointer') ELSE ticked
        /\ UNCHANGED <<parser, mode, keyboard, player, drive>>

-----------------------------------------------------------------------------

Guest ==
    \/ \E c \in Channels : Read(c)
    \/ \E w \in HostWrites : Write(w[1], w[2])

Frontend ==
    \/ \E x \in Positions, btn \in Buttons : SetPointer(x, btn)
    \/ \E dx \in Motions, btn \in Buttons : MovePointer(dx, btn)
    \/ \E x \in Positions, btn \in Buttons : SetPointerAbsolute(x, btn)
    \/ \E key \in PlayerKeys, pressed \in BOOLEAN : SetPlayerControlKey(key, pressed)
    \/ \E attached \in Attachments : SetKeyboardAttached(attached)
    \/ \E code \in Keys, pressed \in BOOLEAN, m \in Modifiers :
          SetKeyboardKey(code, pressed, m)
    \/ \E m \in Modifiers : SetKeyboardModifiers(m)
    \/ \E present \in Discs : SetDiscPresent(present)
    \/ \E type \in DiscTypes : SetDiscType(type)
    \/ \E present \in Discs, replacing \in BOOLEAN : NotifyDiscChange(present, replacing)
    \/ \E video \in Videos : SetVideoStandard(video)

Machine ==
    \/ TakeAttenuation
    \/ TakeHostResetRequest
    \/ \E cycles \in TickLengths : Tick(cycles)
    \/ Reset

Next == Guest \/ Frontend \/ Machine

Spec == Init /\ [][Next]_vars

-----------------------------------------------------------------------------
(* Safety *)

\* IN2 is asserted exactly while some channel contributes to it, and a
\* channel other than the pointer's contributes only while it holds a reply
\* the guest has not consumed: an interrupt handler always finds its cause.
IrqHasItsReply ==
    /\ out.irq_asserted = (out.irq_pending_channels # {})
    /\ \A c \in out.irq_pending_channels \ {0} : out.channels[c].count # 0

\* A delay runs only for a reply of a query channel that is whole and unread:
\* it can neither interrupt for an empty channel nor for a half-read reply
\* (the acknowledgement in SlaveHle::read).
DelayHasItsReply ==
    \A c \in Channels : out.irq_countdowns[c] # 0 =>
        /\ c \in {2, 3}
        /\ out.channels[c].count # 0 /\ out.channels[c].index = 0
        /\ out.channels[c].cmd # "A0"

\* The newest queued report is the present state of the keyboard and of the
\* player keys, so a guest that drains its channel ends with the right state.
ReportsEndCurrent ==
    /\ out.pending_keyboard # <<>> =>
          Last(out.pending_keyboard) = KeyboardPacket(keyboard)
    /\ out.pending_player_control # <<>> =>
          Last(out.pending_player_control) = <<"87", player>>

\* The newest media notice waiting for channel 3 agrees with the drive about
\* whether a disc is in it, through swaps, removals and power-on inserts.
NoticesEndCurrent ==
    out.pending_drive_status # <<>> =>
        (Last(out.pending_drive_status) = EmptyDrive <=> ~drive.disc_present)

\* With no command being assembled no length is left over that would end the
\* next command early: one buffer serves four channels.
IdleParserHasNoLength == parser.index = 0 => parser.count = 0

\* Snapshots and lengths are of the present state when they are used.
NothingStale == ReportsEndCurrent /\ NoticesEndCurrent /\ IdleParserHasNoLength

-----------------------------------------------------------------------------
(* The reply side's inductive invariant, part by part: what the three       *)
(* invariants about interrupts, delays and gates rest on.                   *)

\* Which replies a channel carries; only channels 2 and 3 are delayed.
ChannelCarries(o) ==
    /\ o.channels[0].cmd \in {NoCmd, "F7"}
    /\ o.channels[1].cmd \in {NoCmd, "87"}
    /\ o.channels[2].cmd \in {NoCmd, "A0"} \cup Queries
    /\ o.channels[3].cmd \in {NoCmd, "B0", "B1"}

\* A reply that is to interrupt, or interrupts, is unread and its first byte
\* acknowledges it: no later read could.
IrqIsAcknowledged(o) ==
    /\ o.irq_asserted = (o.irq_pending_channels # {})
    /\ \A c \in o.irq_pending_channels \ {0} :
          /\ o.channels[c].count # 0 /\ o.channels[c].index = 0
          /\ o.channels[c].cmd # "F6"

DelayIsAcknowledged(o) ==
    /\ \A c \in Channels : o.irq_countdowns[c] # 0 =>
          /\ c \in {2, 3}
          /\ o.channels[c].count # 0 /\ o.channels[c].index = 0
          /\ o.channels[c].cmd \notin {"A0", "F6"}
    /\ \A i \in DOMAIN o.pending_channel2_readbacks :
          o.pending_channel2_readbacks[i].cmd = "F6" =>
              o.pending_channel2_readbacks[i].delay = 0

\* A report is on a channel or in a queue only while the guest has the
\* report path enabled, and a key report only with a keyboard attached: the
\* gates of commands 80/81, 8D/8E and set_keyboard_attached withdraw both.
ReportsAreGated(o, keys, controls) ==
    /\ o.channels[2].cmd = "A0" \/ o.pending_keyboard # <<>> => keys
    /\ o.channels[1].cmd = "87" \/ o.pending_player_control # <<>> => controls

OutInv(o, keys, controls) ==
    /\ o \in OutType
    /\ ChannelCarries(o)
    /\ IrqIsAcknowledged(o)
    /\ DelayIsAcknowledged(o)
    /\ ReportsAreGated(o, keys, controls)

\* The inductive invariant: the code's conventions about who may interrupt,
\* together with the types.
SlaveInv ==
    /\ TypeOK
    /\ OutInv(out, mode.keyboard_events_enabled /\ keyboard.attached,
              mode.player_control_enabled)

-----------------------------------------------------------------------------
(* What a step may never do *)

\* A reply or report the guest has begun to read on channels 1 and 2 is read
\* on byte by byte or withdrawn whole, never replaced by another one.
HalfReadNeverReplaced ==
    [][\A c \in {1, 2} :
          out.channels[c].index # 0 =>
             \/ out'.channels[c] = out.channels[c]
             \/ /\ out'.channels[c].index = out.channels[c].index + 1
                /\ out'.channels[c].count = out.channels[c].count - 1
                /\ out'.channels[c].buf = out.channels[c].buf
             \/ out'.channels[c].index = 0 /\ out.channels[c].count = 1
             \/ out'.channels[c] = EmptyChannel]_vars

\* A media notice waits until channel 3 is free: while it holds a reply, only
\* a read, a completed B0/B1 query of the guest, or a reset changes it.
NoticeNeverOverwrites ==
    [][out.channels[3].count # 0 /\ out'.channels[3] # out.channels[3] =>
          \/ out'.channels[3].count = out.channels[3].count - 1
          \/ parser.head \in {"B0", "B1"} /\ parser' = IdleParser
          \/ out' = NewOut]_vars

\* The shared buffer holds as many bytes as its command has, or more, and the
\* command is not over: in_index and in_count are compared for equality, so
\* only a reset or a pending transport parameter empties the buffer again.
Overrun == parser.index # 0 /\ parser.index >= parser.count

\* The code overruns a length in two ways and no other.  The LCD command's
\* last byte on channel 2 re-arms the length and leaves the index (877-880);
\* and write_mouse compares the length of a position only (810-851), so a
\* channel-0 byte that falls behind a B0 or B1 of channel 3 counts without
\* ending it.  Whatever else is mixed ends its command at the length.
OverrunsNamed ==
    [][~Overrun /\ Overrun' =>
          \/ parser.head = "F0" /\ parser'.count = 17
          \/ /\ parser.head \in {"B0", "B1"}
             /\ \E w \in HostWrites : w[1] = 0 /\ WriteMouse(w[2])]_vars

\* What the guest is reading stays on its channel.
RepliesKept == HalfReadNeverReplaced /\ NoticeNeverOverwrites

-----------------------------------------------------------------------------
(* Channel C as the guest sees it: the reply on the channel is the head of  *)
(* its stream until its last byte is read.                                  *)

OnChannel2(cmds) ==
    IF out.channels[2].cmd \in cmds THEN <<out.channels[2].buf>> ELSE <<>>

OwedAnswers ==
    OnChannel2(Queries) \o
    [i \in DOMAIN out.pending_channel2_readbacks |-> out.pending_channel2_readbacks[i].buf]

OwedReports == OnChannel2({"A0"}) \o out.pending_keyboard

ChannelC == INSTANCE SlaveChannelC WITH
    owed <- OwedAnswers, reports <- OwedReports,
    Answers <- QueryPackets, Reports <- KeyPackets

\* Replies are neither lost, duplicated nor reordered (see SlaveChannelC).
ImplementsChannelC == ChannelC!Spec

-----------------------------------------------------------------------------
(* Liveness, under the fairness that MCSlave states: the machine ticks the  *)
(* SLAVE after every instruction, which justifies fairness of Tick; that    *)
(* the guest goes on reading a channel that holds a reply, and goes on      *)
(* sending the bytes of a command, are assumptions about the guest.         *)

\* Every status query is answered in the end (unless a reset forgets it).
QueriesAnswered == ChannelC!FairSpec

\* A queued reply comes to the channel in the end ("Responses are delivered
\* after a delay and raise IN2").
QueuedReplyReachesChannel ==
    out.pending_channel2_readbacks # <<>> ~>
        out.channels[2].cmd \in Queries \/ out.pending_channel2_readbacks = <<>>

\* A command that has begun is complete in the end and the buffer free for
\* the next one, whatever bytes the four channels mix into it - or its length
\* has been overrun, which ends neither it nor any later one (see Overrun).
CommandCompletes == parser.index # 0 ~> parser.index = 0 \/ Overrun
=============================================================================
