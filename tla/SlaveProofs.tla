---------------------------- MODULE SlaveProofs ----------------------------
(***************************************************************************)
(* Theorems about Slave, for every value of its constants: the invariant    *)
(* SlaveInv is inductive, and with it the interrupt, delay and gate         *)
(* invariants hold of every behaviour.  The lemmas follow the code: one for *)
(* each method that changes the reply side.  Then the queues and channels:  *)
(*  - what waits in a queue of reports ends with the present state of its   *)
(*    device, and an idle parser holds no length: with a report path closed *)
(*    its queue is empty, so a device may change without a report;          *)
(*  - the SLAVE implements SlaveChannelC: each action takes, adds or gives  *)
(*    up packets of the two streams the way a step of SlaveChannelC does;   *)
(*  - a reply on a channel is read on or withdrawn, never overwritten;       *)
(*  - which bytes overrun a command of the shared assembly buffer.          *)
(***************************************************************************)
EXTENDS Slave, SequenceTheorems, TLAPS

(* A reply of any kind has at least one byte. *)
LEMMA ReplyLengthPositive ==
    \A cmd \in Replies : ReplyLength[cmd] \in Nat \ {0}
BY DEF ReplyLength, Replies, Queries

(* A fresh reply is a channel value, unread. *)
LEMMA FreshChannelType ==
    ASSUME NEW cmd \in Replies, NEW buf \in Packets
    PROVE  /\ FreshChannel(cmd, buf) \in OutChannel
           /\ FreshChannel(cmd, buf).index = 0
           /\ FreshChannel(cmd, buf).cmd = cmd
           /\ FreshChannel(cmd, buf).count # 0
BY ReplyLengthPositive DEF FreshChannel, OutChannel

(* assert_channel_irq, on a channel that holds an unread acknowledging reply. *)
LEMMA AssertInv ==
    ASSUME NEW o, NEW keys \in BOOLEAN, NEW controls \in BOOLEAN,
           OutInv(o, keys, controls), NEW c \in Channels,
           c # 0 => /\ o.channels[c].count # 0
                    /\ o.channels[c].index = 0
                    /\ o.channels[c].cmd # "F6"
    PROVE  OutInv(AssertChannelIrq(o, c), keys, controls)
<1> DEFINE n == AssertChannelIrq(o, c)
<1>1. n \in OutType
  BY DEF OutInv, OutType, AssertChannelIrq
<1>2. /\ n.channels = o.channels /\ n.irq_countdowns = o.irq_countdowns
      /\ n.pending_channel2_readbacks = o.pending_channel2_readbacks
      /\ n.pending_keyboard = o.pending_keyboard
      /\ n.pending_player_control = o.pending_player_control
      /\ n.irq_pending_channels = o.irq_pending_channels \cup {c}
      /\ n.irq_asserted = TRUE
  BY DEF OutInv, OutType, AssertChannelIrq
<1>3. IrqIsAcknowledged(n)
  BY <1>2 DEF OutInv, IrqIsAcknowledged
<1>4. ChannelCarries(n) /\ DelayIsAcknowledged(n) /\ ReportsAreGated(n, keys, controls)
  BY <1>2 DEF OutInv, ChannelCarries, DelayIsAcknowledged, ReportsAreGated
<1> QED
  BY <1>1, <1>3, <1>4 DEF OutInv

(* prepare_readback: channel 2 must be free, the others are replaced. *)
LEMMA PrepareInv ==
    ASSUME NEW o, NEW keys \in BOOLEAN, NEW controls \in BOOLEAN,
           OutInv(o, keys, controls), NEW c \in {0, 2, 3},
           NEW cmd \in Replies, NEW buf \in Packets, NEW delay \in Nat,
           c = 0 => cmd = "F7" /\ delay = 0,
           c = 2 => cmd \in Queries /\ o.channels[2].count = 0,
           c = 3 => cmd \in {"B0", "B1"},
           cmd = "F6" => delay = 0
    PROVE  OutInv(PrepareReadback(o, c, cmd, buf, delay), keys, controls)
<1> DEFINE n == PrepareReadback(o, c, cmd, buf, delay)
<1>0. o \in OutType /\ c \in Channels
  BY DEF OutInv, Channels
<1>1. n \in OutType
  BY <1>0, FreshChannelType DEF OutType, PrepareReadback
<1>2. /\ n.channels = [o.channels EXCEPT ![c] = FreshChannel(cmd, buf)]
      /\ n.irq_countdowns = [o.irq_countdowns EXCEPT ![c] = delay]
      /\ n.pending_channel2_readbacks = o.pending_channel2_readbacks
      /\ n.pending_keyboard = o.pending_keyboard
      /\ n.pending_player_control = o.pending_player_control
      /\ n.irq_pending_channels = o.irq_pending_channels
      /\ n.irq_asserted = o.irq_asserted
  BY <1>0 DEF OutType, PrepareReadback
<1>3. /\ n.channels[c] = FreshChannel(cmd, buf)
      /\ n.irq_countdowns[c] = delay
      /\ \A d \in Channels \ {c} : /\ n.channels[d] = o.channels[d]
                                   /\ n.irq_countdowns[d] = o.irq_countdowns[d]
  BY <1>0, <1>2 DEF OutType
<1>4. IrqIsAcknowledged(n)
  <2>1. c = 2 => 2 \notin o.irq_pending_channels
    BY DEF OutInv, IrqIsAcknowledged
  <2>2. cmd = "F6" => c = 2
    BY DEF Queries
  <2>3. ASSUME NEW d \in o.irq_pending_channels \ {0}
        PROVE  /\ n.channels[d].count # 0 /\ n.channels[d].index = 0
               /\ n.channels[d].cmd # "F6"
    <3>1. d \in Channels
      BY <1>0 DEF OutType
    <3>2. CASE d = c
      BY <1>3, <2>1, <2>2, <3>2, FreshChannelType
    <3>3. CASE d # c
      BY <1>3, <3>1, <3>3 DEF OutInv, IrqIsAcknowledged
    <3> QED
      BY <3>2, <3>3
  <2> QED
    BY <1>2, <2>3 DEF OutInv, IrqIsAcknowledged
<1>5. DelayIsAcknowledged(n)
  <2>1. delay # 0 => c \in {2, 3} /\ cmd \notin {"A0", "F6"}
    BY DEF Queries
  <2> QED
    BY <1>2, <1>3, <2>1, FreshChannelType DEF OutInv, DelayIsAcknowledged
<1>6. ChannelCarries(n)
  BY <1>0, <1>3, FreshChannelType DEF OutInv, ChannelCarries, Channels
<1>7. ReportsAreGated(n, keys, controls)
  <2>1. c = 2 => n.channels[2].cmd # "A0"
    BY <1>3, FreshChannelType DEF Queries
  <2> QED
    BY <1>0, <1>2, <1>3, <2>1 DEF OutInv, ReportsAreGated, Channels
<1> QED
  BY <1>1, <1>4, <1>5, <1>6, <1>7 DEF OutInv

(* Taking a queue's head keeps a queue. *)
LEMMA TailInSeq ==
    ASSUME NEW S, NEW q \in Seq(S), q # <<>>
    PROVE  Head(q) \in S /\ Tail(q) \in Seq(S)
BY SMT

(* service_player_control. *)
LEMMA ServicePlayerControlInv ==
    ASSUME NEW o, NEW keys \in BOOLEAN, NEW m \in ModeType,
           OutInv(o, keys, m.player_control_enabled)
    PROVE  OutInv(ServicePlayerControl(o, m), keys, m.player_control_enabled)
<1> DEFINE n == [o EXCEPT !.channels[1] = FreshChannel("87", Head(o.pending_player_control)),
                          !.pending_player_control = Tail(@)]
           taken == /\ m.player_control_enabled
                    /\ o.channels[1].count = 0
                    /\ o.pending_player_control # <<>>
<1>0. o \in OutType /\ 1 \in Channels /\ m.player_control_enabled \in BOOLEAN
  BY DEF OutInv, Channels, ModeType
<1>1. CASE taken
  <2>1. /\ Head(o.pending_player_control) \in PlayerPackets
        /\ Tail(o.pending_player_control) \in Seq(PlayerPackets)
    BY <1>0, <1>1, TailInSeq DEF OutType
  <2>2. /\ FreshChannel("87", Head(o.pending_player_control)) \in OutChannel
        /\ FreshChannel("87", Head(o.pending_player_control)).cmd = "87"
        /\ FreshChannel("87", Head(o.pending_player_control)).index = 0
        /\ FreshChannel("87", Head(o.pending_player_control)).count # 0
    BY <2>1, FreshChannelType DEF Replies, Packets
  <2>3. n \in OutType
    BY <1>0, <2>1, <2>2 DEF OutType
  <2>4. /\ n.channels = [o.channels EXCEPT ![1] = FreshChannel("87", Head(o.pending_player_control))]
        /\ n.irq_countdowns = o.irq_countdowns
        /\ n.pending_channel2_readbacks = o.pending_channel2_readbacks
        /\ n.pending_keyboard = o.pending_keyboard
        /\ n.irq_pending_channels = o.irq_pending_channels
        /\ n.irq_asserted = o.irq_asserted
    BY <1>0 DEF OutType
  <2>5. /\ n.channels[1] = FreshChannel("87", Head(o.pending_player_control))
        /\ \A d \in Channels \ {1} : n.channels[d] = o.channels[d]
    BY <1>0, <2>4 DEF OutType
  <2>6. IrqIsAcknowledged(n)
    <3>1. 1 \notin o.irq_pending_channels
      BY <1>1 DEF OutInv, IrqIsAcknowledged
    <3>2. \A d \in o.irq_pending_channels \ {0} : n.channels[d] = o.channels[d]
      BY <1>0, <2>5, <3>1 DEF OutType
    <3> QED
      BY <2>4, <3>2 DEF OutInv, IrqIsAcknowledged
  <2>7. DelayIsAcknowledged(n)
    BY <1>0, <2>4, <2>5 DEF OutInv, DelayIsAcknowledged, Channels
  <2>8. ChannelCarries(n)
    BY <2>2, <2>5 DEF OutInv, ChannelCarries, Channels
  <2>9. ReportsAreGated(n, keys, m.player_control_enabled)
    BY <1>1, <2>4, <2>5 DEF OutInv, ReportsAreGated, Channels
  <2>10. OutInv(n, keys, m.player_control_enabled)
    BY <2>3, <2>6, <2>7, <2>8, <2>9 DEF OutInv
  <2>11. OutInv(AssertChannelIrq(n, 1), keys, m.player_control_enabled)
    <3>1. n.channels[1].count # 0 /\ n.channels[1].index = 0 /\ n.channels[1].cmd # "F6"
      BY <2>2, <2>5
    <3> HIDE DEF n
    <3> QED
      BY <1>0, <2>10, <3>1, AssertInv
  <2> QED
    BY <1>1, <2>11 DEF ServicePlayerControl
<1>2. CASE ~taken
  BY <1>2 DEF ServicePlayerControl
<1> QED
  BY <1>1, <1>2

(* service_keyboard: a report takes channel 2 only when it is free. *)
LEMMA ServiceKeyboardInv ==
    ASSUME NEW o, NEW keys \in BOOLEAN, NEW controls \in BOOLEAN, NEW m,
           OutInv(o, keys, controls)
    PROVE  OutInv(ServiceKeyboard(o, m), keys, controls)
<1> DEFINE fresh == FreshChannel("A0", Head(o.pending_keyboard))
           n == [o EXCEPT !.channels[2] = fresh, !.pending_keyboard = Tail(@)]
           taken == /\ m.keyboard_events_enabled
                    /\ o.channels[2].count = 0
                    /\ o.pending_channel2_readbacks = <<>>
                    /\ o.pending_keyboard # <<>>
<1>0. o \in OutType /\ 2 \in Channels
  BY DEF OutInv, Channels
<1>1. CASE taken
  <2>1. /\ Head(o.pending_keyboard) \in KeyPackets
        /\ Tail(o.pending_keyboard) \in Seq(KeyPackets)
    BY <1>0, <1>1, TailInSeq DEF OutType
  <2>2. fresh \in OutChannel /\ fresh.cmd = "A0" /\ fresh.index = 0 /\ fresh.count # 0
    BY <2>1, FreshChannelType DEF Replies, Packets
  <2>3. n \in OutType
    BY <1>0, <2>1, <2>2 DEF OutType
  <2>4. /\ n.channels = [o.channels EXCEPT ![2] = fresh]
        /\ n.irq_countdowns = o.irq_countdowns
        /\ n.pending_channel2_readbacks = o.pending_channel2_readbacks
        /\ n.pending_player_control = o.pending_player_control
        /\ n.irq_pending_channels = o.irq_pending_channels
        /\ n.irq_asserted = o.irq_asserted
    BY <1>0 DEF OutType
  <2>5. n.channels[2] = fresh /\ \A d \in Channels \ {2} : n.channels[d] = o.channels[d]
    BY <1>0, <2>4 DEF OutType
  <2>6. IrqIsAcknowledged(n)
    <3>1. 2 \notin o.irq_pending_channels
      BY <1>1 DEF OutInv, IrqIsAcknowledged
    <3>2. \A d \in o.irq_pending_channels \ {0} : n.channels[d] = o.channels[d]
      BY <1>0, <2>5, <3>1 DEF OutType
    <3> QED
      BY <2>4, <3>2 DEF OutInv, IrqIsAcknowledged
  <2>7. DelayIsAcknowledged(n)
    <3>1. o.irq_countdowns[2] = 0
      BY <1>0, <1>1 DEF OutInv, DelayIsAcknowledged
    <3> QED
      BY <1>0, <2>4, <2>5, <3>1 DEF OutInv, DelayIsAcknowledged
  <2>8. ChannelCarries(n)
    BY <2>2, <2>5 DEF OutInv, ChannelCarries, Channels
  <2>9. ReportsAreGated(n, keys, controls)
    BY <1>1, <2>4, <2>5 DEF OutInv, ReportsAreGated, Channels
  <2>10. OutInv(n, keys, controls)
    BY <2>3, <2>6, <2>7, <2>8, <2>9 DEF OutInv
  <2>11. OutInv(AssertChannelIrq(n, 2), keys, controls)
    <3>1. n.channels[2].count # 0 /\ n.channels[2].index = 0 /\ n.channels[2].cmd # "F6"
      BY <2>2, <2>5
    <3> HIDE DEF n
    <3> QED
      BY <1>0, <2>10, <3>1, AssertInv
  <2> QED
    BY <1>1, <2>11 DEF ServiceKeyboard
<1>2. CASE ~taken
  BY <1>2 DEF ServiceKeyboard
<1> QED
  BY <1>1, <1>2

(* Shortening or emptying the queue of replies keeps the invariant. *)
LEMMA ReadbacksInv ==
    ASSUME NEW o, NEW keys \in BOOLEAN, NEW controls \in BOOLEAN,
           OutInv(o, keys, controls), NEW q \in Seq(PendingReadback),
           \A i \in DOMAIN q : q[i].cmd = "F6" => q[i].delay = 0
    PROVE  OutInv([o EXCEPT !.pending_channel2_readbacks = q], keys, controls)
<1> DEFINE n == [o EXCEPT !.pending_channel2_readbacks = q]
<1>1. n \in OutType
  BY DEF OutInv, OutType
<1>2. /\ n.channels = o.channels
      /\ n.irq_countdowns = o.irq_countdowns
      /\ n.pending_channel2_readbacks = q
      /\ n.pending_keyboard = o.pending_keyboard
      /\ n.pending_player_control = o.pending_player_control
      /\ n.irq_pending_channels = o.irq_pending_channels
      /\ n.irq_asserted = o.irq_asserted
  BY DEF OutInv, OutType
<1> HIDE DEF n
<1>3. OutInv(n, keys, controls)
  BY <1>1, <1>2 DEF OutInv, ChannelCarries, IrqIsAcknowledged, DelayIsAcknowledged,
                    ReportsAreGated
<1> QED
  BY <1>3 DEF n

(* service_channel2: replies first, then reports. *)
LEMMA ServiceChannel2Inv ==
    ASSUME NEW o, NEW keys \in BOOLEAN, NEW controls \in BOOLEAN, NEW m,
           OutInv(o, keys, controls)
    PROVE  OutInv(ServiceChannel2(o, m), keys, controls)
<1> DEFINE q == o.pending_channel2_readbacks
           r == Head(q)
           popped == [o EXCEPT !.pending_channel2_readbacks = Tail(@)]
<1>0. o \in OutType
  BY DEF OutInv
<1>1. CASE o.channels[2].count # 0 \/ o.irq_countdowns[2] # 0
  BY <1>1 DEF ServiceChannel2
<1>2. CASE /\ ~(o.channels[2].count # 0 \/ o.irq_countdowns[2] # 0)
           /\ q # <<>>
  <2>1. q \in Seq(PendingReadback)
    BY <1>0 DEF OutType
  <2>2. r \in PendingReadback /\ Tail(q) \in Seq(PendingReadback)
    BY <1>2, <2>1, TailInSeq
  <2>3. /\ r.cmd = "F6" => r.delay = 0
        /\ \A i \in DOMAIN Tail(q) : Tail(q)[i].cmd = "F6" => Tail(q)[i].delay = 0
    <3>1. \A i \in DOMAIN q : q[i].cmd = "F6" => q[i].delay = 0
      BY DEF OutInv, DelayIsAcknowledged
    <3>2. r = q[1] /\ 1 \in DOMAIN q
      BY <1>2, <2>1
    <3>3. \A i \in DOMAIN Tail(q) : i + 1 \in DOMAIN q /\ Tail(q)[i] = q[i + 1]
      BY <1>2, <2>1
    <3> QED
      BY <3>1, <3>2, <3>3
  <2>4. popped = [o EXCEPT !.pending_channel2_readbacks = Tail(q)]
    BY <1>0 DEF OutType
  <2>5. OutInv(popped, keys, controls)
    BY <2>2, <2>3, <2>4, ReadbacksInv
  <2>6. popped.channels[2].count = 0
    BY <1>0, <1>2 DEF OutType
  <2>7. /\ r.cmd \in Queries /\ r.cmd \in Replies
        /\ r.buf \in Packets /\ r.delay \in Nat
    BY <2>2 DEF PendingReadback, Packets, Replies
  <2>8. OutInv(PrepareReadback(popped, 2, r.cmd, r.buf, r.delay), keys, controls)
    <3> HIDE DEF popped, r
    <3> QED
      BY <2>3, <2>5, <2>6, <2>7, PrepareInv
  <2> QED
    BY <1>2, <2>8 DEF ServiceChannel2
<1>3. CASE /\ ~(o.channels[2].count # 0 \/ o.irq_countdowns[2] # 0)
           /\ q = <<>>
  BY <1>3, ServiceKeyboardInv DEF ServiceChannel2
<1> QED
  BY <1>1, <1>2, <1>3

(* A query joins the queue. *)
LEMMA QueueChannel2ReadbackInv ==
    ASSUME NEW o, NEW keys \in BOOLEAN, NEW controls \in BOOLEAN, NEW m,
           OutInv(o, keys, controls), NEW cmd \in Queries,
           NEW buf \in QueryPackets, NEW delay \in Nat, cmd = "F6" => delay = 0
    PROVE  OutInv(QueueChannel2Readback(o, m, cmd, buf, delay), keys, controls)
<1> DEFINE r == [cmd |-> cmd, buf |-> buf, delay |-> delay]
           q == Append(o.pending_channel2_readbacks, r)
           n == [o EXCEPT !.pending_channel2_readbacks = Append(@, r)]
<1>1. o.pending_channel2_readbacks \in Seq(PendingReadback) /\ r \in PendingReadback
  BY DEF OutInv, OutType, PendingReadback
<1>2. q \in Seq(PendingReadback)
  BY <1>1
<1>3. \A i \in DOMAIN q : q[i].cmd = "F6" => q[i].delay = 0
  <2>1. \A i \in DOMAIN q : \/ i \in DOMAIN o.pending_channel2_readbacks
                               /\ q[i] = o.pending_channel2_readbacks[i]
                            \/ q[i] = r
    BY <1>1
  <2> QED
    BY <2>1 DEF OutInv, DelayIsAcknowledged
<1>4. n = [o EXCEPT !.pending_channel2_readbacks = q]
  BY DEF OutInv, OutType
<1>5. OutInv(n, keys, controls)
  BY <1>2, <1>3, <1>4, ReadbacksInv
<1> QED
  BY <1>5, ServiceChannel2Inv DEF QueueChannel2Readback

(* service_drive_status_notification: a notice waits for a free channel 3. *)
LEMMA ServiceDriveStatusNotificationInv ==
    ASSUME NEW o, NEW keys \in BOOLEAN, NEW controls \in BOOLEAN, NEW m,
           OutInv(o, keys, controls)
    PROVE  OutInv(ServiceDriveStatusNotification(o, m), keys, controls)
<1> DEFINE taken == /\ m.xbus_interrupt_enable
                    /\ o.channels[3].count = 0
                    /\ o.irq_countdowns[3] = 0
                    /\ o.pending_drive_status # <<>>
           n == [o EXCEPT !.pending_drive_status = Tail(@)]
<1>1. CASE taken
  <2>1. /\ Head(o.pending_drive_status) \in DrivePackets
        /\ Tail(o.pending_drive_status) \in Seq(DrivePackets)
    BY <1>1, TailInSeq DEF OutInv, OutType
  <2>2. n \in OutType
    BY <2>1 DEF OutInv, OutType
  <2>3. /\ n.channels = o.channels
        /\ n.irq_countdowns = o.irq_countdowns
        /\ n.pending_channel2_readbacks = o.pending_channel2_readbacks
        /\ n.pending_keyboard = o.pending_keyboard
        /\ n.pending_player_control = o.pending_player_control
        /\ n.irq_pending_channels = o.irq_pending_channels
        /\ n.irq_asserted = o.irq_asserted
    BY DEF OutInv, OutType
  <2>4. OutInv(n, keys, controls)
    <3> HIDE DEF n
    <3> QED
      BY <2>2, <2>3 DEF OutInv, ChannelCarries, IrqIsAcknowledged, DelayIsAcknowledged,
                        ReportsAreGated
  <2>5. OutInv(PrepareReadback(n, 3, "B0", Head(o.pending_drive_status), ReadbackDelay),
               keys, controls)
    <3>1. /\ "B0" \in Replies /\ Head(o.pending_drive_status) \in Packets
          /\ ReadbackDelay \in Nat
      BY <2>1, SlaveAssumption DEF Replies, Packets
    <3>2. /\ 3 \in {0, 2, 3} /\ 3 # 0 /\ 3 # 2
          /\ "B0" \in {"B0", "B1"} /\ "B0" # "F6"
      OBVIOUS
    <3> HIDE DEF n
    <3> DEFINE packet == Head(o.pending_drive_status)
               cmd == "B0"
    <3> HIDE DEF packet, cmd
    <3>3. cmd \in Replies /\ packet \in Packets /\ cmd \in {"B0", "B1"} /\ cmd # "F6"
      BY <3>1, <3>2 DEF cmd, packet
    <3>4. OutInv(PrepareReadback(n, 3, cmd, packet, ReadbackDelay), keys, controls)
      BY <2>4, <3>1, <3>2, <3>3, PrepareInv
    <3> QED
      BY <3>4 DEF cmd, packet
  <2> QED
    BY <1>1, <2>5 DEF ServiceDriveStatusNotification
<1>2. CASE ~taken
  BY <1>2 DEF ServiceDriveStatusNotification
<1> QED
  BY <1>1, <1>2

(* Emptying a channel and withdrawing its interrupt. *)
LEMMA EmptyAndClearInv ==
    ASSUME NEW o, NEW keys \in BOOLEAN, NEW controls \in BOOLEAN,
           OutInv(o, keys, controls), NEW c \in Channels, o.irq_countdowns[c] = 0
    PROVE  OutInv(ClearChannelIrq([o EXCEPT !.channels[c] = EmptyChannel], c), keys, controls)
<1> DEFINE n == ClearChannelIrq([o EXCEPT !.channels[c] = EmptyChannel], c)
<1>0. o \in OutType
  BY DEF OutInv
<1>1. n \in OutType
  BY <1>0 DEF OutType, ClearChannelIrq
<1>2. /\ n.channels = [o.channels EXCEPT ![c] = EmptyChannel]
      /\ n.irq_countdowns = o.irq_countdowns
      /\ n.pending_channel2_readbacks = o.pending_channel2_readbacks
      /\ n.pending_keyboard = o.pending_keyboard
      /\ n.pending_player_control = o.pending_player_control
      /\ n.irq_pending_channels = o.irq_pending_channels \ {c}
      /\ n.irq_asserted = (n.irq_pending_channels # {})
  BY <1>0 DEF OutType, ClearChannelIrq
<1>3. n.channels[c] = EmptyChannel /\ \A d \in Channels \ {c} : n.channels[d] = o.channels[d]
  BY <1>0, <1>2 DEF OutType
<1> HIDE DEF n
<1>4. IrqIsAcknowledged(n)
  <2>1. \A d \in n.irq_pending_channels \ {0} : d \in Channels \ {c} /\ d \in o.irq_pending_channels
    BY <1>0, <1>2 DEF OutType
  <2> QED
    BY <1>2, <1>3, <2>1 DEF OutInv, IrqIsAcknowledged
<1>5. DelayIsAcknowledged(n)
  BY <1>2, <1>3 DEF OutInv, DelayIsAcknowledged
<1>6. ChannelCarries(n)
  BY <1>3 DEF OutInv, ChannelCarries, Channels, EmptyChannel
<1>7. ReportsAreGated(n, keys, controls)
  BY <1>2, <1>3 DEF OutInv, ReportsAreGated, Channels, EmptyChannel, NoCmd
<1>8. OutInv(n, keys, controls)
  BY <1>1, <1>4, <1>5, <1>6, <1>7 DEF OutInv
<1> QED
  BY <1>8 DEF n

(* The countdowns that end raise IN2 for their channel. *)
LEMMA ExpireCountdownsInv ==
    ASSUME NEW o, NEW keys \in BOOLEAN, NEW controls \in BOOLEAN,
           OutInv(o, keys, controls), NEW cycles \in Nat
    PROVE  OutInv(ExpireCountdowns(o, cycles), keys, controls)
<1> DEFINE due == {c \in Channels : o.irq_countdowns[c] \in 1..cycles}
           n == ExpireCountdowns(o, cycles)
<1>0. o \in OutType
  BY DEF OutInv
<1>1. /\ n.channels = o.channels
      /\ n.irq_countdowns = [c \in Channels |-> IF o.irq_countdowns[c] > cycles
                                                THEN o.irq_countdowns[c] - cycles ELSE 0]
      /\ n.pending_channel2_readbacks = o.pending_channel2_readbacks
      /\ n.pending_keyboard = o.pending_keyboard
      /\ n.pending_player_control = o.pending_player_control
      /\ n.pending_drive_status = o.pending_drive_status
      /\ n.irq_pending_channels = o.irq_pending_channels \cup due
      /\ n.irq_asserted = (o.irq_asserted \/ due # {})
  BY <1>0 DEF OutType, ExpireCountdowns
<1>2. n \in OutType
  <2>1. [c \in Channels |-> IF o.irq_countdowns[c] > cycles
                            THEN o.irq_countdowns[c] - cycles ELSE 0] \in [Channels -> Nat]
    BY <1>0 DEF OutType
  <2>2. (o.irq_asserted \/ due # {}) \in BOOLEAN
    BY <1>0 DEF OutType
  <2> QED
    BY <1>0, <2>1, <2>2 DEF OutType, ExpireCountdowns
<1> HIDE DEF n
<1>3. \A c \in due : /\ o.channels[c].count # 0 /\ o.channels[c].index = 0
                     /\ o.channels[c].cmd # "F6"
  BY <1>0 DEF OutInv, DelayIsAcknowledged, OutType
<1>4. IrqIsAcknowledged(n)
  <2>1. o.irq_asserted = (o.irq_pending_channels # {})
    BY DEF OutInv, IrqIsAcknowledged
  <2>2. n.irq_asserted = (n.irq_pending_channels # {})
    <3> HIDE DEF due
    <3> QED
      BY <1>1, <2>1
  <2> QED
    BY <1>1, <1>3, <2>2 DEF OutInv, IrqIsAcknowledged
<1>5. DelayIsAcknowledged(n)
  <2>1. \A c \in Channels : n.irq_countdowns[c] # 0 => o.irq_countdowns[c] # 0
    BY <1>0, <1>1 DEF OutType
  <2> QED
    BY <1>1, <2>1 DEF OutInv, DelayIsAcknowledged
<1>6. ChannelCarries(n) /\ ReportsAreGated(n, keys, controls)
  BY <1>1 DEF OutInv, ChannelCarries, ReportsAreGated
<1>7. OutInv(n, keys, controls)
  BY <1>2, <1>4, <1>5, <1>6 DEF OutInv
<1> QED
  BY <1>7 DEF n

(* The three other queues may hold anything of their type, gate allowing. *)
LEMMA KeyQueueInv ==
    ASSUME NEW o, NEW keys \in BOOLEAN, NEW controls \in BOOLEAN,
           OutInv(o, keys, controls),
           NEW q \in Seq(KeyPackets), q # <<>> => keys
    PROVE  OutInv([o EXCEPT !.pending_keyboard = q], keys, controls)
<1> DEFINE n == [o EXCEPT !.pending_keyboard = q]
<1>1. n \in OutType
  BY DEF OutInv, OutType
<1>2. /\ n.channels = o.channels /\ n.irq_countdowns = o.irq_countdowns
      /\ n.pending_channel2_readbacks = o.pending_channel2_readbacks
      /\ n.pending_keyboard = q /\ n.pending_player_control = o.pending_player_control
      /\ n.irq_pending_channels = o.irq_pending_channels /\ n.irq_asserted = o.irq_asserted
  BY DEF OutInv, OutType
<1> HIDE DEF n
<1>3. OutInv(n, keys, controls)
  BY <1>1, <1>2 DEF OutInv, ChannelCarries, IrqIsAcknowledged, DelayIsAcknowledged,
                    ReportsAreGated
<1> QED
  BY <1>3 DEF n

\* New reports of the player's controls leave the other queues alone.
LEMMA PlayerQueueInv ==
    ASSUME NEW o, NEW keys \in BOOLEAN, NEW controls \in BOOLEAN,
           OutInv(o, keys, controls),
           NEW q \in Seq(PlayerPackets), q # <<>> => controls
    PROVE  OutInv([o EXCEPT !.pending_player_control = q], keys, controls)
<1> DEFINE n == [o EXCEPT !.pending_player_control = q]
<1>1. n \in OutType
  BY DEF OutInv, OutType
<1>2. /\ n.channels = o.channels /\ n.irq_countdowns = o.irq_countdowns
      /\ n.pending_channel2_readbacks = o.pending_channel2_readbacks
      /\ n.pending_keyboard = o.pending_keyboard /\ n.pending_player_control = q
      /\ n.irq_pending_channels = o.irq_pending_channels /\ n.irq_asserted = o.irq_asserted
  BY DEF OutInv, OutType
<1> HIDE DEF n
<1>3. OutInv(n, keys, controls)
  BY <1>1, <1>2 DEF OutInv, ChannelCarries, IrqIsAcknowledged, DelayIsAcknowledged,
                    ReportsAreGated
<1> QED
  BY <1>3 DEF n

\* So do new reports of the drive.
LEMMA DriveQueueInv ==
    ASSUME NEW o, NEW keys \in BOOLEAN, NEW controls \in BOOLEAN,
           OutInv(o, keys, controls), NEW q \in Seq(DrivePackets)
    PROVE  OutInv([o EXCEPT !.pending_drive_status = q], keys, controls)
<1> DEFINE n == [o EXCEPT !.pending_drive_status = q]
<1>1. n \in OutType
  BY DEF OutInv, OutType
<1>2. /\ n.channels = o.channels /\ n.irq_countdowns = o.irq_countdowns
      /\ n.pending_channel2_readbacks = o.pending_channel2_readbacks
      /\ n.pending_keyboard = o.pending_keyboard
      /\ n.pending_player_control = o.pending_player_control
      /\ n.irq_pending_channels = o.irq_pending_channels /\ n.irq_asserted = o.irq_asserted
  BY DEF OutInv, OutType
<1> HIDE DEF n
<1>3. OutInv(n, keys, controls)
  BY <1>1, <1>2 DEF OutInv, ChannelCarries, IrqIsAcknowledged, DelayIsAcknowledged,
                    ReportsAreGated
<1> QED
  BY <1>3 DEF n

(* Opening a gate never hurts. *)
LEMMA GateMonotone ==
    ASSUME NEW o, NEW k1 \in BOOLEAN, NEW c1 \in BOOLEAN, NEW k2 \in BOOLEAN, NEW c2 \in BOOLEAN,
           OutInv(o, k1, c1), k1 => k2, c1 => c2
    PROVE  OutInv(o, k2, c2)
BY DEF OutInv, ReportsAreGated

(* Closing one is safe after its queue is emptied and its report withdrawn. *)
LEMMA WithdrawKeyboardInv ==
    ASSUME NEW o, NEW keys \in BOOLEAN, NEW controls \in BOOLEAN,
           OutInv(o, keys, controls)
    PROVE  OutInv(WithdrawReport([o EXCEPT !.pending_keyboard = <<>>], 2, "A0"), FALSE, controls)
<1> DEFINE n == [o EXCEPT !.pending_keyboard = <<>>]
           w == ClearChannelIrq([n EXCEPT !.channels[2] = EmptyChannel], 2)
<1>0. <<>> \in Seq(KeyPackets) /\ (<<>> # <<>> => FALSE)
  BY EmptySeq
<1>1. OutInv(n, keys, controls)
  BY <1>0, KeyQueueInv
<1>2. n \in OutType /\ n.pending_keyboard = <<>> /\ 2 \in Channels
  <2>1. n.pending_keyboard = <<>>
    BY DEF OutInv, OutType
  <2>2. n \in OutType
    BY <1>1 DEF OutInv
  <2> QED
    BY <2>1, <2>2 DEF Channels
<1> HIDE DEF n
<1>3. CASE n.channels[2].cmd = "A0"
  <2>1. n.irq_countdowns[2] = 0
    BY <1>1, <1>2, <1>3 DEF OutInv, DelayIsAcknowledged
  <2>2. OutInv(w, keys, controls)
    BY <1>1, <1>2, <2>1, EmptyAndClearInv
  <2>3. w.channels[2] = EmptyChannel /\ w.pending_keyboard = <<>>
    BY <1>2 DEF OutType, ClearChannelIrq
  <2> HIDE DEF w
  <2>4. OutInv(w, FALSE, controls)
    BY <2>2, <2>3 DEF OutInv, ReportsAreGated, EmptyChannel, NoCmd
  <2> QED
    BY <1>3, <2>4 DEF WithdrawReport, n, w
<1>4. CASE n.channels[2].cmd # "A0"
  <2>1. OutInv(n, FALSE, controls)
    BY <1>1, <1>2, <1>4 DEF OutInv, ReportsAreGated
  <2> QED
    BY <1>4, <2>1 DEF WithdrawReport, n
<1> QED
  BY <1>3, <1>4

\* Withdrawn reports of the player leave none of them behind.
LEMMA WithdrawPlayerInv ==
    ASSUME NEW o, NEW keys \in BOOLEAN, NEW controls \in BOOLEAN,
           OutInv(o, keys, controls)
    PROVE  OutInv(WithdrawReport([o EXCEPT !.pending_player_control = <<>>], 1, "87"),
                  keys, FALSE)
<1> DEFINE n == [o EXCEPT !.pending_player_control = <<>>]
           w == ClearChannelIrq([n EXCEPT !.channels[1] = EmptyChannel], 1)
<1>0. <<>> \in Seq(PlayerPackets) /\ (<<>> # <<>> => FALSE)
  BY EmptySeq
<1>1. OutInv(n, keys, controls)
  BY <1>0, PlayerQueueInv
<1>2. n \in OutType /\ n.pending_player_control = <<>> /\ 1 \in Channels
  <2>1. n.pending_player_control = <<>>
    BY DEF OutInv, OutType
  <2>2. n \in OutType
    BY <1>1 DEF OutInv
  <2> QED
    BY <2>1, <2>2 DEF Channels
<1> HIDE DEF n
<1>3. CASE n.channels[1].cmd = "87"
  <2>1. n.irq_countdowns[1] = 0
    BY <1>1, <1>2 DEF OutInv, DelayIsAcknowledged
  <2>2. OutInv(w, keys, controls)
    BY <1>1, <1>2, <2>1, EmptyAndClearInv
  <2>3. w.channels[1] = EmptyChannel /\ w.pending_player_control = <<>>
    BY <1>2 DEF OutType, ClearChannelIrq
  <2> HIDE DEF w
  <2>4. OutInv(w, keys, FALSE)
    BY <2>2, <2>3 DEF OutInv, ReportsAreGated, EmptyChannel, NoCmd
  <2> QED
    BY <1>3, <2>4 DEF WithdrawReport, n, w
<1>4. CASE n.channels[1].cmd # "87"
  <2>1. OutInv(n, keys, FALSE)
    BY <1>1, <1>2, <1>4 DEF OutInv, ReportsAreGated
  <2> QED
    BY <1>4, <2>1 DEF WithdrawReport, n
<1> QED
  BY <1>3, <1>4

-----------------------------------------------------------------------------
(* One lemma per action. *)

(* Reading a byte: the first byte of every reply that interrupts or is about *)
(* to interrupt withdraws the interrupt.                                     *)
LEMMA ReadPreserves ==
    ASSUME SlaveInv, NEW c \in Channels, Read(c)
    PROVE  SlaveInv'
<1> DEFINE keys == mode.keyboard_events_enabled /\ keyboard.attached
           controls == mode.player_control_enabled
           ch     == out.channels[c]
           acks   == ch.index = 0 /\ (ch.cmd \in AckingReplies \/ (c = 1 /\ ch.cmd = "87"))
           polled == out.irq_countdowns[c] # 0
           rest   == IF ch.count = 1 THEN EmptyChannel
                     ELSE [ch EXCEPT !.index = @ + 1, !.count = @ - 1]
           taken  == [out EXCEPT !.irq_countdowns[c] = 0, !.channels[c] = rest]
           acked  == IF acks \/ polled THEN ClearChannelIrq(taken, c) ELSE taken
<1>0. /\ OutInv(out, keys, controls) /\ out \in OutType
      /\ keys \in BOOLEAN /\ controls \in BOOLEAN /\ mode \in ModeType
  BY DEF SlaveInv, TypeOK, OutInv, ModeType, KeyboardType
<1>1. ch \in OutChannel /\ ch.count # 0
  BY <1>0 DEF Read, OutType, EmptyChannel, NoCmd
<1>2. /\ rest \in OutChannel \cup {EmptyChannel}
      /\ rest.cmd \in {NoCmd, ch.cmd}
  <2> HIDE DEF ch
  <2>1. CASE ch.count = 1
    BY <2>1 DEF EmptyChannel
  <2>2. CASE ch.count # 1
    <3>1. ch.count - 1 \in Nat \ {0} /\ ch.index + 1 \in Nat
      BY <1>1, <2>2 DEF OutChannel
    <3> QED
      BY <1>1, <2>2, <3>1 DEF OutChannel
  <2> QED
    BY <2>1, <2>2
<1>3. /\ taken \in OutType
      /\ taken.channels = [out.channels EXCEPT ![c] = rest]
      /\ taken.irq_countdowns = [out.irq_countdowns EXCEPT ![c] = 0]
      /\ taken.irq_pending_channels = out.irq_pending_channels
      /\ taken.irq_asserted = out.irq_asserted
      /\ taken.pending_channel2_readbacks = out.pending_channel2_readbacks
      /\ taken.pending_keyboard = out.pending_keyboard
      /\ taken.pending_player_control = out.pending_player_control
  <2> HIDE DEF rest
  <2> QED
    BY <1>0, <1>2 DEF OutType
<1>4. /\ acked \in OutType
      /\ acked.channels = [out.channels EXCEPT ![c] = rest]
      /\ acked.irq_countdowns = [out.irq_countdowns EXCEPT ![c] = 0]
      /\ acked.irq_pending_channels =
            IF acks \/ polled THEN out.irq_pending_channels \ {c} ELSE out.irq_pending_channels
      /\ acked.irq_asserted = (acked.irq_pending_channels # {})
      /\ acked.pending_channel2_readbacks = out.pending_channel2_readbacks
      /\ acked.pending_keyboard = out.pending_keyboard
      /\ acked.pending_player_control = out.pending_player_control
  <2>1. out.irq_asserted = (out.irq_pending_channels # {})
    BY <1>0 DEF OutInv, IrqIsAcknowledged
  <2> HIDE DEF taken, acks, polled, rest
  <2>2. CASE acks \/ polled
    BY <1>3, <2>2 DEF OutType, ClearChannelIrq
  <2>3. CASE ~(acks \/ polled)
    BY <1>3, <2>1, <2>3
  <2> QED
    BY <2>2, <2>3
<1>5. c \in out.irq_pending_channels /\ c # 0 => acks
  <2> SUFFICES ASSUME c \in out.irq_pending_channels, c # 0
               PROVE  acks
    OBVIOUS
  <2>1. ch.index = 0 /\ ch.count # 0 /\ ch.cmd # "F6"
    BY <1>0 DEF OutInv, IrqIsAcknowledged
  <2>2. ch.cmd \in Replies
    BY <1>1 DEF OutChannel
  <2>3. ch.cmd = "87" => c = 1
    BY <1>0 DEF OutInv, ChannelCarries, Channels, NoCmd, Queries
  <2> QED
    BY <2>1, <2>2, <2>3 DEF AckingReplies
<1>6. OutInv(acked, keys, controls)
  <2> HIDE DEF acked, acks, polled, rest
  <2>1. \A d \in Channels \ {c} : acked.channels[d] = out.channels[d]
                                  /\ acked.irq_countdowns[d] = out.irq_countdowns[d]
    BY <1>0, <1>4 DEF OutType
  <2>2. acked.channels[c] = rest /\ acked.irq_countdowns[c] = 0
    BY <1>0, <1>4 DEF OutType
  <2>3. IrqIsAcknowledged(acked)
    <3>1. \A d \in acked.irq_pending_channels \ {0} : d \in out.irq_pending_channels /\ d \in Channels \ {c}
      BY <1>0, <1>4, <1>5 DEF OutType
    <3> QED
      BY <1>0, <1>4, <2>1, <3>1 DEF OutInv, IrqIsAcknowledged
  <2>4. DelayIsAcknowledged(acked)
    BY <1>0, <1>4, <2>1, <2>2 DEF OutInv, DelayIsAcknowledged
  <2>5. ChannelCarries(acked)
    BY <1>0, <1>2, <2>1, <2>2 DEF OutInv, ChannelCarries, Channels
  <2>6. ReportsAreGated(acked, keys, controls)
    BY <1>0, <1>2, <1>4, <2>1, <2>2 DEF OutInv, ReportsAreGated, Channels, NoCmd
  <2> QED
    BY <1>4, <2>3, <2>4, <2>5, <2>6 DEF OutInv
<1>7. OutInv(out', keys, controls)
  <2>1. out' = CASE c = 1 -> ServicePlayerControl(acked, mode)
                 [] c = 2 -> ServiceChannel2(acked, mode)
                 [] OTHER -> acked
    BY DEF Read
  <2> HIDE DEF acked, keys
  <2> QED
    BY <1>0, <1>6, <2>1, ServicePlayerControlInv, ServiceChannel2Inv
<1>8. UNCHANGED <<parser, mode, keyboard, player, drive, pointer, poll_countdown>>
  BY DEF Read
<1> QED
  BY <1>7, <1>8 DEF SlaveInv, TypeOK, OutInv

(* The facts every action starts from. *)
LEMMA InvFacts ==
    ASSUME SlaveInv
    PROVE  /\ OutInv(out, mode.keyboard_events_enabled /\ keyboard.attached,
                     mode.player_control_enabled)
           /\ out \in OutType /\ mode \in ModeType /\ keyboard \in KeyboardType
           /\ (mode.keyboard_events_enabled /\ keyboard.attached) \in BOOLEAN
           /\ mode.player_control_enabled \in BOOLEAN
           /\ mode.keyboard_events_enabled \in BOOLEAN
           /\ keyboard.attached \in BOOLEAN
BY DEF SlaveInv, TypeOK, OutInv, ModeType, KeyboardType

(* The parser after any byte. *)
LEMMA ParserTypes ==
    ASSUME parser \in ParserType, NEW b \in Bytes
    PROVE  /\ Pushed(b) \in ParserType
           /\ \A n \in Nat : [Pushed(b) EXCEPT !.count = n] \in ParserType
           /\ Rewound(Pushed(b)) \in ParserType
           /\ ClearInput(Pushed(b)) \in ParserType
           /\ ClearInput(parser) \in ParserType
<1>1. Pushed(b) \in ParserType
  <2> DEFINE head == IF parser.index = 0 THEN b ELSE parser.head
             index == IF parser.index < ParserCap THEN parser.index + 1 ELSE parser.index
  <2>1. head \in Bytes \cup {NoByte}
    BY DEF ParserType
  <2>2. index \in Nat
    BY DEF ParserType
  <2>3. Pushed(b) = [parser EXCEPT !.head = head, !.index = index]
    BY DEF ParserType, Pushed
  <2> HIDE DEF head, index
  <2> QED
    BY <2>1, <2>2, <2>3 DEF ParserType
<1>2. \A n \in Nat : [Pushed(b) EXCEPT !.count = n] \in ParserType
  BY <1>1 DEF ParserType
<1>3. Rewound(Pushed(b)) \in ParserType
  BY <1>1 DEF ParserType, Rewound
<1>4. ClearInput(Pushed(b)) \in ParserType
  BY <1>3 DEF ParserType, ClearInput
<1>5. ClearInput(parser) \in ParserType
  BY DEF ParserType, ClearInput, Rewound
<1> QED
  BY <1>1, <1>2, <1>3, <1>4, <1>5

\* A command on the player's channel.
LEMMA WritePlayerPreserves ==
    ASSUME SlaveInv, NEW b \in Bytes, WritePlayer(b)
    PROVE  SlaveInv'
<1> DEFINE keys == mode.keyboard_events_enabled /\ keyboard.attached
           controls == mode.player_control_enabled
<1>0. /\ OutInv(out, keys, controls) /\ keys \in BOOLEAN /\ controls \in BOOLEAN
      /\ mode \in ModeType
  BY InvFacts
<1>1. parser' \in ParserType
  BY ParserTypes DEF WritePlayer, SlaveInv, TypeOK
<1>2. /\ mode' \in ModeType
      /\ mode'.keyboard_events_enabled = mode.keyboard_events_enabled
      /\ OutInv(out', keys, mode'.player_control_enabled)
  <2>1. CASE parser.index = 0 /\ b = "8D"
    <3>1. mode' = [mode EXCEPT !.player_control_enabled = TRUE]
      BY <2>1 DEF WritePlayer
    <3>2. out' = [out EXCEPT !.pending_player_control = <<>>]
      BY <2>1 DEF WritePlayer
    <3>3. OutInv(out', keys, controls)
      <4>1. <<>> \in Seq(PlayerPackets) /\ (<<>> # <<>> => FALSE)
        BY EmptySeq
      <4> HIDE DEF keys, controls
      <4> QED
        BY <1>0, <3>2, <4>1, PlayerQueueInv
    <3>4. mode' \in ModeType /\ mode'.player_control_enabled = TRUE
          /\ mode'.keyboard_events_enabled = mode.keyboard_events_enabled
      BY <1>0, <3>1 DEF ModeType
    <3> QED
      BY <1>0, <3>3, <3>4, GateMonotone
  <2>2. CASE parser.index = 0 /\ b = "8E"
    <3>1. mode' = [mode EXCEPT !.player_control_enabled = FALSE]
      BY <2>2 DEF WritePlayer
    <3>2. out' = WithdrawReport([out EXCEPT !.pending_player_control = <<>>], 1, "87")
      BY <2>2 DEF WritePlayer
    <3>3. OutInv(out', keys, FALSE)
      <4> HIDE DEF keys, controls
      <4> QED
        BY <1>0, <3>2, WithdrawPlayerInv
    <3>4. mode' \in ModeType /\ mode'.player_control_enabled = FALSE
          /\ mode'.keyboard_events_enabled = mode.keyboard_events_enabled
      BY <1>0, <3>1 DEF ModeType
    <3> QED
      BY <3>3, <3>4
  <2>3. CASE ~(parser.index = 0 /\ b \in {"8D", "8E"})
    <3>1. UNCHANGED <<mode, out>>
      BY <2>3 DEF WritePlayer
    <3> QED
      BY <1>0, <3>1
  <2> QED
    BY <2>1, <2>2, <2>3
<1>3. UNCHANGED <<keyboard, player, drive, pointer, poll_countdown>>
  BY DEF WritePlayer
<1> QED
  BY <1>1, <1>2, <1>3 DEF SlaveInv, TypeOK, OutInv

\* A command on the mouse's channel.
LEMMA WriteMousePreserves ==
    ASSUME SlaveInv, NEW b \in Bytes, WriteMouse(b)
    PROVE  SlaveInv'
<1> DEFINE keys == mode.keyboard_events_enabled /\ keyboard.attached
           controls == mode.player_control_enabled
<1>0. /\ OutInv(out, keys, controls) /\ keys \in BOOLEAN /\ controls \in BOOLEAN
      /\ mode \in ModeType
  BY InvFacts
<1>1. parser' \in ParserType
  BY ParserTypes DEF WriteMouse, SlaveInv, TypeOK
<1>2. /\ mode' \in ModeType
      /\ mode'.keyboard_events_enabled = mode.keyboard_events_enabled
      /\ mode'.player_control_enabled = mode.player_control_enabled
      /\ OutInv(out', keys, controls)
  <2>1. CASE MouseCommand(b)
    <3>1. /\ mode' \in ModeType
          /\ mode'.keyboard_events_enabled = mode.keyboard_events_enabled
          /\ mode'.player_control_enabled = mode.player_control_enabled
      BY <1>0, <2>1 DEF MouseCommand, ModeType
    <3>2. OutInv(AssertChannelIrq(out, 0), keys, controls)
      <4>1. 0 \in Channels
        BY DEF Channels
      <4> HIDE DEF keys, controls
      <4> QED
        BY <1>0, <4>1, AssertInv
    <3> QED
      BY <1>0, <2>1, <3>1, <3>2 DEF MouseCommand
  <2>2. CASE UNCHANGED <<out, mode>>
    BY <1>0, <2>2
  <2> QED
    BY <2>1, <2>2 DEF WriteMouse
<1>3. pointer' \in PointerType
  BY DEF WriteMouse, SlaveInv, TypeOK, PointerType
<1>4. UNCHANGED <<keyboard, player, drive, poll_countdown>>
  BY DEF WriteMouse
<1> QED
  BY <1>1, <1>2, <1>3, <1>4 DEF SlaveInv, TypeOK, OutInv

\* A command on channel 2.
LEMMA WriteCh2Preserves ==
    ASSUME SlaveInv, NEW b \in Bytes, WriteCh2(b)
    PROVE  SlaveInv'
<1> DEFINE keys == mode.keyboard_events_enabled /\ keyboard.attached
           controls == mode.player_control_enabled
<1>0. /\ OutInv(out, keys, controls) /\ keys \in BOOLEAN /\ controls \in BOOLEAN
      /\ mode \in ModeType /\ keyboard.attached \in BOOLEAN /\ drive \in DriveType
  BY InvFacts DEF SlaveInv, TypeOK
<1>1. parser' \in ParserType
  BY ParserTypes DEF WriteCh2, SlaveInv, TypeOK
<1>2. /\ mode' \in ModeType /\ drive' \in DriveType
      /\ OutInv(out', mode'.keyboard_events_enabled /\ keyboard.attached,
                mode'.player_control_enabled)
  <2>1. CASE /\ mode.transport_parameter_bytes # 0
             /\ mode' = [mode EXCEPT !.transport_parameter_bytes = @ - 1]
             /\ UNCHANGED <<out, drive>>
    BY <1>0, <2>1 DEF ModeType
  <2>2. CASE /\ mode' \in {mode, [mode EXCEPT !.attenuation = TRUE]}
             /\ UNCHANGED <<out, drive>>
    BY <1>0, <2>2 DEF ModeType
  <2>3. CASE Channel2Command(b)
    <3>1. CASE b = "80"
      <4>1. /\ mode' = [mode EXCEPT !.keyboard_events_enabled = TRUE]
            /\ out' = [out EXCEPT !.pending_keyboard = <<>>]
            /\ drive' = drive
        BY <2>3, <3>1 DEF Channel2Command
      <4>2. <<>> \in Seq(KeyPackets) /\ (<<>> # <<>> => FALSE)
        BY EmptySeq
      <4>3. OutInv(out', keys, controls)
        <5> HIDE DEF keys, controls
        <5> QED
          BY <1>0, <4>1, <4>2, KeyQueueInv
      <4>4. /\ mode' \in ModeType /\ mode'.keyboard_events_enabled = TRUE
            /\ mode'.player_control_enabled = mode.player_control_enabled
        BY <1>0, <4>1 DEF ModeType
      <4>5. OutInv(out', keyboard.attached, controls)
        BY <1>0, <4>3, GateMonotone
      <4> QED
        BY <1>0, <4>1, <4>4, <4>5
    <3>2. CASE b = "81"
      <4>1. /\ mode' = [mode EXCEPT !.keyboard_events_enabled = FALSE]
            /\ out' = WithdrawReport([out EXCEPT !.pending_keyboard = <<>>], 2, "A0")
            /\ drive' = drive
        BY <2>3, <3>2 DEF Channel2Command
      <4>2. OutInv(out', FALSE, controls)
        <5> HIDE DEF keys, controls
        <5> QED
          BY <1>0, <4>1, WithdrawKeyboardInv
      <4>3. /\ mode' \in ModeType /\ mode'.keyboard_events_enabled = FALSE
            /\ mode'.player_control_enabled = mode.player_control_enabled
        BY <1>0, <4>1 DEF ModeType
      <4> QED
        BY <1>0, <4>1, <4>2, <4>3
    <3>3. CASE b \notin {"80", "81"}
      <4>1. out' = out
        BY <2>3, <3>3 DEF Channel2Command
      <4>2. /\ mode' \in ModeType
            /\ mode'.keyboard_events_enabled = mode.keyboard_events_enabled
            /\ mode'.player_control_enabled = mode.player_control_enabled
        <5>1. \/ mode' = [mode EXCEPT !.transport_adjust_enabled = ~@]
              \/ mode' = [mode EXCEPT !.transport_parameter_bytes =
                                         IF mode.transport_adjust_enabled THEN 2 ELSE @]
              \/ mode' = [mode EXCEPT !.host_reset_requested = TRUE]
              \/ mode' = mode
          BY <2>3, <3>3 DEF Channel2Command
        <5>2. CASE mode' = [mode EXCEPT !.transport_adjust_enabled = ~@]
          BY <1>0, <5>2 DEF ModeType
        <5>3. CASE mode' = [mode EXCEPT !.transport_parameter_bytes =
                                          IF mode.transport_adjust_enabled THEN 2 ELSE @]
          BY <1>0, <5>3 DEF ModeType
        <5>4. CASE mode' = [mode EXCEPT !.host_reset_requested = TRUE] \/ mode' = mode
          BY <1>0, <5>4 DEF ModeType
        <5> QED
          BY <5>1, <5>2, <5>3, <5>4
      <4>3. drive' \in DriveType
        BY <1>0, <2>3, <3>3 DEF Channel2Command, DriveType
      <4> QED
        BY <1>0, <4>1, <4>2, <4>3
    <3> QED
      BY <3>1, <3>2, <3>3
  <2> QED
    BY <2>1, <2>2, <2>3 DEF WriteCh2
<1>3. UNCHANGED <<keyboard, player, pointer, poll_countdown>>
  BY DEF WriteCh2
<1> QED
  BY <1>1, <1>2, <1>3 DEF SlaveInv, TypeOK, OutInv

(* The packet of the drive's state. *)
LEMMA DriveStatusPacketType ==
    ASSUME NEW d \in DriveType
    PROVE  DriveStatusPacket(d) \in DrivePackets /\ EmptyDrive \in DrivePackets
BY DEF DriveType, DriveStatusPacket, EmptyDrive, DrivePackets

\* An answer to a query is one of its packets.
LEMMA QueryAnswerType ==
    ASSUME TypeOK, NEW b \in Queries
    PROVE  QueryAnswer(b) \in QueryPackets
BY DEF TypeOK, ModeType, QueryAnswer, QueryPackets, Queries

\* A command on channel 3.
LEMMA WriteCh3Preserves ==
    ASSUME SlaveInv, NEW b \in Bytes, WriteCh3(b)
    PROVE  SlaveInv'
<1> DEFINE keys == mode.keyboard_events_enabled /\ keyboard.attached
           controls == mode.player_control_enabled
           p == Pushed(b)
<1>0. /\ OutInv(out, keys, controls) /\ keys \in BOOLEAN /\ controls \in BOOLEAN
      /\ mode \in ModeType /\ drive \in DriveType /\ TypeOK
      /\ ReadbackDelay \in Nat /\ DriveStatusDelay \in Nat
  BY InvFacts, SlaveAssumption DEF SlaveInv, TypeOK
<1>1. parser' \in ParserType
  BY ParserTypes DEF WriteCh3, SlaveInv, TypeOK
<1>2. /\ mode' \in ModeType
      /\ mode'.keyboard_events_enabled = mode.keyboard_events_enabled
      /\ mode'.player_control_enabled = mode.player_control_enabled
      /\ OutInv(out', keys, controls)
  <2>1. CASE /\ out' = CASE p.head = "B0" ->
                              PrepareReadback(out, 3, "B0", DriveStatusPacket(drive),
                                              DriveStatusDelay)
                         [] p.head = "B1" ->
                              PrepareReadback(out, 3, "B1", <<"B1", 0>>, ReadbackDelay)
                         [] OTHER -> out
             /\ UNCHANGED mode
    <3>1. /\ DriveStatusPacket(drive) \in Packets /\ <<"B1", 0>> \in Packets
          /\ "B0" \in Replies /\ "B1" \in Replies
      BY <1>0, DriveStatusPacketType DEF Packets, DrivePackets, Replies
    <3>2. \A cmd \in {"B0", "B1"}, buf \in Packets, delay \in Nat :
             OutInv(PrepareReadback(out, 3, cmd, buf, delay), keys, controls)
      <4> TAKE cmd \in {"B0", "B1"}, buf \in Packets, delay \in Nat
      <4>1. cmd \in Replies /\ cmd # "F6" /\ 3 \in {0, 2, 3} /\ 3 # 0 /\ 3 # 2
        BY DEF Replies
      <4> HIDE DEF keys, controls
      <4> QED
        BY <1>0, <4>1, PrepareInv
    <3>3. OutInv(PrepareReadback(out, 3, "B0", DriveStatusPacket(drive), DriveStatusDelay),
                 keys, controls)
      BY <1>0, <3>1, <3>2
    <3>4. OutInv(PrepareReadback(out, 3, "B1", <<"B1", 0>>, ReadbackDelay), keys, controls)
      BY <1>0, <3>1, <3>2
    <3> QED
      BY <1>0, <2>1, <3>3, <3>4
  <2>2. CASE UNCHANGED <<out, mode>>
    BY <1>0, <2>2
  <2>3. CASE Channel3Command(b)
    <3>1. CASE b \in Queries
      <4>1. /\ out' = QueueChannel2Readback(out, mode, b, QueryAnswer(b),
                                            IF b = "F6" THEN 0 ELSE ReadbackDelay)
            /\ UNCHANGED mode
        BY <2>3, <3>1 DEF Channel3Command, Queries
      <4>2. QueryAnswer(b) \in QueryPackets
        BY <1>0, <3>1, QueryAnswerType
      <4>3. (IF b = "F6" THEN 0 ELSE ReadbackDelay) \in Nat
        BY <1>0
      <4>4. OutInv(out', keys, controls)
        <5> DEFINE delay == IF b = "F6" THEN 0 ELSE ReadbackDelay
        <5>1. b = "F6" => delay = 0
          OBVIOUS
        <5> HIDE DEF keys, controls, delay
        <5>2. out' = QueueChannel2Readback(out, mode, b, QueryAnswer(b), delay)
          BY <4>1 DEF delay
        <5>3. delay \in Nat
          BY <4>3 DEF delay
        <5> QED
          BY <1>0, <3>1, <4>2, <5>1, <5>2, <5>3, QueueChannel2ReadbackInv
      <4> QED
        BY <1>0, <4>1, <4>4
    <3>2. CASE b = "FA"
      <4>1. /\ out' = ServiceDriveStatusNotification(out, mode')
            /\ mode' = [mode EXCEPT !.xbus_interrupt_enable = TRUE]
        BY <2>3, <3>2 DEF Channel3Command, Queries
      <4>2. OutInv(out', keys, controls)
        <5> HIDE DEF keys, controls
        <5> QED
          BY <1>0, <4>1, ServiceDriveStatusNotificationInv
      <4> QED
        BY <1>0, <4>1, <4>2 DEF ModeType
    <3>3. CASE b \notin Queries \cup {"FA"}
      <4>1. /\ out' = out
            /\ \/ mode' = [mode EXCEPT !.polling_active = TRUE]
               \/ mode' = [mode EXCEPT !.xbus_interrupt_enable = FALSE]
               \/ mode' = mode
        BY <2>3, <3>3 DEF Channel3Command
      <4> QED
        BY <1>0, <4>1 DEF ModeType
    <3> QED
      BY <3>1, <3>2, <3>3
  <2> QED
    BY <2>1, <2>2, <2>3 DEF WriteCh3
<1>3. UNCHANGED <<keyboard, player, drive, pointer, poll_countdown>>
  BY DEF WriteCh3
<1> QED
  BY <1>1, <1>2, <1>3 DEF SlaveInv, TypeOK, OutInv

-----------------------------------------------------------------------------
(* The frontend. *)

LEMMA KeyboardPacketType ==
    ASSUME NEW k \in KeyboardType
    PROVE  KeyboardPacket(k) \in KeyPackets
<1>1. k.pressed \in Seq(Keys) /\ k.modifiers \in Modifiers
  BY DEF KeyboardType
<1>2. k.pressed # <<>> => Last(k.pressed) \in Keys
  BY <1>1 DEF Last
<1> QED
  BY <1>1, <1>2 DEF KeyboardPacket, KeyPackets

\* A key that is released leaves keys.
LEMMA WithoutType ==
    ASSUME NEW held \in Seq(Keys), NEW code
    PROVE  Without(held, code) \in Seq(Keys)
<1>1. CASE \E i \in DOMAIN held : held[i] = code
  <2> DEFINE i == CHOOSE j \in DOMAIN held : held[j] = code
  <2>1. i \in 1..Len(held)
    BY <1>1
  <2> HIDE DEF i
  <2>2. SubSeq(held, 1, i - 1) \in Seq(Keys) /\ SubSeq(held, i + 1, Len(held)) \in Seq(Keys)
    BY <2>1
  <2>3. RemoveAt(held, i) \in Seq(Keys)
    BY <2>2 DEF RemoveAt
  <2> QED
    BY <1>1, <2>3 DEF Without, i
<1>2. CASE ~\E i \in DOMAIN held : held[i] = code
  BY <1>2 DEF Without
<1> QED
  BY <1>1, <1>2

(* A changed keyboard state is queued while reports are on. *)
LEMMA ReportKeyboardInv ==
    ASSUME SlaveInv, keyboard.attached, NEW k \in KeyboardType, ReportKeyboard(k)
    PROVE  OutInv(out', mode.keyboard_events_enabled /\ keyboard.attached,
                  mode.player_control_enabled)
<1> DEFINE keys == mode.keyboard_events_enabled /\ keyboard.attached
           controls == mode.player_control_enabled
           q == Append(out.pending_keyboard, KeyboardPacket(k))
           n == [out EXCEPT !.pending_keyboard = Append(@, KeyboardPacket(k))]
<1>0. /\ OutInv(out, keys, controls) /\ keys \in BOOLEAN /\ controls \in BOOLEAN
      /\ out \in OutType
  BY InvFacts
<1>1. CASE out' = out
  BY <1>0, <1>1
<1>2. CASE /\ mode.keyboard_events_enabled
           /\ out' = ServiceKeyboard(n, mode)
  <2>1. q \in Seq(KeyPackets)
    BY <1>0, KeyboardPacketType DEF OutType
  <2>2. n = [out EXCEPT !.pending_keyboard = q]
    BY <1>0 DEF OutType
  <2>3. keys
    BY <1>2
  <2>4. OutInv(n, keys, controls)
    <3> HIDE DEF keys, controls, q, n
    <3> QED
      BY <1>0, <2>1, <2>2, <2>3, KeyQueueInv
  <2> HIDE DEF keys, controls, n
  <2>5. OutInv(out', keys, controls)
    BY <1>0, <1>2, <2>4, ServiceKeyboardInv
  <2> QED
    BY <2>5 DEF keys, controls
<1> QED
  BY <1>1, <1>2 DEF ReportKeyboard

\* The host's keyboard.
LEMMA KeyboardPreserves ==
    ASSUME SlaveInv,
           \/ \E attached \in Attachments : SetKeyboardAttached(attached)
           \/ \E code \in Keys, pressed \in BOOLEAN, m \in Modifiers :
                 SetKeyboardKey(code, pressed, m)
           \/ \E m \in Modifiers : SetKeyboardModifiers(m)
    PROVE  SlaveInv'
<1> DEFINE keys == mode.keyboard_events_enabled /\ keyboard.attached
           controls == mode.player_control_enabled
<1>0. /\ OutInv(out, keys, controls) /\ keys \in BOOLEAN /\ controls \in BOOLEAN
      /\ mode \in ModeType /\ keyboard \in KeyboardType /\ TypeOK
  BY InvFacts DEF SlaveInv
<1>1. ASSUME NEW attached \in Attachments, SetKeyboardAttached(attached)
      PROVE  SlaveInv'
  <2>1. /\ out' = WithdrawReport([out EXCEPT !.pending_keyboard = <<>>], 2, "A0")
        /\ mode' = [mode EXCEPT !.keyboard_events_enabled = FALSE]
        /\ keyboard' = NewKeyboard(attached)
        /\ UNCHANGED <<parser, player, drive, pointer, poll_countdown>>
    BY <1>1 DEF SetKeyboardAttached
  <2>2. OutInv(out', FALSE, controls)
    <3> HIDE DEF keys, controls
    <3> QED
      BY <1>0, <2>1, WithdrawKeyboardInv
  <2>3. /\ mode' \in ModeType /\ mode'.keyboard_events_enabled = FALSE
        /\ mode'.player_control_enabled = mode.player_control_enabled
    BY <1>0, <2>1 DEF ModeType
  <2>4. keyboard' \in KeyboardType
    BY <2>1, EmptySeq, SlaveAssumption DEF NewKeyboard, KeyboardType
  <2>5. OutInv(out', mode'.keyboard_events_enabled /\ keyboard'.attached,
               mode'.player_control_enabled)
    BY <2>2, <2>3
  <2> QED
    BY <1>0, <2>1, <2>3, <2>4, <2>5 DEF SlaveInv, TypeOK, OutInv
<1>2. ASSUME NEW k \in KeyboardType, ReportKeyboard(k), keyboard.attached,
             keyboard' = k, k.attached = keyboard.attached,
             UNCHANGED <<parser, mode, player, drive, pointer, poll_countdown>>
      PROVE  SlaveInv'
  <2>1. OutInv(out', keys, controls)
    BY <1>2, ReportKeyboardInv
  <2>2. OutInv(out', mode'.keyboard_events_enabled /\ keyboard'.attached,
               mode'.player_control_enabled)
    BY <1>2, <2>1
  <2> QED
    BY <1>0, <1>2, <2>2 DEF SlaveInv, TypeOK, OutInv
<1>3. ASSUME NEW code \in Keys, NEW pressed \in BOOLEAN, NEW m \in Modifiers,
             SetKeyboardKey(code, pressed, m)
      PROVE  SlaveInv'
  <2> DEFINE others == Without(keyboard.pressed, code)
             held == IF pressed THEN Append(others, code) ELSE others
             k == [keyboard EXCEPT !.pressed = held, !.modifiers = m]
  <2>1. others \in Seq(Keys)
    BY <1>0, WithoutType DEF KeyboardType
  <2>2. held \in Seq(Keys)
    BY <2>1
  <2>3. k \in KeyboardType /\ k.attached = keyboard.attached
    <3> HIDE DEF held
    <3> QED
      BY <1>0, <2>2 DEF KeyboardType
  <2>4. /\ keyboard.attached /\ keyboard' = k /\ ReportKeyboard(k)
        /\ UNCHANGED <<parser, mode, player, drive, pointer, poll_countdown>>
    BY <1>3 DEF SetKeyboardKey
  <2> HIDE DEF k
  <2> QED
    BY <1>2, <2>3, <2>4
<1>4. ASSUME NEW m \in Modifiers, SetKeyboardModifiers(m)
      PROVE  SlaveInv'
  <2> DEFINE k == [keyboard EXCEPT !.modifiers = m]
  <2>1. k \in KeyboardType /\ k.attached = keyboard.attached
    BY <1>0 DEF KeyboardType
  <2>2. /\ keyboard.attached /\ keyboard' = k /\ ReportKeyboard(k)
        /\ UNCHANGED <<parser, mode, player, drive, pointer, poll_countdown>>
    BY <1>4 DEF SetKeyboardModifiers
  <2> HIDE DEF k
  <2> QED
    BY <1>2, <2>1, <2>2
<1> QED
  BY <1>1, <1>3, <1>4

\* The host's player controls.
LEMMA PlayerPreserves ==
    ASSUME SlaveInv, NEW key \in PlayerKeys, NEW pressed \in BOOLEAN,
           SetPlayerControlKey(key, pressed)
    PROVE  SlaveInv'
<1> DEFINE keys == mode.keyboard_events_enabled /\ keyboard.attached
           controls == mode.player_control_enabled
           held == IF pressed THEN player \cup {key} ELSE player \ {key}
           q == Append(out.pending_player_control, <<"87", held>>)
           n == [out EXCEPT !.pending_player_control = Append(@, <<"87", held>>)]
<1>0. /\ OutInv(out, keys, controls) /\ keys \in BOOLEAN /\ controls \in BOOLEAN
      /\ out \in OutType /\ mode \in ModeType /\ TypeOK
  BY InvFacts DEF SlaveInv
<1>1. held \in SUBSET PlayerKeys
  BY <1>0 DEF TypeOK
<1>2. OutInv(out', keys, controls)
  <2>1. CASE out' = out
    BY <1>0, <2>1
  <2>2. CASE controls /\ out' = ServicePlayerControl(n, mode)
    <3>1. q \in Seq(PlayerPackets)
      BY <1>0, <1>1 DEF OutType, PlayerPackets
    <3>2. n = [out EXCEPT !.pending_player_control = q]
      BY <1>0 DEF OutType
    <3>3. OutInv(n, keys, controls)
      <4> HIDE DEF keys, controls, q, n
      <4> QED
        BY <1>0, <2>2, <3>1, <3>2, PlayerQueueInv
    <3> HIDE DEF keys, n
    <3> QED
      BY <1>0, <2>2, <3>3, ServicePlayerControlInv
  <2> QED
    BY <2>1, <2>2 DEF SetPlayerControlKey
<1>3. player' \in SUBSET PlayerKeys /\ UNCHANGED <<parser, mode, keyboard, drive, pointer, poll_countdown>>
  BY <1>1 DEF SetPlayerControlKey
<1> QED
  BY <1>0, <1>2, <1>3 DEF SlaveInv, TypeOK, OutInv

\* The host's disc drive.
LEMMA DrivePreserves ==
    ASSUME SlaveInv,
           \/ \E present \in Discs : SetDiscPresent(present)
           \/ \E type \in DiscTypes : SetDiscType(type)
           \/ \E present \in Discs, replacing \in BOOLEAN : NotifyDiscChange(present, replacing)
    PROVE  SlaveInv'
<1> DEFINE keys == mode.keyboard_events_enabled /\ keyboard.attached
           controls == mode.player_control_enabled
<1>0. /\ OutInv(out, keys, controls) /\ keys \in BOOLEAN /\ controls \in BOOLEAN
      /\ out \in OutType /\ drive \in DriveType /\ TypeOK
  BY InvFacts DEF SlaveInv, TypeOK
<1>1. ASSUME NEW present \in Discs, SetDiscPresent(present)
      PROVE  SlaveInv'
  <2>1. /\ out' = [out EXCEPT !.pending_drive_status = <<>>]
        /\ drive' = [drive EXCEPT !.disc_present = present, !.disc_boot_mode = FALSE]
        /\ UNCHANGED <<parser, mode, keyboard, player, pointer, poll_countdown>>
    BY <1>1 DEF SetDiscPresent
  <2>2. OutInv(out', keys, controls)
    <3>1. <<>> \in Seq(DrivePackets)
      BY EmptySeq
    <3> HIDE DEF keys, controls
    <3> QED
      BY <1>0, <2>1, <3>1, DriveQueueInv
  <2>3. drive' \in DriveType
    BY <1>0, <2>1, SlaveAssumption DEF DriveType
  <2> QED
    BY <1>0, <2>1, <2>2, <2>3 DEF SlaveInv, TypeOK, OutInv
<1>2. ASSUME NEW type \in DiscTypes, SetDiscType(type)
      PROVE  SlaveInv'
  <2>1. /\ drive' = [drive EXCEPT !.disc_type_code = type]
        /\ UNCHANGED <<out, parser, mode, keyboard, player, pointer, poll_countdown>>
    BY <1>2 DEF SetDiscType
  <2>2. drive' \in DriveType
    BY <1>0, <2>1, SlaveAssumption DEF DriveType
  <2> QED
    BY <1>0, <2>1, <2>2 DEF SlaveInv, TypeOK, OutInv
<1>3. ASSUME NEW present \in Discs, NEW replacing \in BOOLEAN,
             NotifyDiscChange(present, replacing)
      PROVE  SlaveInv'
  <2> DEFINE d == [drive EXCEPT !.disc_present = present, !.disc_boot_mode = FALSE]
             notices == (IF replacing THEN <<EmptyDrive>> ELSE <<>>) \o <<DriveStatusPacket(d)>>
             q == out.pending_drive_status \o notices
             n == [out EXCEPT !.pending_drive_status = @ \o notices]
  <2>1. /\ out' = ServiceDriveStatusNotification(n, mode)
        /\ drive' = d
        /\ UNCHANGED <<parser, mode, keyboard, player, pointer, poll_countdown>>
    BY <1>3 DEF NotifyDiscChange
  <2>2. d \in DriveType
    BY <1>0, SlaveAssumption DEF DriveType
  <2>3. notices \in Seq(DrivePackets)
    <3>1. <<DriveStatusPacket(d)>> \in Seq(DrivePackets) /\ <<EmptyDrive>> \in Seq(DrivePackets)
      <4> HIDE DEF d
      <4> QED
        BY <2>2, DriveStatusPacketType
    <3>2. <<>> \in Seq(DrivePackets)
      BY EmptySeq
    <3> QED
      BY <3>1, <3>2, ConcatProperties
  <2>4. q \in Seq(DrivePackets)
    <3> HIDE DEF notices
    <3> QED
      BY <1>0, <2>3, ConcatProperties DEF OutType
  <2>5. n = [out EXCEPT !.pending_drive_status = q]
    BY <1>0 DEF OutType
  <2>6. OutInv(n, keys, controls)
    <3> HIDE DEF keys, controls, q, n
    <3> QED
      BY <1>0, <2>4, <2>5, DriveQueueInv
  <2>7. OutInv(out', keys, controls)
    <3> HIDE DEF keys, controls, n
    <3> QED
      BY <1>0, <2>1, <2>6, ServiceDriveStatusNotificationInv
  <2> QED
    BY <1>0, <2>1, <2>2, <2>7 DEF SlaveInv, TypeOK, OutInv
<1> QED
  BY <1>1, <1>2, <1>3

(* The pointer's position lives apart from the reply side until a poll. *)
LEMMA PointerPreserves ==
    ASSUME SlaveInv,
           \/ \E x \in Positions, btn \in Buttons : SetPointer(x, btn)
           \/ \E dx \in Motions, btn \in Buttons : MovePointer(dx, btn)
           \/ \E x \in Positions, btn \in Buttons : SetPointerAbsolute(x, btn)
    PROVE  SlaveInv'
<1>0. /\ pointer \in PointerType /\ Positions \subseteq 0..MaxPosition /\ MaxPosition \in Nat
      /\ Motions \subseteq Int
  BY SlaveAssumption DEF SlaveInv, TypeOK
<1>1. pointer' \in PointerType
  <2>1. ASSUME NEW x \in Positions, NEW btn \in Buttons, SetPointer(x, btn)
        PROVE  pointer' \in PointerType
    BY <1>0, <2>1 DEF SetPointer, PointerType
  <2>2. ASSUME NEW dx \in Motions, NEW btn \in Buttons, MovePointer(dx, btn)
        PROVE  pointer' \in PointerType
    <3>1. pointer.pending + dx \in Int
      BY <1>0 DEF PointerType
    <3>2. pointer' = [pointer EXCEPT !.pending = pointer.pending + dx, !.buttons = btn]
      BY <1>0, <2>2 DEF MovePointer, PointerType
    <3> QED
      BY <1>0, <3>1, <3>2 DEF PointerType
  <2>3. ASSUME NEW x \in Positions, NEW btn \in Buttons, SetPointerAbsolute(x, btn)
        PROVE  pointer' \in PointerType
    <3>1. x \in 0..MaxPosition /\ x \in -1..MaxPosition
      BY <1>0
    <3> QED
      BY <2>3, <3>1 DEF SetPointerAbsolute, PointerType
  <2> QED
    BY <2>1, <2>2, <2>3
<1>2. UNCHANGED <<out, parser, mode, keyboard, player, drive, poll_countdown>>
  BY DEF SetPointer, MovePointer, SetPointerAbsolute
<1> QED
  BY <1>1, <1>2 DEF SlaveInv, TypeOK, OutInv

\* What the machine takes from the latches.
LEMMA LatchPreserves ==
    ASSUME SlaveInv,
           TakeAttenuation \/ TakeHostResetRequest
             \/ \E video \in Videos : SetVideoStandard(video)
    PROVE  SlaveInv'
<1>1. /\ mode' \in ModeType
      /\ mode'.keyboard_events_enabled = mode.keyboard_events_enabled
      /\ mode'.player_control_enabled = mode.player_control_enabled
  <2>1. mode \in ModeType /\ Videos \subseteq {1, 2}
    BY SlaveAssumption DEF SlaveInv, TypeOK
  <2>2. \/ mode' = [mode EXCEPT !.attenuation = FALSE]
        \/ mode' = [mode EXCEPT !.host_reset_requested = FALSE]
        \/ \E video \in {1, 2} : mode' = [mode EXCEPT !.video_status = video]
    BY <2>1 DEF TakeAttenuation, TakeHostResetRequest, SetVideoStandard
  <2>3. CASE mode' = [mode EXCEPT !.attenuation = FALSE]
    BY <2>1, <2>3 DEF ModeType
  <2>4. CASE mode' = [mode EXCEPT !.host_reset_requested = FALSE]
    BY <2>1, <2>4 DEF ModeType
  <2>5. ASSUME NEW video \in {1, 2}, mode' = [mode EXCEPT !.video_status = video]
        PROVE  /\ mode' \in ModeType
               /\ mode'.keyboard_events_enabled = mode.keyboard_events_enabled
               /\ mode'.player_control_enabled = mode.player_control_enabled
    BY <2>1, <2>5 DEF ModeType
  <2> QED
    BY <2>2, <2>3, <2>4, <2>5
<1>2. UNCHANGED <<out, parser, keyboard, player, drive, pointer>>
  BY DEF TakeAttenuation, TakeHostResetRequest, SetVideoStandard
<1>3. poll_countdown' \in 1..PollInterval
  BY SlaveAssumption DEF SlaveInv, TypeOK, TakeAttenuation, TakeHostResetRequest, SetVideoStandard
<1> QED
  BY <1>1, <1>2, <1>3 DEF SlaveInv, TypeOK, OutInv

-----------------------------------------------------------------------------
(* Time, reset, and the whole. *)

LEMMA TickPreserves ==
    ASSUME SlaveInv, NEW cycles \in TickLengths, Tick(cycles)
    PROVE  SlaveInv'
<1> DEFINE keys == mode.keyboard_events_enabled /\ keyboard.attached
           controls == mode.player_control_enabled
           ticked == ExpireCountdowns(ServiceDriveStatusNotification(out, mode), cycles)
<1>0. /\ OutInv(out, keys, controls) /\ keys \in BOOLEAN /\ controls \in BOOLEAN
      /\ TypeOK /\ pointer \in PointerType /\ cycles \in Nat /\ cycles > 0
      /\ poll_countdown \in 1..PollInterval /\ PollInterval \in Nat \ {0} /\ MaxPosition \in Nat
  BY InvFacts, SlaveAssumption DEF SlaveInv, TypeOK
<1>1. OutInv(ticked, keys, controls)
  <2> HIDE DEF keys, controls
  <2> QED
    BY <1>0, ServiceDriveStatusNotificationInv, ExpireCountdownsInv
<1>2. PolledPointer(pointer) \in PointerType
  <2>1. \A x \in Int : Clamp(x) \in 0..MaxPosition
    BY <1>0 DEF Clamp
  <2>2. pointer.input - pointer.last + pointer.pending \in Int
        /\ pointer.device \in Int
    BY <1>0 DEF PointerType
  <2>3. Clamp(pointer.device + (pointer.input - pointer.last + pointer.pending)) \in 0..MaxPosition
    BY <2>1, <2>2
  <2>4. pointer.input \in -1..MaxPosition
    BY <1>0 DEF PointerType
  <2> DEFINE anchored == [pointer EXCEPT !.last = pointer.input, !.last_buttons = pointer.buttons]
             still == [pointer EXCEPT !.pending = 0]
             moved == [pointer EXCEPT !.last = pointer.input, !.last_buttons = pointer.buttons,
                         !.pending = 0,
                         !.device = Clamp(pointer.device
                                          + (pointer.input - pointer.last + pointer.pending))]
  <2>5. anchored \in PointerType
    <3>1. /\ pointer.input \in -1..MaxPosition /\ pointer.buttons \in Buttons
          /\ pointer \in PointerType
      BY <1>0, <2>4 DEF PointerType
    <3> QED
      BY <3>1 DEF PointerType
  <2>6. still \in PointerType
    <3>1. 0 \in Int /\ pointer \in PointerType
      BY <1>0
    <3> QED
      BY <3>1 DEF PointerType
  <2>8. moved \in PointerType
    <3> DEFINE device == Clamp(pointer.device
                               + (pointer.input - pointer.last + pointer.pending))
    <3>1. /\ pointer.input \in -1..MaxPosition /\ pointer.buttons \in Buttons
          /\ pointer \in PointerType /\ 0 \in Int
      BY <1>0, <2>4 DEF PointerType
    <3>2. device \in 0..MaxPosition
      BY <2>3
    <3> HIDE DEF device
    <3>3. [pointer EXCEPT !.last = pointer.input, !.last_buttons = pointer.buttons,
                          !.pending = 0, !.device = device] \in PointerType
      BY <3>1, <3>2 DEF PointerType
    <3> QED
      BY <3>3 DEF device
  <2>7. PolledPointer(pointer) \in {anchored, still, moved}
    BY <1>0 DEF PolledPointer, PointerType
  <2> QED
    BY <2>5, <2>6, <2>7, <2>8
<1>3. ASSUME NEW p \in PointerType
      PROVE  OutInv(ReportPointer(ticked, p), keys, controls)
  <2> DEFINE packet == <<"F7", p.device, p.buttons>>
             shown == PrepareReadback(ticked, 0, "F7", packet, 0)
  <2>1. packet \in Packets /\ "F7" \in Replies /\ 0 \in Channels
    BY DEF PointerType, Packets, PointerPackets, Replies, Channels
  <2>2. /\ 0 \in {0, 2, 3} /\ 0 \in Nat /\ 0 # 2 /\ 0 # 3 /\ "F7" # "F6"
    OBVIOUS
  <2>3. OutInv(shown, keys, controls)
    <3> DEFINE cmd == "F7"
    <3>1. cmd = "F7" /\ cmd \in Replies /\ cmd # "F6"
      BY <2>1
    <3> HIDE DEF keys, controls, packet, ticked, cmd
    <3>2. OutInv(PrepareReadback(ticked, 0, cmd, packet, 0), keys, controls)
      BY <1>0, <1>1, <2>1, <2>2, <3>1, PrepareInv
    <3> QED
      BY <3>2 DEF cmd
  <2>4. OutInv(AssertChannelIrq(shown, 0), keys, controls)
    <3> HIDE DEF keys, controls, shown
    <3> QED
      BY <1>0, <2>1, <2>3, AssertInv
  <2> QED
    BY <2>3, <2>4 DEF ReportPointer
<1>4. OutInv(out', keys, controls) /\ pointer' \in PointerType
      /\ poll_countdown' \in 1..PollInterval
  <2>1. CASE /\ poll_countdown > cycles
             /\ poll_countdown' = poll_countdown - cycles
             /\ out' = ticked
             /\ UNCHANGED pointer
    BY <1>0, <1>1, <2>1
  <2>2. CASE /\ poll_countdown' = PollInterval
             /\ pointer' = PolledPointer(pointer)
             /\ out' = IF PointerChanged(pointer) /\ mode.polling_active
                       THEN ReportPointer(ticked, pointer') ELSE ticked
    <3>1. pointer' \in PointerType
      BY <1>2, <2>2
    <3>2. OutInv(ReportPointer(ticked, pointer'), keys, controls)
      <4> HIDE DEF ticked, keys, controls
      <4> QED
        BY <1>3, <3>1
    <3> HIDE DEF ticked, keys, controls
    <3> QED
      BY <1>0, <1>1, <2>2, <3>1, <3>2
  <2> QED
    BY <2>1, <2>2 DEF Tick
<1>5. UNCHANGED <<parser, mode, keyboard, player, drive>>
  BY DEF Tick
<1> QED
  BY <1>0, <1>4, <1>5 DEF SlaveInv, TypeOK, OutInv

(* The state after power-on or reset. *)
LEMMA NewOutInv ==
    ASSUME NEW keys \in BOOLEAN, NEW controls \in BOOLEAN
    PROVE  OutInv(NewOut, keys, controls)
<1>1. NewOut \in OutType
  BY EmptySeq DEF NewOut, OutType
<1>2. \A c \in Channels : NewOut.channels[c] = EmptyChannel /\ NewOut.irq_countdowns[c] = 0
  BY DEF NewOut
<1>3. /\ NewOut.irq_pending_channels = {} /\ NewOut.irq_asserted = FALSE
      /\ NewOut.pending_channel2_readbacks = <<>> /\ NewOut.pending_keyboard = <<>>
      /\ NewOut.pending_player_control = <<>>
  BY DEF NewOut
<1>4. ChannelCarries(NewOut)
  BY <1>2 DEF ChannelCarries, Channels, EmptyChannel
<1>5. IrqIsAcknowledged(NewOut)
  BY <1>3 DEF IrqIsAcknowledged
<1>6. DelayIsAcknowledged(NewOut)
  <2>1. DOMAIN NewOut.pending_channel2_readbacks = {}
    BY <1>3
  <2> QED
    BY <1>2, <2>1 DEF DelayIsAcknowledged
<1>7. ReportsAreGated(NewOut, keys, controls)
  BY <1>2, <1>3 DEF ReportsAreGated, Channels, EmptyChannel, NoCmd
<1> QED
  BY <1>1, <1>4, <1>5, <1>6, <1>7 DEF OutInv

\* What a reset sets has the state's types.
LEMMA NewValuesType ==
    /\ \A video \in {1, 2} : NewMode(video) \in ModeType
    /\ \A attached \in BOOLEAN : NewKeyboard(attached) \in KeyboardType
    /\ NewPointer \in PointerType
    /\ IdleParser \in ParserType
    /\ PollInterval \in 1..PollInterval
<1>1. \A attached \in BOOLEAN : NewKeyboard(attached) \in KeyboardType
  BY EmptySeq, SlaveAssumption DEF NewKeyboard, KeyboardType
<1>2. NewPointer \in PointerType
  BY SlaveAssumption DEF NewPointer, PointerType
<1> QED
  BY <1>1, <1>2, SlaveAssumption DEF NewMode, ModeType, IdleParser, ParserType

\* A reset.
LEMMA ResetPreserves ==
    ASSUME SlaveInv, Reset
    PROVE  SlaveInv'
<1>1. mode' \in ModeType /\ keyboard' \in KeyboardType /\ drive' \in DriveType
  BY NewValuesType DEF Reset, SlaveInv, TypeOK, ModeType, KeyboardType, DriveType
<1>2. OutInv(out', mode'.keyboard_events_enabled /\ keyboard'.attached,
             mode'.player_control_enabled)
  BY <1>1, NewOutInv DEF Reset, ModeType, KeyboardType
<1> QED
  BY <1>1, <1>2, NewValuesType DEF Reset, SlaveInv, TypeOK, OutInv

\* The invariant holds initially.
LEMMA InitEstablishes == Init => SlaveInv
<1> SUFFICES ASSUME Init
             PROVE  SlaveInv
  OBVIOUS
<1>1. mode \in ModeType /\ keyboard \in KeyboardType /\ drive \in DriveType
  BY NewValuesType, SlaveAssumption DEF Init, DriveType
<1>2. OutInv(out, mode.keyboard_events_enabled /\ keyboard.attached,
             mode.player_control_enabled)
  BY <1>1, NewOutInv DEF Init, ModeType, KeyboardType
<1> QED
  BY <1>1, <1>2, NewValuesType DEF Init, SlaveInv, TypeOK, OutInv

\* Every step keeps it.
LEMMA NextPreserves ==
    ASSUME SlaveInv, [Next]_vars
    PROVE  SlaveInv'
<1>1. CASE UNCHANGED vars
  BY <1>1 DEF vars, SlaveInv, TypeOK, OutInv
<1>2. CASE Guest
  <2>1. CASE \E c \in Channels : Read(c)
    BY <2>1, ReadPreserves
  <2>2. ASSUME NEW w \in HostWrites, Write(w[1], w[2])
        PROVE  SlaveInv'
    <3>1. w[1] \in Channels /\ w[2] \in Bytes
      BY SlaveAssumption
    <3>2. \/ WriteMouse(w[2]) \/ WritePlayer(w[2]) \/ WriteCh2(w[2]) \/ WriteCh3(w[2])
      <4>1. w[1] = 0 \/ w[1] = 1 \/ w[1] = 2 \/ w[1] = 3
        BY <3>1 DEF Channels
      <4> QED
        BY <2>2, <4>1 DEF Write
    <3> QED
      BY <3>1, <3>2, WriteMousePreserves, WritePlayerPreserves, WriteCh2Preserves,
         WriteCh3Preserves
  <2> QED
    BY <1>2, <2>1, <2>2 DEF Guest
<1>3. CASE Frontend
  BY <1>3, PointerPreserves, PlayerPreserves, KeyboardPreserves, DrivePreserves, LatchPreserves
  DEF Frontend
<1>4. CASE Machine
  BY <1>4, LatchPreserves, TickPreserves, ResetPreserves DEF Machine
<1> QED
  BY <1>1, <1>2, <1>3, <1>4 DEF Next

(* The inductive invariant holds of every behaviour: every handler, tick and *)
(* frontend call keeps the conventions about who may interrupt and when.     *)
THEOREM SlaveInvariant == Spec => []SlaveInv
<1>1. Init => SlaveInv
  BY InitEstablishes
<1>2. SlaveInv /\ [Next]_vars => SlaveInv'
  BY NextPreserves
<1> QED
  BY <1>1, <1>2, PTL DEF Spec

(* Every field keeps its type. *)
THEOREM TypeCorrect == Spec => []TypeOK
<1>1. SlaveInv => TypeOK
  BY DEF SlaveInv
<1> QED
  BY <1>1, SlaveInvariant, PTL

(* IN2 is asserted exactly while a channel contributes to it, and channels   *)
(* 1 to 3 contribute only with an unconsumed reply.                          *)
THEOREM IrqHasItsReplyHolds == Spec => []IrqHasItsReply
<1>1. SlaveInv => IrqHasItsReply
  BY DEF SlaveInv, OutInv, IrqIsAcknowledged, IrqHasItsReply
<1> QED
  BY <1>1, SlaveInvariant, PTL

(* A delay runs only for a whole, unread reply of a query channel.           *)
THEOREM DelayHasItsReplyHolds == Spec => []DelayHasItsReply
<1>1. SlaveInv => DelayHasItsReply
  BY DEF SlaveInv, OutInv, DelayIsAcknowledged, DelayHasItsReply
<1> QED
  BY <1>1, SlaveInvariant, PTL

-----------------------------------------------------------------------------
(* The queues and the channels, on top of SlaveInv.                        *)

KeysCurrent(o, k) ==
    o.pending_keyboard # <<>> => Last(o.pending_keyboard) = KeyboardPacket(k)

ControlsCurrent(o, held) ==
    o.pending_player_control # <<>> => Last(o.pending_player_control) = <<"87", held>>

NoticesCurrent(o, d) ==
    o.pending_drive_status # <<>> =>
        (Last(o.pending_drive_status) = EmptyDrive <=> ~d.disc_present)

ParserIdle(p) == p.index = 0 => p.count = 0

(* What serving a channel does to a queue: nothing, or its head is taken. *)
Taken(now, before) == now = before \/ (before # <<>> /\ now = Tail(before))

QueuesTaken(now, before) ==
    /\ Taken(now.pending_keyboard, before.pending_keyboard)
    /\ Taken(now.pending_player_control, before.pending_player_control)
    /\ Taken(now.pending_drive_status, before.pending_drive_status)

(* A queue that lost only its head still ends with the same report. *)
LEMMA TakenKeepsLast ==
    ASSUME NEW S, NEW before \in Seq(S), NEW now, Taken(now, before), now # <<>>
    PROVE  before # <<>> /\ Last(now) = Last(before)
<1>1. CASE now = before
  BY <1>1
<1>2. CASE before # <<>> /\ now = Tail(before)
  <2>1. /\ Len(before) \in Nat /\ Len(before) # 0
        /\ Len(now) = Len(before) - 1
        /\ \A i \in 1..Len(now) : now[i] = before[i + 1]
        /\ now \in Seq(S)
    BY <1>2
  <2>2. Len(now) # 0 /\ Len(now) \in 1..Len(now)
    BY <2>1
  <2>3. now[Len(now)] = before[Len(before)]
    BY <2>1, <2>2
  <2> QED
    BY <1>2, <2>3 DEF Last
<1> QED
  BY <1>1, <1>2 DEF Taken

(* A queue ends with what was appended to it. *)
LEMMA AppendedIsLast ==
    ASSUME NEW S, NEW q \in Seq(S), NEW x \in S
    PROVE  Append(q, x) \in Seq(S) /\ Append(q, x) # <<>> /\ Last(Append(q, x)) = x
BY DEF Last

(* A queue ends with what a list of notices ends with. *)
LEMMA JoinedIsLast ==
    ASSUME NEW S, NEW q \in Seq(S), NEW r \in Seq(S), r # <<>>
    PROVE  q \o r \in Seq(S) /\ q \o r # <<>> /\ Last(q \o r) = Last(r)
<1>1. /\ Len(q) \in Nat /\ Len(r) \in Nat /\ Len(r) # 0
      /\ Len(q \o r) = Len(q) + Len(r)
      /\ q \o r \in Seq(S)
  OBVIOUS
<1>2. (q \o r)[Len(q) + Len(r)] = r[Len(r)]
  BY <1>1
<1> QED
  BY <1>1, <1>2 DEF Last

(* Serving a channel keeps every queue's last report. *)
LEMMA TakenKeepsCurrent ==
    ASSUME NEW o \in OutType, NEW n, QueuesTaken(n, o), NEW k, NEW held, NEW d
    PROVE  /\ KeysCurrent(o, k) => KeysCurrent(n, k)
           /\ ControlsCurrent(o, held) => ControlsCurrent(n, held)
           /\ NoticesCurrent(o, d) => NoticesCurrent(n, d)
<1>1. /\ o.pending_keyboard \in Seq(KeyPackets)
      /\ o.pending_player_control \in Seq(PlayerPackets)
      /\ o.pending_drive_status \in Seq(DrivePackets)
  BY DEF OutType
<1> QED
  BY <1>1, TakenKeepsLast DEF QueuesTaken, KeysCurrent, ControlsCurrent, NoticesCurrent

(* The helpers that serve compose with ones that leave the queues alone.     *)
SameQueues(now, before) ==
    /\ now.pending_keyboard = before.pending_keyboard
    /\ now.pending_player_control = before.pending_player_control
    /\ now.pending_drive_status = before.pending_drive_status

(* The methods that touch channels and the interrupt line only. *)
LEMMA ChannelMethodsKeepQueues ==
    ASSUME NEW o \in OutType, NEW c, NEW cmd, NEW buf, NEW delay, NEW cycles, NEW p
    PROVE  /\ SameQueues(AssertChannelIrq(o, c), o)
           /\ SameQueues(ClearChannelIrq(o, c), o)
           /\ SameQueues(PrepareReadback(o, c, cmd, buf, delay), o)
           /\ SameQueues(WithdrawReport(o, c, cmd), o)
           /\ SameQueues(ExpireCountdowns(o, cycles), o)
           /\ SameQueues(ReportPointer(o, p), o)
<1>1. SameQueues(AssertChannelIrq(o, c), o)
  BY DEF OutType, SameQueues, AssertChannelIrq
<1>2. SameQueues(ClearChannelIrq(o, c), o)
  BY DEF OutType, SameQueues, ClearChannelIrq
<1>3. SameQueues(PrepareReadback(o, c, cmd, buf, delay), o)
  BY DEF OutType, SameQueues, PrepareReadback
<1>4. SameQueues(WithdrawReport(o, c, cmd), o)
  BY DEF OutType, SameQueues, WithdrawReport, ClearChannelIrq
<1>5. SameQueues(ExpireCountdowns(o, cycles), o)
  BY DEF OutType, SameQueues, ExpireCountdowns
<1>6. SameQueues(ReportPointer(o, p), o)
  BY DEF OutType, SameQueues, ReportPointer, PrepareReadback, AssertChannelIrq
<1> QED
  BY <1>1, <1>2, <1>3, <1>4, <1>5, <1>6

(* The methods that serve a channel from its queue. *)
LEMMA ServicesTakeHeads ==
    ASSUME NEW o \in OutType, NEW m
    PROVE  /\ QueuesTaken(ServicePlayerControl(o, m), o)
           /\ QueuesTaken(ServiceKeyboard(o, m), o)
           /\ QueuesTaken(ServiceChannel2(o, m), o)
           /\ QueuesTaken(ServiceDriveStatusNotification(o, m), o)
<1>1. QueuesTaken(ServicePlayerControl(o, m), o)
  BY DEF OutType, QueuesTaken, Taken, ServicePlayerControl, AssertChannelIrq
<1>2. QueuesTaken(ServiceKeyboard(o, m), o)
  BY DEF OutType, QueuesTaken, Taken, ServiceKeyboard, AssertChannelIrq
<1>3. QueuesTaken(ServiceChannel2(o, m), o)
  BY <1>2 DEF OutType, QueuesTaken, Taken, ServiceChannel2, PrepareReadback
<1>4. QueuesTaken(ServiceDriveStatusNotification(o, m), o)
  BY DEF OutType, QueuesTaken, Taken, ServiceDriveStatusNotification, PrepareReadback
<1> QED
  BY <1>1, <1>2, <1>3, <1>4
-----------------------------------------------------------------------------
(* The facts the steps use: the present values, with the queues of closed   *)
(* paths empty.                                                             *)
QueueInv ==
    /\ SlaveInv
    /\ KeysCurrent(out, keyboard)
    /\ ControlsCurrent(out, player)
    /\ NoticesCurrent(out, drive)
    /\ ParserIdle(parser)

(* QueueInv adds to SlaveInv exactly what the runs check as NothingStale. *)
LEMMA QueueInvIsNothingStale == QueueInv <=> SlaveInv /\ NothingStale
BY DEF QueueInv, NothingStale, ReportsEndCurrent, NoticesEndCurrent, IdleParserHasNoLength,
       KeysCurrent, ControlsCurrent, NoticesCurrent, ParserIdle

(* What the steps use of it. *)
LEMMA QueueFacts ==
    ASSUME QueueInv
    PROVE  /\ out \in OutType /\ mode \in ModeType /\ parser \in ParserType
           /\ keyboard \in KeyboardType /\ drive \in DriveType /\ player \in SUBSET PlayerKeys
           /\ out.pending_keyboard # <<>> =>
                 mode.keyboard_events_enabled /\ keyboard.attached
           /\ out.pending_player_control # <<>> => mode.player_control_enabled
           /\ KeysCurrent(out, keyboard) /\ ControlsCurrent(out, player)
           /\ NoticesCurrent(out, drive) /\ ParserIdle(parser)
BY DEF QueueInv, SlaveInv, OutInv, TypeOK, ReportsAreGated

(* Current queues follow from same queues. *)
LEMMA SameKeepsCurrent ==
    ASSUME NEW o, NEW n, SameQueues(n, o), NEW k, NEW held, NEW d
    PROVE  /\ KeysCurrent(o, k) => KeysCurrent(n, k)
           /\ ControlsCurrent(o, held) => ControlsCurrent(n, held)
           /\ NoticesCurrent(o, d) => NoticesCurrent(n, d)
BY DEF SameQueues, KeysCurrent, ControlsCurrent, NoticesCurrent

(* A step that changes no device, and to the reply side only what serving   *)
(* and acknowledging do.                                                    *)
LEMMA TakenStep ==
    ASSUME QueueInv, SlaveInv', QueuesTaken(out', out), ParserIdle(parser'),
           UNCHANGED <<keyboard, player>>, drive'.disc_present = drive.disc_present
    PROVE  QueueInv'
<1>1. /\ KeysCurrent(out', keyboard) /\ ControlsCurrent(out', player)
      /\ NoticesCurrent(out', drive)
  BY QueueFacts, TakenKeepsCurrent
<1> QED
  BY <1>1 DEF QueueInv, KeysCurrent, ControlsCurrent, NoticesCurrent

(* SlaveHle::read. *)
LEMMA ReadKeepsQueues ==
    ASSUME QueueInv, SlaveInv', NEW c \in Channels, Read(c)
    PROVE  QueueInv'
<1> DEFINE ch == out.channels[c]
           rest == IF ch.count = 1 THEN EmptyChannel
                   ELSE [ch EXCEPT !.index = @ + 1, !.count = @ - 1]
           taken == [out EXCEPT !.irq_countdowns[c] = 0, !.channels[c] = rest]
           acks == ch.index = 0 /\ (ch.cmd \in AckingReplies \/ (c = 1 /\ ch.cmd = "87"))
           polled == out.irq_countdowns[c] # 0
           acked == IF acks \/ polled THEN ClearChannelIrq(taken, c) ELSE taken
<1>1. out \in OutType
  BY QueueFacts
<1>2. out' = CASE c = 1 -> ServicePlayerControl(acked, mode)
               [] c = 2 -> ServiceChannel2(acked, mode)
               [] OTHER -> acked
  BY DEF Read
<1>3. SameQueues(taken, out)
  BY <1>1 DEF SameQueues, OutType
<1>4. SameQueues(acked, out)
  <2>1. SameQueues(ClearChannelIrq(taken, c), out)
    BY <1>1 DEF OutType, SameQueues, ClearChannelIrq
  <2> QED
    BY <1>3, <2>1
<1>5. acked \in OutType
  <2>1. taken \in OutType
    <3>1. ch \in OutChannel
      BY <1>1 DEF Read, OutType, EmptyChannel, NoCmd
    <3>2. rest \in OutChannel \cup {EmptyChannel}
      <4> HIDE DEF ch
      <4>1. CASE ch.count # 1
        <5>1. ch.count - 1 \in Nat \ {0} /\ ch.index + 1 \in Nat
          BY <3>1, <4>1 DEF OutChannel
        <5> QED
          BY <3>1, <4>1, <5>1 DEF OutChannel
      <4> QED
        BY <4>1
    <3> HIDE DEF rest
    <3> QED
      BY <1>1, <3>2 DEF OutType
  <2>2. ClearChannelIrq(taken, c) \in OutType
    <3> HIDE DEF taken
    <3> QED
      BY <2>1 DEF OutType, ClearChannelIrq
  <2> QED
    BY <2>1, <2>2
<1>6. QueuesTaken(out', acked)
  <2> HIDE DEF acked
  <2>1. QueuesTaken(acked, acked)
    BY DEF QueuesTaken, Taken
  <2> QED
    BY <1>2, <1>5, <2>1, ServicesTakeHeads
<1>7. QueuesTaken(out', out)
  BY <1>4, <1>6 DEF QueuesTaken, SameQueues
<1> QED
  BY <1>7, TakenStep, QueueFacts DEF Read

(* Replacing a queue keeps the type and the other queues. *)
LEMMA QueueReplaced ==
    ASSUME NEW o \in OutType
    PROVE  /\ \A q \in Seq(KeyPackets) :
                /\ [o EXCEPT !.pending_keyboard = q] \in OutType
                /\ [o EXCEPT !.pending_keyboard = q].pending_keyboard = q
                /\ [o EXCEPT !.pending_keyboard = q].pending_player_control
                      = o.pending_player_control
                /\ [o EXCEPT !.pending_keyboard = q].pending_drive_status
                      = o.pending_drive_status
           /\ \A q \in Seq(PlayerPackets) :
                /\ [o EXCEPT !.pending_player_control = q] \in OutType
                /\ [o EXCEPT !.pending_player_control = q].pending_keyboard
                      = o.pending_keyboard
                /\ [o EXCEPT !.pending_player_control = q].pending_player_control = q
                /\ [o EXCEPT !.pending_player_control = q].pending_drive_status
                      = o.pending_drive_status
           /\ \A q \in Seq(DrivePackets) :
                /\ [o EXCEPT !.pending_drive_status = q] \in OutType
                /\ [o EXCEPT !.pending_drive_status = q].pending_keyboard
                      = o.pending_keyboard
                /\ [o EXCEPT !.pending_drive_status = q].pending_player_control
                      = o.pending_player_control
                /\ [o EXCEPT !.pending_drive_status = q].pending_drive_status = q
           /\ \A q \in Seq(PendingReadback) :
                /\ [o EXCEPT !.pending_channel2_readbacks = q] \in OutType
                /\ SameQueues([o EXCEPT !.pending_channel2_readbacks = q], o)
<1>1. ASSUME NEW q \in Seq(KeyPackets)
      PROVE  [o EXCEPT !.pending_keyboard = q] \in OutType
  BY DEF OutType
<1>2. ASSUME NEW q \in Seq(PlayerPackets)
      PROVE  [o EXCEPT !.pending_player_control = q] \in OutType
  BY DEF OutType
<1>3. ASSUME NEW q \in Seq(DrivePackets)
      PROVE  [o EXCEPT !.pending_drive_status = q] \in OutType
  BY DEF OutType
<1>4. ASSUME NEW q \in Seq(PendingReadback)
      PROVE  /\ [o EXCEPT !.pending_channel2_readbacks = q] \in OutType
             /\ SameQueues([o EXCEPT !.pending_channel2_readbacks = q], o)
  BY DEF OutType, SameQueues
<1> QED
  BY <1>1, <1>2, <1>3, <1>4 DEF OutType

(* write_player: the two gate commands empty the queue of player reports.  *)
LEMMA WritePlayerKeepsQueues ==
    ASSUME QueueInv, SlaveInv', NEW b \in Bytes, WritePlayer(b)
    PROVE  QueueInv'
<1>0. out \in OutType /\ parser \in ParserType
  BY QueueFacts
<1>1. /\ out'.pending_keyboard = out.pending_keyboard
      /\ out'.pending_drive_status = out.pending_drive_status
      /\ out'.pending_player_control \in {out.pending_player_control, <<>>}
  <2> DEFINE emptied == [out EXCEPT !.pending_player_control = <<>>]
  <2>1. /\ emptied \in OutType
        /\ emptied.pending_keyboard = out.pending_keyboard
        /\ emptied.pending_drive_status = out.pending_drive_status
        /\ emptied.pending_player_control = <<>>
    <3>1. <<>> \in Seq(PlayerPackets)
      OBVIOUS
    <3> QED
      BY <1>0, <3>1, QueueReplaced
  <2>2. SameQueues(WithdrawReport(emptied, 1, "87"), emptied)
    BY <2>1, ChannelMethodsKeepQueues
  <2>3. out' = out \/ out' = emptied \/ out' = WithdrawReport(emptied, 1, "87")
    BY DEF WritePlayer
  <2> HIDE DEF emptied
  <2> QED
    BY <2>1, <2>2, <2>3 DEF SameQueues
<1>2. ParserIdle(parser')
  <2>1. Pushed(b).index # 0
    BY <1>0 DEF Pushed, ParserCap, ParserType
  <2>2. parser' = ClearInput(parser) \/ parser' = ClearInput(Pushed(b)) \/ parser' = Pushed(b)
    BY DEF WritePlayer
  <2>3. ClearInput(parser).count = 0 /\ ClearInput(Pushed(b)).count = 0
    BY <1>0 DEF ClearInput, Rewound, Pushed, ParserType
  <2> QED
    BY <2>1, <2>2, <2>3 DEF ParserIdle
<1>3. UNCHANGED <<keyboard, player, drive>>
  BY DEF WritePlayer
<1> QED
  BY <1>1, <1>2, <1>3 DEF QueueInv, KeysCurrent, ControlsCurrent, NoticesCurrent

(* A command byte after which the buffer is idle leaves no length: nothing   *)
(* was being assembled, so there was none.                                   *)
LEMMA ParserSteps ==
    ASSUME QueueInv, NEW b \in Bytes
    PROVE  /\ Pushed(b).index # 0
           /\ \A n \in Nat : [Pushed(b) EXCEPT !.count = n].index # 0
           /\ ClearInput(Pushed(b)).count = 0
           /\ Pushed(b).index = 1 => Rewound(Pushed(b)).count = 0
<1>0. parser \in ParserType /\ ParserIdle(parser)
  BY QueueFacts
<1>1. /\ Pushed(b).index # 0 /\ Pushed(b).count = parser.count
      /\ Pushed(b).index = 1 => parser.index = 0
  BY <1>0 DEF Pushed, ParserCap, ParserType
<1>2. \A p \in ParserType :
         /\ \A n \in Nat : [p EXCEPT !.count = n].index = p.index
         /\ ClearInput(p).count = 0 /\ Rewound(p).count = p.count
  BY DEF ClearInput, Rewound, ParserType
<1>3. Pushed(b) \in ParserType
  BY <1>0, ParserTypes
<1> QED
  BY <1>0, <1>1, <1>2, <1>3 DEF ParserIdle

(* write_mouse. *)
LEMMA WriteMouseKeepsQueues ==
    ASSUME QueueInv, SlaveInv', NEW b \in Bytes, WriteMouse(b)
    PROVE  QueueInv'
<1>0. out \in OutType
  BY QueueFacts
<1>1. QueuesTaken(out', out)
  <2>1. out' = out \/ out' = AssertChannelIrq(out, 0)
    BY DEF WriteMouse, MouseCommand
  <2> QED
    BY <1>0, <2>1, ChannelMethodsKeepQueues DEF SameQueues, QueuesTaken, Taken
<1>2. ParserIdle(parser')
  <2>1. \/ parser' = [Pushed(b) EXCEPT !.count = 3]
        \/ parser' = ClearInput(Pushed(b))
        \/ parser' = Pushed(b)
        \/ Pushed(b).index = 1 /\ parser' = Rewound(Pushed(b))
    BY DEF WriteMouse
  <2>2. 3 \in Nat
    OBVIOUS
  <2> QED
    BY <2>1, <2>2, ParserSteps DEF ParserIdle
<1>3. UNCHANGED <<keyboard, player, drive>>
  BY DEF WriteMouse
<1> QED
  BY <1>1, <1>2, <1>3, TakenStep

(* write_ch2: the two gate commands empty the queue of key reports. *)
LEMMA WriteCh2KeepsQueues ==
    ASSUME QueueInv, SlaveInv', NEW b \in Bytes, WriteCh2(b)
    PROVE  QueueInv'
<1>0. out \in OutType /\ drive \in DriveType
  BY QueueFacts
<1>1. /\ out'.pending_player_control = out.pending_player_control
      /\ out'.pending_drive_status = out.pending_drive_status
      /\ out'.pending_keyboard \in {out.pending_keyboard, <<>>}
  <2> DEFINE emptied == [out EXCEPT !.pending_keyboard = <<>>]
  <2>1. /\ emptied \in OutType
        /\ emptied.pending_player_control = out.pending_player_control
        /\ emptied.pending_drive_status = out.pending_drive_status
        /\ emptied.pending_keyboard = <<>>
    <3>1. <<>> \in Seq(KeyPackets)
      OBVIOUS
    <3> QED
      BY <1>0, <3>1, QueueReplaced
  <2>2. SameQueues(WithdrawReport(emptied, 2, "A0"), emptied)
    BY <2>1, ChannelMethodsKeepQueues
  <2>3. out' = out \/ out' = emptied \/ out' = WithdrawReport(emptied, 2, "A0")
    <3>1. Channel2Command(b) =>
            out' = out \/ out' = emptied \/ out' = WithdrawReport(emptied, 2, "A0")
      BY DEF Channel2Command
    <3> QED
      BY <3>1 DEF WriteCh2
  <2> HIDE DEF emptied
  <2> QED
    BY <2>1, <2>2, <2>3 DEF SameQueues
<1>2. ParserIdle(parser')
  <2>1. \/ parser' = [Pushed(b) EXCEPT !.count = 5]
        \/ parser' = [Pushed(b) EXCEPT !.count = 17]
        \/ parser' = ClearInput(Pushed(b))
        \/ parser' = Pushed(b)
    BY DEF WriteCh2
  <2>2. 5 \in Nat /\ 17 \in Nat
    OBVIOUS
  <2> QED
    BY <2>1, <2>2, ParserSteps DEF ParserIdle
<1>3. UNCHANGED <<keyboard, player>> /\ drive'.disc_present = drive.disc_present
  <2>1. Channel2Command(b) => drive'.disc_present = drive.disc_present
    BY <1>0 DEF Channel2Command, DriveType
  <2> QED
    BY <2>1 DEF WriteCh2
<1> QED
  BY <1>1, <1>2, <1>3, QueueFacts
  DEF QueueInv, KeysCurrent, ControlsCurrent, NoticesCurrent

(* write_ch3: a query is answered from its queue, FA serves the notices. *)
LEMMA WriteCh3KeepsQueues ==
    ASSUME QueueInv, SlaveInv', NEW b \in Bytes, WriteCh3(b)
    PROVE  QueueInv'
<1>0. out \in OutType /\ ParserIdle(parser)
  BY QueueFacts
<1>1. QueuesTaken(out', out)
  <2>1. QueuesTaken(out, out)
    BY DEF QueuesTaken, Taken
  <2>2. ASSUME NEW cmd, NEW buf, NEW delay
        PROVE  QueuesTaken(PrepareReadback(out, 3, cmd, buf, delay), out)
    BY <1>0, ChannelMethodsKeepQueues DEF SameQueues, QueuesTaken, Taken
  <2>3. ASSUME NEW m PROVE QueuesTaken(ServiceDriveStatusNotification(out, m), out)
    BY <1>0, ServicesTakeHeads
  <2>4. ASSUME b \in Queries, NEW delay \in Nat
        PROVE  QueuesTaken(QueueChannel2Readback(out, mode, b, QueryAnswer(b), delay), out)
    <3> DEFINE answer == [cmd |-> b, buf |-> QueryAnswer(b), delay |-> delay]
               asked == [out EXCEPT !.pending_channel2_readbacks = Append(@, answer)]
    <3>1. answer \in PendingReadback
      BY <2>4, QueryAnswerType, QueueFacts DEF QueueInv, SlaveInv, PendingReadback
    <3>2. asked \in OutType /\ SameQueues(asked, out)
      <4> DEFINE q == Append(out.pending_channel2_readbacks, answer)
      <4> HIDE DEF answer
      <4>1. q \in Seq(PendingReadback)
        BY <1>0, <3>1 DEF OutType
      <4>2. asked = [out EXCEPT !.pending_channel2_readbacks = q]
        BY <1>0 DEF OutType
      <4> QED
        BY <1>0, <4>1, <4>2, QueueReplaced
    <3>3. QueuesTaken(ServiceChannel2(asked, mode), asked)
      <4> HIDE DEF asked
      <4> QED
        BY <3>2, ServicesTakeHeads
    <3> QED
      BY <3>2, <3>3 DEF QueueChannel2Readback, SameQueues, QueuesTaken
  <2>5. Channel3Command(b) => QueuesTaken(out', out)
    <3>1. ReadbackDelay \in Nat /\ 0 \in Nat
      BY SlaveAssumption
    <3> QED
      BY <2>1, <2>3, <2>4, <3>1 DEF Channel3Command
  <2> QED
    BY <2>1, <2>2, <2>5 DEF WriteCh3
<1>2. ParserIdle(parser')
  <2>1. \/ parser' = [Pushed(b) EXCEPT !.count = 4]
        \/ parser' = ClearInput(Pushed(b))
        \/ parser' = Pushed(b)
        \/ Pushed(b).index = 1 /\ parser' = Rewound(Pushed(b))
    BY DEF WriteCh3
  <2>2. 4 \in Nat
    OBVIOUS
  <2> QED
    BY <2>1, <2>2, ParserSteps DEF ParserIdle
<1>3. UNCHANGED <<keyboard, player, drive>>
  BY DEF WriteCh3
<1> QED
  BY <1>1, <1>2, <1>3, TakenStep

(* set_player_control_key queues the new state before it serves the channel; *)
(* with the path closed the queue is empty.                                  *)
LEMMA PlayerKeepsQueues ==
    ASSUME QueueInv, SlaveInv', NEW key \in PlayerKeys, NEW pressed \in BOOLEAN,
           SetPlayerControlKey(key, pressed)
    PROVE  QueueInv'
<1> DEFINE q == Append(out.pending_player_control, <<"87", player'>>)
           queued == [out EXCEPT !.pending_player_control = q]
<1>0. out \in OutType /\ out.pending_player_control \in Seq(PlayerPackets)
  BY QueueFacts DEF OutType
<1>1. UNCHANGED <<parser, mode, keyboard, drive>>
  BY DEF SetPlayerControlKey
<1>2. CASE out' = out /\ ~mode.player_control_enabled
  <2>1. out'.pending_player_control = <<>>
    BY <1>2, QueueFacts
  <2> QED
    BY <1>1, <1>2, <2>1 DEF QueueInv, KeysCurrent, ControlsCurrent, NoticesCurrent
<1>3. CASE out' = ServicePlayerControl(queued, mode)
  <2>1. <<"87", player'>> \in PlayerPackets
    BY DEF SlaveInv, TypeOK, PlayerPackets
  <2>2. q \in Seq(PlayerPackets) /\ q # <<>> /\ Last(q) = <<"87", player'>>
    BY <1>0, <2>1, AppendedIsLast
  <2>3. /\ queued \in OutType /\ queued.pending_player_control = q
        /\ queued.pending_keyboard = out.pending_keyboard
        /\ queued.pending_drive_status = out.pending_drive_status
    <3> HIDE DEF q
    <3> QED
      BY <1>0, <2>2, QueueReplaced
  <2>4. /\ KeysCurrent(queued, keyboard) /\ ControlsCurrent(queued, player')
        /\ NoticesCurrent(queued, drive)
    <3> HIDE DEF queued, q
    <3> QED
      BY <2>2, <2>3, QueueFacts DEF KeysCurrent, ControlsCurrent, NoticesCurrent
  <2>5. QueuesTaken(out', queued)
    <3> HIDE DEF queued
    <3> QED
      BY <1>3, <2>3, ServicesTakeHeads
  <2>6. /\ KeysCurrent(out', keyboard) /\ ControlsCurrent(out', player')
        /\ NoticesCurrent(out', drive)
    <3> HIDE DEF queued
    <3> QED
      BY <2>3, <2>4, <2>5, TakenKeepsCurrent
  <2> QED
    BY <1>1, <2>6 DEF QueueInv, KeysCurrent, NoticesCurrent, ControlsCurrent
<1>4. \/ out' = out /\ ~mode.player_control_enabled
      \/ out' = ServicePlayerControl(queued, mode)
  <2>1. queued = [out EXCEPT !.pending_player_control = Append(@, <<"87", player'>>)]
    BY <1>0 DEF OutType
  <2> HIDE DEF queued
  <2> QED
    BY <2>1 DEF SetPlayerControlKey
<1> QED
  BY <1>2, <1>3, <1>4

(* The keyboard's report: queued, or nothing to report, or no one to report  *)
(* to and nothing queued.                                                    *)
LEMMA ReportKeepsQueues ==
    ASSUME QueueInv, SlaveInv', NEW k \in KeyboardType, ReportKeyboard(k),
           keyboard' = k, UNCHANGED <<parser, mode, player, drive>>
    PROVE  QueueInv'
<1> DEFINE q == Append(out.pending_keyboard, KeyboardPacket(k))
           queued == [out EXCEPT !.pending_keyboard = q]
<1>0. out \in OutType /\ out.pending_keyboard \in Seq(KeyPackets)
  BY QueueFacts DEF OutType
<1>1. \/ out' = out /\ ~mode.keyboard_events_enabled
      \/ out' = out /\ KeyboardPacket(k) = KeyboardPacket(keyboard)
      \/ out' = ServiceKeyboard(queued, mode)
  <2>1. queued = [out EXCEPT !.pending_keyboard = Append(@, KeyboardPacket(k))]
    BY <1>0 DEF OutType
  <2> HIDE DEF queued
  <2> QED
    BY <2>1 DEF ReportKeyboard
<1>2. CASE out' = out /\ ~mode.keyboard_events_enabled
  <2>1. out'.pending_keyboard = <<>>
    BY <1>2, QueueFacts
  <2> QED
    BY <1>2, <2>1 DEF QueueInv, KeysCurrent, ControlsCurrent, NoticesCurrent
<1>3. CASE out' = out /\ KeyboardPacket(k) = KeyboardPacket(keyboard)
  BY <1>3 DEF QueueInv, KeysCurrent, ControlsCurrent, NoticesCurrent
<1>4. CASE out' = ServiceKeyboard(queued, mode)
  <2>1. KeyboardPacket(k) \in KeyPackets
    BY KeyboardPacketType
  <2>2. q \in Seq(KeyPackets) /\ q # <<>> /\ Last(q) = KeyboardPacket(k)
    BY <1>0, <2>1, AppendedIsLast
  <2>3. /\ queued \in OutType /\ queued.pending_keyboard = q
        /\ queued.pending_player_control = out.pending_player_control
        /\ queued.pending_drive_status = out.pending_drive_status
    <3> HIDE DEF q
    <3> QED
      BY <1>0, <2>2, QueueReplaced
  <2>4. /\ KeysCurrent(queued, k) /\ ControlsCurrent(queued, player)
        /\ NoticesCurrent(queued, drive)
    <3> HIDE DEF queued, q
    <3> QED
      BY <2>2, <2>3, QueueFacts DEF KeysCurrent, ControlsCurrent, NoticesCurrent
  <2>5. QueuesTaken(out', queued)
    <3> HIDE DEF queued
    <3> QED
      BY <1>4, <2>3, ServicesTakeHeads
  <2>6. KeysCurrent(out', k) /\ ControlsCurrent(out', player) /\ NoticesCurrent(out', drive)
    <3> HIDE DEF queued
    <3> QED
      BY <2>3, <2>4, <2>5, TakenKeepsCurrent
  <2> QED
    BY <2>6 DEF QueueInv, KeysCurrent, NoticesCurrent, ControlsCurrent
<1> QED
  BY <1>1, <1>2, <1>3, <1>4

(* The keyboard: attaching it empties its queue, keys and modifiers report.  *)
LEMMA KeyboardKeepsQueues ==
    ASSUME QueueInv, SlaveInv',
           \/ \E attached \in Attachments : SetKeyboardAttached(attached)
           \/ \E code \in Keys, pressed \in BOOLEAN, m \in Modifiers :
                 SetKeyboardKey(code, pressed, m)
           \/ \E m \in Modifiers : SetKeyboardModifiers(m)
    PROVE  QueueInv'
<1>0. out \in OutType /\ keyboard' \in KeyboardType
  BY QueueFacts DEF SlaveInv, TypeOK
<1>1. CASE \E attached \in Attachments : SetKeyboardAttached(attached)
  <2> DEFINE emptied == [out EXCEPT !.pending_keyboard = <<>>]
  <2>1. <<>> \in Seq(KeyPackets)
    OBVIOUS
  <2>2. /\ emptied \in OutType /\ emptied.pending_keyboard = <<>>
        /\ emptied.pending_player_control = out.pending_player_control
        /\ emptied.pending_drive_status = out.pending_drive_status
    BY <1>0, <2>1, QueueReplaced
  <2>3. SameQueues(WithdrawReport(emptied, 2, "A0"), emptied)
    BY <2>2, ChannelMethodsKeepQueues
  <2>4. /\ out' = WithdrawReport(emptied, 2, "A0")
        /\ UNCHANGED <<parser, player, drive>>
    BY <1>1 DEF SetKeyboardAttached
  <2>5. /\ out'.pending_keyboard = <<>>
        /\ out'.pending_player_control = out.pending_player_control
        /\ out'.pending_drive_status = out.pending_drive_status
    <3> HIDE DEF emptied
    <3> QED
      BY <2>2, <2>3, <2>4 DEF SameQueues
  <2> QED
    BY <2>4, <2>5 DEF QueueInv, KeysCurrent, ControlsCurrent, NoticesCurrent
<1>2. CASE \/ \E code \in Keys, pressed \in BOOLEAN, m \in Modifiers :
                 SetKeyboardKey(code, pressed, m)
           \/ \E m \in Modifiers : SetKeyboardModifiers(m)
  <2>1. ReportKeyboard(keyboard') /\ UNCHANGED <<parser, mode, player, drive>>
    BY <1>2 DEF SetKeyboardKey, SetKeyboardModifiers
  <2> QED
    BY <1>0, <2>1, ReportKeepsQueues
<1> QED
  BY <1>1, <1>2

(* The drive: an insert at power-on empties the queue, a swap ends it with   *)
(* what is now in the drive.  Every disc type is a number other than 0.      *)
LEMMA DriveKeepsQueues ==
    ASSUME QueueInv, SlaveInv',
           \/ \E present \in Discs : SetDiscPresent(present)
           \/ \E type \in DiscTypes : SetDiscType(type)
           \/ \E present \in Discs, replacing \in BOOLEAN : NotifyDiscChange(present, replacing)
    PROVE  QueueInv'
<1>0. out \in OutType /\ drive \in DriveType
  BY QueueFacts
<1>1. CASE \E present \in Discs : SetDiscPresent(present)
  <2> DEFINE emptied == [out EXCEPT !.pending_drive_status = <<>>]
  <2>1. <<>> \in Seq(DrivePackets)
    OBVIOUS
  <2>2. /\ emptied.pending_drive_status = <<>>
        /\ emptied.pending_keyboard = out.pending_keyboard
        /\ emptied.pending_player_control = out.pending_player_control
    BY <1>0, <2>1, QueueReplaced
  <2>3. out' = emptied /\ UNCHANGED <<parser, keyboard, player>>
    BY <1>1 DEF SetDiscPresent
  <2> HIDE DEF emptied
  <2> QED
    BY <2>2, <2>3 DEF QueueInv, KeysCurrent, ControlsCurrent, NoticesCurrent
<1>2. CASE \E type \in DiscTypes : SetDiscType(type)
  <2>1. UNCHANGED <<out, parser, keyboard, player>> /\ drive'.disc_present = drive.disc_present
    BY <1>0, <1>2 DEF SetDiscType, DriveType
  <2> QED
    BY <2>1 DEF QueueInv, KeysCurrent, ControlsCurrent, NoticesCurrent
<1>3. ASSUME NEW present \in Discs, NEW replacing \in BOOLEAN,
             NotifyDiscChange(present, replacing)
      PROVE  QueueInv'
  <2> DEFINE d == [drive EXCEPT !.disc_present = present, !.disc_boot_mode = FALSE]
             notices == (IF replacing THEN <<EmptyDrive>> ELSE <<>>) \o <<DriveStatusPacket(d)>>
             q == out.pending_drive_status \o notices
             queued == [out EXCEPT !.pending_drive_status = q]
  <2>1. d \in DriveType /\ d.disc_present = present /\ present \in BOOLEAN
    BY <1>0, SlaveAssumption DEF DriveType
  <2>2. /\ DriveStatusPacket(d) \in DrivePackets /\ EmptyDrive \in DrivePackets
        /\ DriveStatusPacket(d) = EmptyDrive <=> ~present
    <3> HIDE DEF d
    <3>1. d.disc_type_code \in {2, 4} /\ d.disc_boot_mode \in BOOLEAN
      BY <2>1 DEF DriveType
    <3>2. present => DriveStatusPacket(d)[2] # 0
      BY <2>1, <3>1 DEF DriveStatusPacket
    <3>3. EmptyDrive[2] = 0
      BY DEF EmptyDrive
    <3> QED
      BY <2>1, <3>2, <3>3, DriveStatusPacketType DEF DriveStatusPacket
  <2>3. notices \in Seq(DrivePackets) /\ notices # <<>> /\ Last(notices) = DriveStatusPacket(d)
    <3> DEFINE first == IF replacing THEN <<EmptyDrive>> ELSE <<>>
    <3> HIDE DEF d
    <3>1. first \in Seq(DrivePackets) /\ <<DriveStatusPacket(d)>> \in Seq(DrivePackets)
      BY <2>2
    <3>2. <<DriveStatusPacket(d)>> # <<>>
          /\ Last(<<DriveStatusPacket(d)>>) = DriveStatusPacket(d)
      BY DEF Last
    <3> HIDE DEF first
    <3>3. /\ first \o <<DriveStatusPacket(d)>> \in Seq(DrivePackets)
          /\ first \o <<DriveStatusPacket(d)>> # <<>>
          /\ Last(first \o <<DriveStatusPacket(d)>>) = Last(<<DriveStatusPacket(d)>>)
      BY <3>1, <3>2, JoinedIsLast
    <3> QED
      BY <3>2, <3>3 DEF first
  <2>4. q \in Seq(DrivePackets) /\ q # <<>> /\ Last(q) = DriveStatusPacket(d)
    <3> HIDE DEF notices, d
    <3>1. out.pending_drive_status \in Seq(DrivePackets)
      BY <1>0 DEF OutType
    <3> QED
      BY <2>3, <3>1, JoinedIsLast
  <2>5. /\ queued \in OutType /\ queued.pending_drive_status = q
        /\ queued.pending_keyboard = out.pending_keyboard
        /\ queued.pending_player_control = out.pending_player_control
    <3> HIDE DEF q
    <3> QED
      BY <1>0, <2>4, QueueReplaced
  <2>6. /\ out' = ServiceDriveStatusNotification(queued, mode)
        /\ drive' = d
        /\ UNCHANGED <<parser, keyboard, player>>
    <3>1. queued = [out EXCEPT !.pending_drive_status = @ \o notices]
      BY <1>0 DEF OutType
    <3> HIDE DEF queued
    <3> QED
      BY <1>3, <3>1 DEF NotifyDiscChange
  <2>7. KeysCurrent(queued, keyboard) /\ ControlsCurrent(queued, player)
        /\ NoticesCurrent(queued, drive')
    <3> HIDE DEF queued, q, d
    <3> QED
      BY <2>1, <2>2, <2>4, <2>5, <2>6, QueueFacts
      DEF KeysCurrent, ControlsCurrent, NoticesCurrent
  <2>8. KeysCurrent(out', keyboard) /\ ControlsCurrent(out', player)
        /\ NoticesCurrent(out', drive')
    <3> HIDE DEF queued, d
    <3>1. QueuesTaken(out', queued)
      BY <2>5, <2>6, ServicesTakeHeads
    <3> QED
      BY <2>5, <2>7, <3>1, TakenKeepsCurrent
  <2> QED
    BY <2>6, <2>8 DEF QueueInv, KeysCurrent, ControlsCurrent
<1> QED
  BY <1>1, <1>2, <1>3

(* The steps that leave queues, devices of the queues and parser alone.      *)
LEMMA QuietKeepsQueues ==
    ASSUME QueueInv, SlaveInv', UNCHANGED <<parser, keyboard, player, drive, out>>
    PROVE  QueueInv'
BY DEF QueueInv, KeysCurrent, ControlsCurrent, NoticesCurrent

(* tick: a notice may be taken, delays expire, the pointer reports. *)
LEMMA TickKeepsQueues ==
    ASSUME QueueInv, SlaveInv', NEW cycles \in TickLengths, Tick(cycles)
    PROVE  QueueInv'
<1> DEFINE served == ServiceDriveStatusNotification(out, mode)
           ticked == ExpireCountdowns(served, cycles)
<1>0. out \in OutType
  BY QueueFacts
<1>1. QueuesTaken(served, out)
  BY <1>0, ServicesTakeHeads
<1>2. SameQueues(ticked, served)
  BY <1>0 DEF SameQueues, OutType, ExpireCountdowns, ServiceDriveStatusNotification,
              PrepareReadback
<1>3. SameQueues(ReportPointer(ticked, pointer'), ticked)
  BY <1>0 DEF SameQueues, OutType, ExpireCountdowns, ServiceDriveStatusNotification,
              PrepareReadback, ReportPointer, AssertChannelIrq
<1>4. out' = ticked \/ out' = ReportPointer(ticked, pointer')
  <2> HIDE DEF ticked
  <2>1. ticked = ExpireCountdowns(ServiceDriveStatusNotification(out, mode), cycles)
    BY DEF ticked
  <2> QED
    BY <2>1 DEF Tick
<1>5. QueuesTaken(out', out)
  <2> HIDE DEF ticked, served
  <2> QED
    BY <1>1, <1>2, <1>3, <1>4 DEF SameQueues, QueuesTaken
<1>6. UNCHANGED <<parser, keyboard, player, drive>>
  BY DEF Tick
<1> QED
  BY <1>5, <1>6, TakenStep, QueueFacts DEF ParserIdle

(* Every step keeps the queues current. *)
LEMMA NextKeepsQueues ==
    ASSUME QueueInv, [Next]_vars
    PROVE  QueueInv'
<1>0. SlaveInv'
  BY NextPreserves DEF QueueInv
<1>1. CASE UNCHANGED vars
  BY <1>0, <1>1, QuietKeepsQueues DEF vars
<1>2. CASE Guest
  <2>1. CASE \E c \in Channels : Read(c)
    BY <1>0, <2>1, ReadKeepsQueues
  <2>2. ASSUME NEW w \in HostWrites, Write(w[1], w[2])
        PROVE  QueueInv'
    <3>1. w[1] \in Channels /\ w[2] \in Bytes
      BY SlaveAssumption
    <3>2. \/ WriteMouse(w[2]) \/ WritePlayer(w[2]) \/ WriteCh2(w[2]) \/ WriteCh3(w[2])
      <4>1. w[1] = 0 \/ w[1] = 1 \/ w[1] = 2 \/ w[1] = 3
        BY <3>1 DEF Channels
      <4> QED
        BY <2>2, <4>1 DEF Write
    <3> QED
      BY <1>0, <3>1, <3>2, WriteMouseKeepsQueues, WritePlayerKeepsQueues,
         WriteCh2KeepsQueues, WriteCh3KeepsQueues
  <2> QED
    BY <1>2, <2>1, <2>2 DEF Guest
<1>3. CASE Frontend
  <2>1. CASE \/ \E x \in Positions, btn \in Buttons : SetPointer(x, btn)
             \/ \E dx \in Motions, btn \in Buttons : MovePointer(dx, btn)
             \/ \E x \in Positions, btn \in Buttons : SetPointerAbsolute(x, btn)
             \/ \E video \in Videos : SetVideoStandard(video)
    <3>1. UNCHANGED <<parser, keyboard, player, drive, out>>
      BY <2>1 DEF SetPointer, MovePointer, SetPointerAbsolute, SetVideoStandard
    <3> QED
      BY <1>0, <3>1, QuietKeepsQueues
  <2> QED
    BY <1>0, <1>3, <2>1, PlayerKeepsQueues, KeyboardKeepsQueues, DriveKeepsQueues DEF Frontend
<1>4. CASE Machine
  <2>1. CASE TakeAttenuation \/ TakeHostResetRequest
    <3>1. UNCHANGED <<parser, keyboard, player, drive, out>>
      BY <2>1 DEF TakeAttenuation, TakeHostResetRequest
    <3> QED
      BY <1>0, <3>1, QuietKeepsQueues
  <2>2. CASE \E cycles \in TickLengths : Tick(cycles)
    BY <1>0, <2>2, TickKeepsQueues
  <2>3. CASE Reset
    BY <1>0, <2>3 DEF Reset, NewOut, IdleParser, QueueInv, KeysCurrent, ControlsCurrent,
                      NoticesCurrent, ParserIdle
  <2> QED
    BY <1>4, <2>1, <2>2, <2>3 DEF Machine
<1> QED
  BY <1>1, <1>2, <1>3, <1>4 DEF Next

(* Whatever waits in a queue of reports or notices ends with the present     *)
(* state of its device, and an idle parser holds no length of an earlier     *)
(* command: through every order of commands, keys, swaps, ticks and resets.  *)
THEOREM NothingStaleHolds == Spec => []NothingStale
<1>1. Init => QueueInv
  BY InitEstablishes
  DEF Init, NewOut, IdleParser, QueueInv, KeysCurrent, ControlsCurrent, NoticesCurrent,
      ParserIdle
<1>2. QueueInv /\ [Next]_vars => QueueInv'
  BY NextKeepsQueues
<1>3. QueueInv => NothingStale
  BY QueueInvIsNothingStale
<1> QED
  BY <1>1, <1>2, <1>3, PTL DEF Spec

-----------------------------------------------------------------------------
(* The buffers of the readbacks that wait for channel 2. *)
Buffers(q) == [i \in DOMAIN q |-> q[i].buf]

(* They are a sequence of packets, longer and shorter with the queue. *)
LEMMA BufferFacts ==
    ASSUME NEW q \in Seq(PendingReadback)
    PROVE  /\ Buffers(q) \in Seq(QueryPackets)
           /\ Len(Buffers(q)) = Len(q)
           /\ q = <<>> => Buffers(q) = <<>>
           /\ q # <<>> => <<Head(q).buf>> \o Buffers(Tail(q)) = Buffers(q)
           /\ \A r \in PendingReadback : Buffers(Append(q, r)) = Append(Buffers(q), r.buf)
<1>1. \A s \in Seq(PendingReadback) :
         /\ Buffers(s) \in Seq(QueryPackets)
         /\ Len(Buffers(s)) = Len(s)
         /\ \A i \in 1..Len(s) : Buffers(s)[i] = s[i].buf
  <2> SUFFICES ASSUME NEW s \in Seq(PendingReadback)
               PROVE  /\ Buffers(s) \in Seq(QueryPackets)
                      /\ Len(Buffers(s)) = Len(s)
                      /\ \A i \in 1..Len(s) : Buffers(s)[i] = s[i].buf
    OBVIOUS
  <2>1. Len(s) \in Nat /\ DOMAIN s = 1..Len(s)
    BY LenProperties
  <2>2. Buffers(s) = [i \in 1..Len(s) |-> s[i].buf]
    BY <2>1 DEF Buffers
  <2>3. \A i \in 1..Len(s) : s[i].buf \in QueryPackets
    <3> SUFFICES ASSUME NEW i \in 1..Len(s)
                 PROVE  s[i].buf \in QueryPackets
      OBVIOUS
    <3>1. s[i] \in PendingReadback
      BY ElementOfSeq
    <3> QED
      BY <3>1 DEF PendingReadback
  <2>4. Buffers(s) \in [1..Len(s) -> QueryPackets]
    BY <2>2, <2>3
  <2>5. Buffers(s) \in Seq(QueryPackets)
    BY <2>1, <2>4, SeqDef
  <2>6. DOMAIN Buffers(s) = 1..Len(s) /\ DOMAIN Buffers(s) = 1..Len(Buffers(s))
    BY <2>2, <2>5, LenProperties
  <2>7. Len(Buffers(s)) = Len(s)
    BY <2>1, <2>5, <2>6, LenProperties
  <2> QED
    BY <2>2, <2>5, <2>7
<1>2. q = <<>> => Buffers(q) = <<>>
  BY <1>1, EmptySeq
<1>3. q # <<>> => <<Head(q).buf>> \o Buffers(Tail(q)) = Buffers(q)
  <2> SUFFICES ASSUME q # <<>>
               PROVE  <<Head(q).buf>> \o Buffers(Tail(q)) = Buffers(q)
    OBVIOUS
  <2>1. /\ Tail(q) \in Seq(PendingReadback) /\ Len(Tail(q)) = Len(q) - 1
        /\ Len(q) \in Nat \ {0} /\ Head(q) = q[1] /\ q[1] \in PendingReadback
        /\ \A i \in 1..(Len(q) - 1) : Tail(q)[i] = q[i + 1]
    OBVIOUS
  <2>2. q[1].buf \in QueryPackets
    BY <2>1 DEF PendingReadback
  <2> DEFINE front == <<Head(q).buf>>
             back == Buffers(Tail(q))
  <2>3. front \in Seq(QueryPackets) /\ Len(front) = 1 /\ front[1] = q[1].buf
    BY <2>1, <2>2
  <2>4. back \in Seq(QueryPackets) /\ Len(back) = Len(q) - 1
        /\ \A i \in 1..(Len(q) - 1) : back[i] = q[i + 1].buf
    <3> DEFINE rest == Tail(q)
    <3>1. rest \in Seq(PendingReadback) /\ Len(rest) = Len(q) - 1
          /\ \A i \in 1..(Len(q) - 1) : rest[i] = q[i + 1]
      BY <2>1
    <3> HIDE DEF rest
    <3>2. Buffers(rest) \in Seq(QueryPackets) /\ Len(Buffers(rest)) = Len(rest)
          /\ \A i \in 1..Len(rest) : Buffers(rest)[i] = rest[i].buf
      BY <1>1, <3>1
    <3> DEFINE buffers == Buffers(rest)
    <3> HIDE DEF buffers
    <3>3. buffers \in Seq(QueryPackets) /\ Len(buffers) = Len(q) - 1
          /\ \A i \in 1..(Len(q) - 1) : buffers[i] = q[i + 1].buf
      BY <3>1, <3>2 DEF buffers
    <3> QED
      BY <3>3 DEF buffers, rest
  <2> HIDE DEF front, back
  <2>0. /\ front \o back \in Seq(QueryPackets)
        /\ Len(front \o back) = Len(front) + Len(back)
        /\ \A i \in 1..Len(front) + Len(back) : (front \o back)[i] =
              IF i <= Len(front) THEN front[i] ELSE back[i - Len(front)]
    <3>1. ASSUME NEW a \in Seq(QueryPackets), NEW b \in Seq(QueryPackets)
          PROVE  /\ a \o b \in Seq(QueryPackets)
                 /\ Len(a \o b) = Len(a) + Len(b)
                 /\ \A i \in 1..Len(a) + Len(b) : (a \o b)[i] =
                       IF i <= Len(a) THEN a[i] ELSE b[i - Len(a)]
      BY ConcatProperties
    <3> QED
      BY <2>3, <2>4, <3>1, Zenon
  <2>5. front \o back \in Seq(QueryPackets) /\ Len(front \o back) = Len(q)
    BY <2>0, <2>1, <2>3, <2>4
  <2>6. \A i \in 1..Len(q) : (front \o back)[i] = q[i].buf
    <3> SUFFICES ASSUME NEW i \in 1..Len(q)
                 PROVE  (front \o back)[i] = q[i].buf
      OBVIOUS
    <3>1. (front \o back)[i] = IF i <= 1 THEN front[i] ELSE back[i - 1]
      BY <2>0, <2>1, <2>3, <2>4
    <3>2. CASE i <= 1
      BY <2>3, <3>1, <3>2
    <3>3. CASE ~(i <= 1)
      <4>1. i - 1 \in 1..(Len(q) - 1) /\ (i - 1) + 1 = i
        BY <2>1, <3>3
      <4>2. back[i - 1] = q[(i - 1) + 1].buf
        BY <2>4, <4>1
      <4> QED
        BY <3>1, <3>3, <4>1, <4>2
    <3> QED
      BY <3>2, <3>3
  <2>7. front \o back = Buffers(q)
    <3>1. /\ Buffers(q) \in Seq(QueryPackets) /\ Len(front \o back) = Len(Buffers(q))
          /\ \A i \in 1..Len(front \o back) : (front \o back)[i] = Buffers(q)[i]
      BY <1>1, <2>5, <2>6
    <3> QED
      BY <2>5, <3>1, SeqEqual
  <2> QED
    BY <2>7 DEF front, back
<1>4. ASSUME NEW r \in PendingReadback
      PROVE  Buffers(Append(q, r)) = Append(Buffers(q), r.buf)
  <2>1. r.buf \in QueryPackets
    BY DEF PendingReadback
  <2>2. /\ Append(q, r) \in Seq(PendingReadback) /\ Len(Append(q, r)) = Len(q) + 1
        /\ Len(q) \in Nat
        /\ \A i \in 1..Len(q) : Append(q, r)[i] = q[i]
        /\ Append(q, r)[Len(q) + 1] = r
    OBVIOUS
  <2>3. Buffers(q) \in Seq(QueryPackets) /\ Len(Buffers(q)) = Len(q)
        /\ \A i \in 1..Len(q) : Buffers(q)[i] = q[i].buf
    BY <1>1
  <2> DEFINE longer == Append(Buffers(q), r.buf)
  <2>4. /\ longer \in Seq(QueryPackets) /\ Len(longer) = Len(q) + 1
        /\ \A i \in 1..Len(q) : longer[i] = q[i].buf
        /\ longer[Len(q) + 1] = r.buf
    BY <2>1, <2>2, <2>3
  <2>5. /\ Buffers(Append(q, r)) \in Seq(QueryPackets)
        /\ Len(Buffers(Append(q, r))) = Len(q) + 1
        /\ \A i \in 1..(Len(q) + 1) : Buffers(Append(q, r))[i] = Append(q, r)[i].buf
    BY <1>1, <2>2
  <2> HIDE DEF longer
  <2>6. \A i \in 1..(Len(q) + 1) : Buffers(Append(q, r))[i] = longer[i]
    <3> SUFFICES ASSUME NEW i \in 1..(Len(q) + 1)
                 PROVE  Buffers(Append(q, r))[i] = longer[i]
      OBVIOUS
    <3>1. Buffers(Append(q, r))[i] = Append(q, r)[i].buf
      BY <2>5
    <3>2. CASE i \in 1..Len(q)
      <4>1. Append(q, r)[i] = q[i] /\ longer[i] = q[i].buf
        BY <2>2, <2>4, <3>2, Zenon
      <4> QED
        BY <3>1, <4>1
    <3>3. CASE i = Len(q) + 1
      <4>1. Append(q, r)[i] = r /\ longer[i] = r.buf
        BY <2>2, <2>4, <3>3, Zenon
      <4> QED
        BY <3>1, <4>1
    <3>4. i \in 1..Len(q) \/ i = Len(q) + 1
      BY <2>2
    <3> QED
      BY <3>2, <3>3, <3>4
  <2>7. Buffers(Append(q, r)) = longer
    BY <2>2, <2>4, <2>5, <2>6, SeqEqual
  <2> QED
    BY <2>7 DEF longer
<1> QED
  BY <1>1, <1>2, <1>3, <1>4

-----------------------------------------------------------------------------
(* The refinement mapping as a function of the reply side. *)
AnswersOf(o) ==
    (IF o.channels[2].cmd \in Queries THEN <<o.channels[2].buf>> ELSE <<>>)
    \o Buffers(o.pending_channel2_readbacks)

ReportsOf(o) ==
    (IF o.channels[2].cmd \in {"A0"} THEN <<o.channels[2].buf>> ELSE <<>>)
    \o o.pending_keyboard

(* The substituted variables are these functions of out, now and next. *)
LEMMA OwedIsOfOut ==
    /\ OwedAnswers = AnswersOf(out) /\ OwedReports = ReportsOf(out)
    /\ OwedAnswers' = AnswersOf(out') /\ OwedReports' = ReportsOf(out')
BY DEF OwedAnswers, OwedReports, OnChannel2, AnswersOf, ReportsOf, Buffers

(* What the mapping looks at, left alone. *)
SameChannel2(n, o) ==
    /\ n.channels[2] = o.channels[2]
    /\ n.pending_channel2_readbacks = o.pending_channel2_readbacks
    /\ n.pending_keyboard = o.pending_keyboard

(* Then both streams owe what they owed. *)
LEMMA SameChannel2SameOwed ==
    ASSUME NEW n, NEW o, SameChannel2(n, o)
    PROVE  AnswersOf(n) = AnswersOf(o) /\ ReportsOf(n) = ReportsOf(o)
BY DEF SameChannel2, AnswersOf, ReportsOf

(* Channel 2 is idle, or holds a whole or half-read reply of its streams. *)
LEMMA Channel2Facts ==
    ASSUME NEW o \in OutType, ChannelCarries(o)
    PROVE  /\ o.channels[2] \in OutChannel \/ o.channels[2] = EmptyChannel
           /\ o.channels[2].count = 0 => o.channels[2] = EmptyChannel
           /\ o.channels[2].count # 0 => o.channels[2] \in OutChannel
           /\ o.channels[2] = EmptyChannel =>
                 o.channels[2].cmd \notin Queries /\ o.channels[2].cmd # "A0"
           /\ o.channels[2].count # 0 =>
                 o.channels[2].cmd \in Queries \/ o.channels[2].cmd = "A0"
<1>1. o.channels[2] \in OutChannel \cup {EmptyChannel}
  BY DEF OutType, Channels
<1>2. EmptyChannel.count = 0 /\ EmptyChannel.cmd = NoCmd
  BY DEF EmptyChannel
<1>3. NoCmd \notin Queries /\ NoCmd # "A0" /\ NoCmd \notin Replies
  BY DEF NoCmd, Queries, Replies
<1>4. o.channels[2] \in OutChannel => o.channels[2].count # 0 /\ o.channels[2].cmd \in Replies
  BY DEF OutChannel
<1>5. o.channels[2].cmd \in {NoCmd, "A0"} \cup Queries
  BY DEF ChannelCarries
<1> QED
  BY <1>1, <1>2, <1>3, <1>4, <1>5

(* Owed streams are streams of packets. *)
LEMMA OwedType ==
    ASSUME NEW o \in OutType, o.channels[2].cmd \in Queries => o.channels[2].buf \in QueryPackets,
           o.channels[2].cmd = "A0" => o.channels[2].buf \in KeyPackets
    PROVE  AnswersOf(o) \in Seq(QueryPackets) /\ ReportsOf(o) \in Seq(KeyPackets)
<1>1. Buffers(o.pending_channel2_readbacks) \in Seq(QueryPackets)
      /\ o.pending_keyboard \in Seq(KeyPackets)
  BY BufferFacts DEF OutType
<1>2. \A S : \A x \in S : <<x>> \in Seq(S)
  OBVIOUS
<1>3. (IF o.channels[2].cmd \in Queries THEN <<o.channels[2].buf>> ELSE <<>>)
         \in Seq(QueryPackets)
  BY <1>2, EmptySeq
<1>4. (IF o.channels[2].cmd \in {"A0"} THEN <<o.channels[2].buf>> ELSE <<>>)
         \in Seq(KeyPackets)
  BY <1>2, EmptySeq
<1> QED
  BY <1>1, <1>3, <1>4, ConcatProperties DEF AnswersOf, ReportsOf

(* service_keyboard and service_channel2 bring the head of a stream to an   *)
(* idle channel, which is where it was owed already.                        *)
LEMMA ServiceKeyboardKeepsOwed ==
    ASSUME NEW o \in OutType, ChannelCarries(o), NEW m
    PROVE  /\ AnswersOf(ServiceKeyboard(o, m)) = AnswersOf(o)
           /\ ReportsOf(ServiceKeyboard(o, m)) = ReportsOf(o)
<1> DEFINE n == ServiceKeyboard(o, m)
           taken == /\ m.keyboard_events_enabled
                    /\ o.channels[2].count = 0
                    /\ o.pending_channel2_readbacks = <<>>
                    /\ o.pending_keyboard # <<>>
<1>1. CASE taken
  <2>1. /\ n.channels[2] = FreshChannel("A0", Head(o.pending_keyboard))
        /\ n.pending_keyboard = Tail(o.pending_keyboard)
        /\ n.pending_channel2_readbacks = o.pending_channel2_readbacks
    BY <1>1 DEF ServiceKeyboard, AssertChannelIrq, OutType, Channels
  <2>2. n.channels[2].cmd = "A0" /\ n.channels[2].buf = Head(o.pending_keyboard)
    BY <2>1 DEF FreshChannel
  <2>3. "A0" \notin Queries
    BY DEF Queries
  <2>4. o.channels[2].cmd \notin Queries /\ o.channels[2].cmd # "A0"
    BY <1>1, Channel2Facts
  <2>5. o.pending_keyboard \in Seq(KeyPackets) /\ o.pending_keyboard # <<>>
    BY <1>1 DEF OutType
  <2>6. <<Head(o.pending_keyboard)>> \o Tail(o.pending_keyboard) = o.pending_keyboard
        /\ <<>> \o o.pending_keyboard = o.pending_keyboard
    <3> DEFINE q == o.pending_keyboard
    <3> HIDE DEF q
    <3>1. ASSUME NEW S, q \in Seq(S), q # <<>>
          PROVE  <<Head(q)>> \o Tail(q) = q /\ <<>> \o q = q
      BY <3>1
    <3> QED
      BY <2>5, <3>1 DEF q
  <2>7. AnswersOf(n) = AnswersOf(o)
    <3> HIDE DEF n
    <3> QED
      BY <2>1, <2>2, <2>3, <2>4 DEF AnswersOf
  <2>8. ReportsOf(n) = ReportsOf(o)
    <3> HIDE DEF n
    <3> QED
      BY <2>1, <2>2, <2>4, <2>6 DEF ReportsOf
  <2> QED
    BY <2>7, <2>8
<1>2. CASE ~taken
  BY <1>2 DEF ServiceKeyboard
<1> QED
  BY <1>1, <1>2

(* service_channel2 takes the oldest readback, or serves the keyboard. *)
LEMMA ServiceChannel2KeepsOwed ==
    ASSUME NEW o \in OutType, ChannelCarries(o), NEW m
    PROVE  /\ AnswersOf(ServiceChannel2(o, m)) = AnswersOf(o)
           /\ ReportsOf(ServiceChannel2(o, m)) = ReportsOf(o)
<1> DEFINE n == ServiceChannel2(o, m)
           q == o.pending_channel2_readbacks
<1>0. q \in Seq(PendingReadback)
  BY DEF OutType
<1>1. CASE o.channels[2].count # 0 \/ o.irq_countdowns[2] # 0
  BY <1>1 DEF ServiceChannel2
<1>2. CASE ~(o.channels[2].count # 0 \/ o.irq_countdowns[2] # 0) /\ q = <<>>
  BY <1>2, ServiceKeyboardKeepsOwed DEF ServiceChannel2
<1>3. CASE ~(o.channels[2].count # 0 \/ o.irq_countdowns[2] # 0) /\ q # <<>>
  <2>1. /\ n.channels[2] = FreshChannel(Head(q).cmd, Head(q).buf)
        /\ n.pending_channel2_readbacks = Tail(q)
        /\ n.pending_keyboard = o.pending_keyboard
    BY <1>3 DEF ServiceChannel2, PrepareReadback, OutType, Channels
  <2>2. Head(q) \in PendingReadback
    BY <1>0, <1>3
  <2>3. n.channels[2].cmd \in Queries /\ n.channels[2].buf = Head(q).buf
        /\ n.channels[2].cmd # "A0"
    <3>1. Head(q).cmd \in Queries
      BY <2>2 DEF PendingReadback
    <3>2. "A0" \notin Queries
      BY DEF Queries
    <3> HIDE DEF q
    <3> QED
      BY <2>1, <3>1, <3>2 DEF FreshChannel
  <2>4. o.channels[2].cmd \notin Queries /\ o.channels[2].cmd # "A0"
    BY <1>3, Channel2Facts
  <2>5. <<Head(q).buf>> \o Buffers(Tail(q)) = Buffers(q) /\ <<>> \o Buffers(q) = Buffers(q)
    <3> HIDE DEF q
    <3> QED
      BY <1>0, <1>3, BufferFacts, ConcatEmptySeq
  <2>6. AnswersOf(n) = AnswersOf(o)
    <3> HIDE DEF n
    <3> QED
      BY <2>1, <2>3, <2>4, <2>5 DEF AnswersOf
  <2>7. ReportsOf(n) = ReportsOf(o)
    <3> HIDE DEF n
    <3> QED
      BY <2>1, <2>3, <2>4 DEF ReportsOf
  <2> QED
    BY <2>6, <2>7
<1> QED
  BY <1>1, <1>2, <1>3

(* The first packet of a stream read away, and one asked for behind it. *)
LEMMA HeadOff ==
    ASSUME NEW S, NEW x \in S, NEW s \in Seq(S)
    PROVE  <<x>> \o s # <<>> /\ Tail(<<x>> \o s) = s
<1>1. <<x>> \in Seq(S) /\ Len(<<x>>) = 1 /\ <<x>>[1] = x
  OBVIOUS
<1> DEFINE one == <<x>>
<1>2. /\ one \o s \in Seq(S) /\ Len(one \o s) = Len(one) + Len(s)
      /\ \A i \in 1..Len(one) + Len(s) :
            (one \o s)[i] = IF i <= Len(one) THEN one[i] ELSE s[i - Len(one)]
  BY <1>1, ConcatProperties
<1> HIDE DEF one
<1>3. Len(s) \in Nat /\ Len(one) = 1
  BY <1>1 DEF one
<1>4. one \o s # <<>>
  BY <1>2, <1>3, EmptySeq
<1>5. /\ Tail(one \o s) \in Seq(S) /\ Len(Tail(one \o s)) = Len(s)
      /\ \A i \in 1..Len(s) : Tail(one \o s)[i] = (one \o s)[i + 1]
  BY <1>2, <1>3, <1>4, HeadTailProperties
<1>6. \A i \in 1..Len(s) : (one \o s)[i + 1] = s[i]
  BY <1>2, <1>3
<1>7. Tail(one \o s) = s
  BY <1>5, <1>6, SeqEqual
<1> QED
  BY <1>4, <1>7 DEF one

(* One more packet joins the end of a stream, whatever is in front. *)
LEMMA AppendBehind ==
    ASSUME NEW S, NEW s \in Seq(S), NEW t \in Seq(S), NEW x \in S
    PROVE  s \o Append(t, x) = Append(s \o t, x)
<1>1. <<x>> \in Seq(S) /\ s \o t \in Seq(S)
  BY ConcatProperties
<1>2. Append(t, x) = t \o <<x>> /\ Append(s \o t, x) = (s \o t) \o <<x>>
  BY <1>1, AppendIsConcat
<1> QED
  BY <1>1, <1>2, ConcatAssociative

(* What a step of the SLAVE may do to the two streams: the steps of          *)
(* SlaveChannelC, or nothing.                                                *)
StreamStep(n, o) ==
    \/ AnswersOf(n) = AnswersOf(o) /\ ReportsOf(n) = ReportsOf(o)
    \/ /\ \E a \in QueryPackets : AnswersOf(n) = Append(AnswersOf(o), a)
       /\ ReportsOf(n) = ReportsOf(o)
    \/ /\ AnswersOf(o) # <<>> /\ AnswersOf(n) = Tail(AnswersOf(o))
       /\ ReportsOf(n) = ReportsOf(o)
    \/ /\ \E r \in KeyPackets : ReportsOf(n) = Append(ReportsOf(o), r)
       /\ AnswersOf(n) = AnswersOf(o)
    \/ /\ ReportsOf(o) # <<>> /\ ReportsOf(n) = Tail(ReportsOf(o))
       /\ AnswersOf(n) = AnswersOf(o)
    \/ /\ \/ ReportsOf(n) = <<>>
          \/ 1 \in DOMAIN ReportsOf(o) /\ ReportsOf(n) = <<ReportsOf(o)[1]>>
       /\ AnswersOf(n) = AnswersOf(o)
    \/ AnswersOf(n) = <<>> /\ ReportsOf(n) = <<>>

(* Under the refinement mapping each is an action of SlaveChannelC. *)
LEMMA StreamStepImplements ==
    ASSUME StreamStep(out', out)
    PROVE  [ChannelC!Next]_<<OwedAnswers, OwedReports>>
<1>1. /\ OwedAnswers = AnswersOf(out) /\ OwedReports = ReportsOf(out)
      /\ OwedAnswers' = AnswersOf(out') /\ OwedReports' = ReportsOf(out')
  BY OwedIsOfOut
<1>2. CASE OwedAnswers' = OwedAnswers /\ OwedReports' = OwedReports
  BY <1>2
<1>3. CASE \E a \in QueryPackets :
             OwedAnswers' = Append(OwedAnswers, a) /\ OwedReports' = OwedReports
  BY <1>3 DEF ChannelC!Next, ChannelC!Ask
<1>4. CASE /\ OwedAnswers # <<>> /\ OwedAnswers' = Tail(OwedAnswers)
           /\ OwedReports' = OwedReports
  BY <1>4 DEF ChannelC!Next, ChannelC!Answer
<1>5. CASE \E r \in KeyPackets :
             OwedReports' = Append(OwedReports, r) /\ OwedAnswers' = OwedAnswers
  BY <1>5 DEF ChannelC!Next, ChannelC!Report
<1>6. CASE /\ OwedReports # <<>> /\ OwedReports' = Tail(OwedReports)
           /\ OwedAnswers' = OwedAnswers
  BY <1>6 DEF ChannelC!Next, ChannelC!Deliver
<1>7. CASE /\ \/ OwedReports' = <<>>
              \/ 1 \in DOMAIN OwedReports /\ OwedReports' = <<OwedReports[1]>>
           /\ OwedAnswers' = OwedAnswers
  BY <1>7 DEF ChannelC!Next, ChannelC!Forget
<1>8. CASE OwedAnswers' = <<>> /\ OwedReports' = <<>>
  BY <1>8 DEF ChannelC!Next, ChannelC!Restart
<1> HIDE DEF OwedAnswers, OwedReports
<1> QED
  BY <1>1, <1>2, <1>3, <1>4, <1>5, <1>6, <1>7, <1>8 DEF StreamStep

-----------------------------------------------------------------------------
(* The methods that do not concern channel 2. *)
LEMMA OtherChannelsKeepChannel2 ==
    ASSUME NEW o \in OutType, NEW c \in Channels \ {2}, NEW d \in Channels, NEW m,
           NEW cmd, NEW buf, NEW delay, NEW cycles, NEW p
    PROVE  /\ SameChannel2(AssertChannelIrq(o, d), o)
           /\ SameChannel2(ClearChannelIrq(o, d), o)
           /\ SameChannel2(PrepareReadback(o, c, cmd, buf, delay), o)
           /\ SameChannel2(WithdrawReport(o, c, cmd), o)
           /\ SameChannel2(ServicePlayerControl(o, m), o)
           /\ SameChannel2(ServiceDriveStatusNotification(o, m), o)
           /\ SameChannel2(ExpireCountdowns(o, cycles), o)
           /\ SameChannel2(ReportPointer(o, p), o)
<1> USE DEF Channels
<1>1. SameChannel2(AssertChannelIrq(o, d), o)
  BY DEF OutType, SameChannel2, AssertChannelIrq
<1>2. SameChannel2(ClearChannelIrq(o, d), o)
  BY DEF OutType, SameChannel2, ClearChannelIrq
<1>3. SameChannel2(PrepareReadback(o, c, cmd, buf, delay), o)
  BY DEF OutType, SameChannel2, PrepareReadback
<1>4. SameChannel2(WithdrawReport(o, c, cmd), o)
  BY DEF OutType, SameChannel2, WithdrawReport, ClearChannelIrq
<1>5. SameChannel2(ServicePlayerControl(o, m), o)
  BY DEF OutType, SameChannel2, ServicePlayerControl, AssertChannelIrq
<1>6. SameChannel2(ServiceDriveStatusNotification(o, m), o)
  BY DEF OutType, SameChannel2, ServiceDriveStatusNotification, PrepareReadback
<1>7. SameChannel2(ExpireCountdowns(o, cycles), o)
  BY DEF OutType, SameChannel2, ExpireCountdowns
<1>8. SameChannel2(ReportPointer(o, p), o)
  BY DEF OutType, SameChannel2, ReportPointer, PrepareReadback, AssertChannelIrq
<1> QED
  BY <1>1, <1>2, <1>3, <1>4, <1>5, <1>6, <1>7, <1>8

(* What SlaveInv says of the reply side. *)
LEMMA OutFacts ==
    ASSUME SlaveInv
    PROVE  /\ out \in OutType /\ ChannelCarries(out) /\ OutInv(out, mode.keyboard_events_enabled /\ keyboard.attached, mode.player_control_enabled)
           /\ mode \in ModeType /\ keyboard \in KeyboardType /\ TypeOK
BY DEF SlaveInv, OutInv, TypeOK

(* What a read takes off its channel, before the channel is served again.   *)
Rest(ch) ==
    IF ch.count = 1 THEN EmptyChannel ELSE [ch EXCEPT !.index = @ + 1, !.count = @ - 1]

(* A byte of a reply is read: the channel is empty, or one byte further on. *)
LEMMA RestFacts ==
    ASSUME NEW ch \in OutChannel
    PROVE  /\ Rest(ch) \in OutChannel \cup {EmptyChannel}
           /\ ch.count = 1 => Rest(ch) = EmptyChannel
           /\ ch.count # 1 => /\ Rest(ch) \in OutChannel
                              /\ Rest(ch).cmd = ch.cmd /\ Rest(ch).buf = ch.buf
                              /\ Rest(ch).index = ch.index + 1
                              /\ Rest(ch).count = ch.count - 1
<1>1. CASE ch.count = 1
  BY <1>1 DEF Rest
<1>2. CASE ch.count # 1
  <2>1. ch.count - 1 \in Nat \ {0} /\ ch.index + 1 \in Nat
    BY <1>2 DEF OutChannel
  <2> QED
    BY <1>2, <2>1 DEF Rest, OutChannel
<1> QED
  BY <1>1, <1>2

(* SlaveHle::read: what is on the channel shrinks, then channels 1 and 2 are *)
(* served.                                                                   *)
LEMMA ReadShape ==
    ASSUME SlaveInv, NEW c \in Channels, Read(c)
    PROVE  /\ out.channels[c] \in OutChannel
           /\ \E o \in OutType :
                 /\ o.channels = [out.channels EXCEPT ![c] = Rest(out.channels[c])]
                 /\ o.pending_channel2_readbacks = out.pending_channel2_readbacks
                 /\ o.pending_keyboard = out.pending_keyboard
                 /\ out' = CASE c = 1 -> ServicePlayerControl(o, mode)
                             [] c = 2 -> ServiceChannel2(o, mode)
                             [] OTHER -> o
<1> DEFINE ch == out.channels[c]
           acks == ch.index = 0 /\ (ch.cmd \in AckingReplies \/ (c = 1 /\ ch.cmd = "87"))
           polled == out.irq_countdowns[c] # 0
           rest == IF ch.count = 1 THEN EmptyChannel
                   ELSE [ch EXCEPT !.index = @ + 1, !.count = @ - 1]
           taken == [out EXCEPT !.irq_countdowns[c] = 0, !.channels[c] = rest]
           acked == IF acks \/ polled THEN ClearChannelIrq(taken, c) ELSE taken
<1>0. out \in OutType
  BY OutFacts
<1>1. ch \in OutChannel
  BY <1>0 DEF Read, OutType, EmptyChannel, NoCmd
<1>2. rest = Rest(ch) /\ rest \in OutChannel \cup {EmptyChannel}
  <2>1. rest = Rest(ch)
    BY DEF Rest
  <2> HIDE DEF rest, ch
  <2> QED
    BY <1>1, <2>1, RestFacts
<1>3. /\ taken \in OutType
      /\ taken.channels = [out.channels EXCEPT ![c] = rest]
      /\ taken.pending_channel2_readbacks = out.pending_channel2_readbacks
      /\ taken.pending_keyboard = out.pending_keyboard
  <2> HIDE DEF rest
  <2> QED
    BY <1>0, <1>2 DEF OutType
<1>4. /\ acked \in OutType /\ acked.channels = taken.channels
      /\ acked.pending_channel2_readbacks = taken.pending_channel2_readbacks
      /\ acked.pending_keyboard = taken.pending_keyboard
  <2> HIDE DEF taken, acks, polled
  <2> QED
    BY <1>3 DEF OutType, ClearChannelIrq
<1>5. out' = CASE c = 1 -> ServicePlayerControl(acked, mode)
               [] c = 2 -> ServiceChannel2(acked, mode)
               [] OTHER -> acked
  BY DEF Read
<1> HIDE DEF acked, taken, rest
<1> QED
  BY <1>1, <1>2, <1>3, <1>4, <1>5

(* Reading the last byte of a packet takes it off its stream. *)
LEMMA ReadStreams ==
    ASSUME SlaveInv, NEW c \in Channels, Read(c)
    PROVE  StreamStep(out', out)
<1>1. out \in OutType /\ ChannelCarries(out)
  BY OutFacts
<1>2. out.channels[c] \in OutChannel
  BY ReadShape
<1>3. PICK o \in OutType :
         /\ o.channels = [out.channels EXCEPT ![c] = Rest(out.channels[c])]
         /\ o.pending_channel2_readbacks = out.pending_channel2_readbacks
         /\ o.pending_keyboard = out.pending_keyboard
         /\ out' = CASE c = 1 -> ServicePlayerControl(o, mode)
                     [] c = 2 -> ServiceChannel2(o, mode)
                     [] OTHER -> o
  BY ReadShape
<1>4. CASE c # 2
  <2>1. SameChannel2(o, out)
    BY <1>1, <1>3, <1>4 DEF SameChannel2, OutType, Channels
  <2>2. out' = o \/ out' = ServicePlayerControl(o, mode)
    BY <1>3, <1>4
  <2>3. SameChannel2(out', o)
    BY <2>2, OtherChannelsKeepChannel2 DEF SameChannel2, Channels
  <2> QED
    BY <2>1, <2>3, SameChannel2SameOwed DEF StreamStep
<1>5. CASE c = 2
  <2> DEFINE ch == out.channels[2]
  <2>1. o.channels[2] = Rest(ch) /\ \A d \in {0, 1, 3} : o.channels[d] = out.channels[d]
    BY <1>1, <1>3, <1>5 DEF OutType, Channels
  <2>2. ch.cmd \in Queries \/ ch.cmd = "A0"
    BY <1>1, <1>2, <1>5, Channel2Facts DEF OutChannel
  <2>3. ChannelCarries(o)
    BY <1>1, <1>2, <1>5, <2>1, RestFacts DEF ChannelCarries, EmptyChannel
  <2>4. AnswersOf(out') = AnswersOf(o) /\ ReportsOf(out') = ReportsOf(o)
    BY <1>3, <1>5, <2>3, ServiceChannel2KeepsOwed
  <2>5. CASE ch.count # 1
    <3>1. Rest(ch).cmd = ch.cmd /\ Rest(ch).buf = ch.buf
      BY <1>2, <1>5, <2>5, RestFacts
    <3>2. AnswersOf(o) = AnswersOf(out) /\ ReportsOf(o) = ReportsOf(out)
      BY <1>3, <2>1, <3>1 DEF AnswersOf, ReportsOf
    <3> QED
      BY <2>4, <3>2 DEF StreamStep
  <2>6. CASE ch.count = 1
    <3> DEFINE back == Buffers(out.pending_channel2_readbacks)
               keys == out.pending_keyboard
    <3>1. Rest(ch) = EmptyChannel
      BY <1>2, <1>5, <2>6, RestFacts
    <3>2. /\ NoCmd \notin Queries /\ NoCmd # "A0" /\ "A0" \notin Queries
      BY DEF NoCmd, Queries
    <3>3. o.channels[2].cmd = NoCmd
      BY <2>1, <3>1 DEF EmptyChannel
    <3>4. back \in Seq(Packets) /\ keys \in Seq(Packets)
      <4>1. back \in Seq(QueryPackets) /\ keys \in Seq(KeyPackets)
        BY <1>1, BufferFacts DEF OutType
      <4>2. QueryPackets \subseteq Packets /\ KeyPackets \subseteq Packets
        BY DEF Packets
      <4> HIDE DEF back, keys
      <4> QED
        BY <4>1, <4>2, SeqMonotonic
    <3>5. ch.buf \in Packets
      BY <1>2, <1>5 DEF OutChannel
    <3>6. <<>> \o back = back /\ <<>> \o keys = keys
      <4> HIDE DEF back, keys
      <4> QED
        BY <3>4, ConcatEmptySeq
    <3>7. /\ <<ch.buf>> \o back # <<>> /\ Tail(<<ch.buf>> \o back) = back
          /\ <<ch.buf>> \o keys # <<>> /\ Tail(<<ch.buf>> \o keys) = keys
      <4> HIDE DEF back, keys, ch
      <4> QED
        BY <3>4, <3>5, HeadOff
    <3>8. AnswersOf(o) = back /\ ReportsOf(o) = keys
      BY <1>3, <3>2, <3>3, <3>6 DEF AnswersOf, ReportsOf
    <3>9. CASE ch.cmd \in Queries
      <4>1. AnswersOf(out) = <<ch.buf>> \o back /\ ReportsOf(out) = keys
        BY <3>2, <3>6, <3>9 DEF AnswersOf, ReportsOf
      <4> QED
        BY <2>4, <3>7, <3>8, <4>1 DEF StreamStep
    <3>10. CASE ch.cmd = "A0"
      <4>1. AnswersOf(out) = back /\ ReportsOf(out) = <<ch.buf>> \o keys
        BY <3>2, <3>6, <3>10 DEF AnswersOf, ReportsOf
      <4> QED
        BY <2>4, <3>7, <3>8, <4>1 DEF StreamStep
    <3> QED
      BY <2>2, <3>9, <3>10
  <2> QED
    BY <2>5, <2>6
<1> QED
  BY <1>4, <1>5

(* A step that does not concern channel 2 is a stutter of SlaveChannelC.    *)
LEMMA OtherStreams ==
    ASSUME NEW n, NEW o, SameChannel2(n, o)
    PROVE  StreamStep(n, o)
BY SameChannel2SameOwed DEF StreamStep

(* Closing the report path, or emptying its queue, gives up reports only.   *)
LEMMA ForgetStreams ==
    ASSUME NEW o \in OutType, ChannelCarries(o),
           NEW n, n = [o EXCEPT !.pending_keyboard = <<>>]
    PROVE  StreamStep(n, o) /\ StreamStep(WithdrawReport(n, 2, "A0"), o)
<1> DEFINE front == IF o.channels[2].cmd \in {"A0"} THEN <<o.channels[2].buf>> ELSE <<>>
           keys == o.pending_keyboard
           w == WithdrawReport(n, 2, "A0")
<1>1. <<>> \in Seq(KeyPackets)
  OBVIOUS
<1>2. /\ n \in OutType /\ n.pending_keyboard = <<>>
      /\ n.channels = o.channels
      /\ n.pending_channel2_readbacks = o.pending_channel2_readbacks
  BY <1>1 DEF OutType
<1>3. AnswersOf(n) = AnswersOf(o)
  BY <1>2 DEF AnswersOf
<1>4. front \in Seq(Packets) /\ keys \in Seq(Packets)
  <2>1. KeyPackets \subseteq Packets
    BY DEF Packets
  <2>2. keys \in Seq(Packets)
    <3>1. keys \in Seq(KeyPackets)
      BY DEF OutType
    <3> HIDE DEF keys
    <3> QED
      BY <2>1, <3>1, SeqMonotonic
  <2>3. o.channels[2].cmd = "A0" => o.channels[2].buf \in Packets
    <3>1. o.channels[2].cmd = "A0" => o.channels[2] \in OutChannel
      BY Channel2Facts DEF EmptyChannel, NoCmd
    <3> QED
      BY <3>1 DEF OutChannel
  <2>4. \A S : \A x \in S : <<x>> \in Seq(S)
    OBVIOUS
  <2> QED
    BY <2>2, <2>3, <2>4, EmptySeq
<1>5. ReportsOf(n) = front /\ ReportsOf(o) = front \o keys
  <2>1. ReportsOf(n) = front \o <<>> /\ ReportsOf(o) = front \o keys
    BY <1>2 DEF ReportsOf
  <2> HIDE DEF front, keys
  <2> QED
    BY <1>4, <2>1, ConcatEmptySeq
<1>6. \/ ReportsOf(n) = <<>>
      \/ 1 \in DOMAIN ReportsOf(o) /\ ReportsOf(n) = <<ReportsOf(o)[1]>>
  <2>1. CASE front = <<>>
    BY <1>5, <2>1
  <2>2. CASE front # <<>>
    <3> DEFINE x == o.channels[2].buf
    <3>1. front = <<x>>
      BY <2>2
    <3>2. /\ Len(front) = 1 /\ front[1] = x
      BY <3>1
    <3> HIDE DEF front, keys, x
    <3>3. /\ front \o keys \in Seq(Packets) /\ Len(front \o keys) = Len(front) + Len(keys)
          /\ \A i \in 1..Len(front) + Len(keys) : (front \o keys)[i] =
                IF i <= Len(front) THEN front[i] ELSE keys[i - Len(front)]
      BY <1>4, ConcatProperties
    <3>4. Len(keys) \in Nat
      BY <1>4, LenProperties
    <3>5. 1 \in 1..Len(front \o keys) /\ (front \o keys)[1] = x
      BY <3>2, <3>3, <3>4
    <3>6. DOMAIN (front \o keys) = 1..Len(front \o keys)
      BY <3>3, LenProperties
    <3> QED
      BY <1>5, <3>1, <3>5, <3>6
  <2> QED
    BY <2>1, <2>2
<1>7. /\ AnswersOf(w) = AnswersOf(o)
      /\ ReportsOf(w) = <<>>
  <2>1. CASE n.channels[2].cmd = "A0"
    <3>1. /\ w.channels[2] = EmptyChannel
          /\ w.pending_channel2_readbacks = n.pending_channel2_readbacks
          /\ w.pending_keyboard = <<>>
      BY <1>2, <2>1 DEF WithdrawReport, ClearChannelIrq, OutType, Channels
    <3>2. NoCmd \notin Queries /\ NoCmd # "A0" /\ "A0" \notin Queries
      BY DEF NoCmd, Queries
    <3>3. w.channels[2].cmd = NoCmd
      BY <3>1 DEF EmptyChannel
    <3>4. <<>> \o <<>> = <<>>
      BY EmptySeq, ConcatEmptySeq
    <3> HIDE DEF w
    <3> QED
      BY <1>2, <2>1, <3>1, <3>2, <3>3, <3>4 DEF AnswersOf, ReportsOf
  <2>2. CASE n.channels[2].cmd # "A0"
    <3>1. w = n /\ front = <<>>
      BY <1>2, <2>2 DEF WithdrawReport
    <3> QED
      BY <1>3, <1>5, <3>1
  <2> QED
    BY <2>1, <2>2
<1> HIDE DEF w
<1>8. StreamStep(w, o)
  BY <1>7 DEF StreamStep
<1> QED
  BY <1>3, <1>6, <1>8 DEF StreamStep, w

(* A key report joins the end of the stream of reports, and may come to an  *)
(* idle channel in the same call.                                           *)
LEMMA ReportStreams ==
    ASSUME NEW o \in OutType, ChannelCarries(o), NEW r \in KeyPackets, NEW m,
           NEW n \in OutType, n.pending_keyboard = Append(o.pending_keyboard, r),
           n.channels = o.channels,
           n.pending_channel2_readbacks = o.pending_channel2_readbacks
    PROVE  StreamStep(ServiceKeyboard(n, m), o)
<1> DEFINE front == IF o.channels[2].cmd \in {"A0"} THEN <<o.channels[2].buf>> ELSE <<>>
           keys == o.pending_keyboard
<1>1. keys \in Seq(KeyPackets) /\ Append(keys, r) \in Seq(KeyPackets)
  BY AppendProperties DEF OutType
<1>2. n.pending_keyboard = Append(keys, r)
  OBVIOUS
<1>3. ChannelCarries(n)
  BY DEF ChannelCarries
<1>4. AnswersOf(n) = AnswersOf(o)
  BY DEF AnswersOf
<1>5. ReportsOf(n) = Append(ReportsOf(o), r)
  <2>0. ReportsOf(n) = front \o n.pending_keyboard /\ ReportsOf(o) = front \o keys
    BY DEF ReportsOf
  <2>1. ReportsOf(n) = front \o Append(keys, r) /\ ReportsOf(o) = front \o keys
    BY <1>2, <2>0, Zenon
  <2>2. front \in Seq(Packets) /\ keys \in Seq(Packets) /\ r \in Packets
    <3>1. KeyPackets \subseteq Packets
      BY DEF Packets
    <3>2. o.channels[2].cmd = "A0" => o.channels[2].buf \in Packets
      <4>1. o.channels[2].cmd = "A0" => o.channels[2] \in OutChannel
        BY Channel2Facts DEF EmptyChannel, NoCmd
      <4> QED
        BY <4>1 DEF OutChannel
    <3>3. \A S : \A x \in S : <<x>> \in Seq(S)
      OBVIOUS
    <3>4. front \in Seq(Packets)
      BY <3>2, <3>3, EmptySeq
    <3> HIDE DEF keys, front
    <3> QED
      BY <1>1, <3>1, <3>4, SeqMonotonic
  <2> HIDE DEF keys, front
  <2>3. front \o Append(keys, r) = Append(front \o keys, r)
    <3>1. ASSUME NEW a \in Seq(Packets), NEW b \in Seq(Packets), NEW x \in Packets
          PROVE  a \o Append(b, x) = Append(a \o b, x)
      BY AppendBehind
    <3> QED
      BY <2>2, <3>1, Zenon
  <2> QED
    BY <2>1, <2>3, Zenon
<1>6. /\ AnswersOf(ServiceKeyboard(n, m)) = AnswersOf(n)
      /\ ReportsOf(ServiceKeyboard(n, m)) = ReportsOf(n)
  BY <1>2, <1>3, ServiceKeyboardKeepsOwed
<1> QED
  BY <1>4, <1>5, <1>6 DEF StreamStep

(* A query's answer joins the end of the stream of answers. *)
LEMMA AskStreams ==
    ASSUME NEW o \in OutType, ChannelCarries(o), NEW m,
           NEW cmd \in Queries, NEW buf \in QueryPackets, NEW delay \in Nat
    PROVE  StreamStep(QueueChannel2Readback(o, m, cmd, buf, delay), o)
<1> DEFINE r == [cmd |-> cmd, buf |-> buf, delay |-> delay]
           q == o.pending_channel2_readbacks
           n == [o EXCEPT !.pending_channel2_readbacks = Append(@, r)]
           front == IF o.channels[2].cmd \in Queries THEN <<o.channels[2].buf>> ELSE <<>>
<1>0. r \in PendingReadback /\ r.buf = buf
  BY DEF PendingReadback
<1>1. q \in Seq(PendingReadback) /\ Append(q, r) \in Seq(PendingReadback)
  <2> HIDE DEF r
  <2>1. q \in Seq(PendingReadback)
    BY DEF OutType
  <2> QED
    BY <1>0, <2>1, AppendProperties
<1>2. /\ n \in OutType /\ n.pending_channel2_readbacks = Append(q, r)
      /\ n.channels = o.channels
      /\ n.pending_keyboard = o.pending_keyboard
  <2> HIDE DEF r
  <2> QED
    BY <1>1 DEF OutType
<1> HIDE DEF r
<1>3. ChannelCarries(n)
  <2> HIDE DEF n
  <2> QED
    BY <1>2 DEF ChannelCarries
<1>4. ReportsOf(n) = ReportsOf(o)
  <2> HIDE DEF n
  <2> QED
    BY <1>2 DEF ReportsOf
<1>5. AnswersOf(n) = Append(AnswersOf(o), buf)
  <2>1. AnswersOf(n) = front \o Buffers(Append(q, r)) /\ AnswersOf(o) = front \o Buffers(q)
    <3> HIDE DEF n
    <3> QED
      BY <1>2 DEF AnswersOf
  <2>2. Buffers(Append(q, r)) = Append(Buffers(q), buf) /\ Buffers(q) \in Seq(QueryPackets)
    <3> HIDE DEF q
    <3> QED
      BY <1>0, <1>1, BufferFacts
  <2>3. QueryPackets \subseteq Packets
    BY DEF Packets
  <2>4. Buffers(q) \in Seq(Packets) /\ buf \in Packets
    <3> HIDE DEF q
    <3> QED
      BY <2>2, <2>3, SeqMonotonic
  <2>5. front \in Seq(Packets)
    <3>1. o.channels[2].cmd \in Queries => o.channels[2] \in OutChannel
      BY Channel2Facts
    <3>2. o.channels[2].cmd \in Queries => o.channels[2].buf \in Packets
      BY <3>1 DEF OutChannel
    <3>3. \A S : \A x \in S : <<x>> \in Seq(S)
      OBVIOUS
    <3> QED
      BY <3>2, <3>3, EmptySeq
  <2> HIDE DEF front, q
  <2> DEFINE back == Buffers(q)
  <2>6. Buffers(Append(q, r)) = Append(back, buf) /\ back \in Seq(Packets)
    BY <2>2, <2>4
  <2> HIDE DEF back
  <2>7. front \o Append(back, buf) = Append(front \o back, buf)
    <3>1. ASSUME NEW a \in Seq(Packets), NEW b \in Seq(Packets), NEW x \in Packets
          PROVE  a \o Append(b, x) = Append(a \o b, x)
      BY AppendBehind
    <3> QED
      BY <2>4, <2>5, <2>6, <3>1, Zenon
  <2> QED
    BY <2>1, <2>6, <2>7, Zenon DEF back
<1>6. /\ AnswersOf(ServiceChannel2(n, m)) = AnswersOf(n)
      /\ ReportsOf(ServiceChannel2(n, m)) = ReportsOf(n)
  <2> HIDE DEF n
  <2> QED
    BY <1>2, <1>3, ServiceChannel2KeepsOwed
<1>7. QueueChannel2Readback(o, m, cmd, buf, delay) = ServiceChannel2(n, m)
  BY DEF QueueChannel2Readback, r
<1> HIDE DEF n
<1> QED
  BY <1>4, <1>5, <1>6, <1>7 DEF StreamStep

-----------------------------------------------------------------------------
(* Replacing a queue of another channel leaves channel 2 alone. *)
LEMMA OtherQueuesKeepChannel2 ==
    ASSUME NEW o \in OutType
    PROVE  /\ \A q \in Seq(PlayerPackets) :
                /\ [o EXCEPT !.pending_player_control = q] \in OutType
                /\ SameChannel2([o EXCEPT !.pending_player_control = q], o)
           /\ \A q \in Seq(DrivePackets) :
                /\ [o EXCEPT !.pending_drive_status = q] \in OutType
                /\ SameChannel2([o EXCEPT !.pending_drive_status = q], o)
<1>1. ASSUME NEW q \in Seq(PlayerPackets)
      PROVE  SameChannel2([o EXCEPT !.pending_player_control = q], o)
  BY DEF OutType, SameChannel2
<1>2. ASSUME NEW q \in Seq(DrivePackets)
      PROVE  SameChannel2([o EXCEPT !.pending_drive_status = q], o)
  BY DEF OutType, SameChannel2
<1> QED
  BY <1>1, <1>2, QueueReplaced

(* Channels of their own, for the instances of the lemmas above. *)
LEMMA TheOtherChannels == 0 \in Channels \ {2} /\ 1 \in Channels \ {2} /\ 3 \in Channels \ {2}
BY DEF Channels

(* write_player. *)
LEMMA WritePlayerStreams ==
    ASSUME SlaveInv, NEW b \in Bytes, WritePlayer(b)
    PROVE  StreamStep(out', out)
<1> DEFINE emptied == [out EXCEPT !.pending_player_control = <<>>]
<1>1. out \in OutType
  BY OutFacts
<1>2. emptied \in OutType /\ SameChannel2(emptied, out)
  <2>1. <<>> \in Seq(PlayerPackets)
    OBVIOUS
  <2> QED
    BY <1>1, <2>1, OtherQueuesKeepChannel2
<1>3. out' = out \/ out' = emptied \/ out' = WithdrawReport(emptied, 1, "87")
  BY DEF WritePlayer
<1> HIDE DEF emptied
<1>4. SameChannel2(WithdrawReport(emptied, 1, "87"), emptied)
  BY <1>2, TheOtherChannels, OtherChannelsKeepChannel2
<1>5. SameChannel2(out', out)
  BY <1>2, <1>3, <1>4 DEF SameChannel2
<1> QED
  BY <1>5, OtherStreams

(* write_mouse. *)
LEMMA WriteMouseStreams ==
    ASSUME SlaveInv, NEW b \in Bytes, WriteMouse(b)
    PROVE  StreamStep(out', out)
<1>1. out \in OutType
  BY OutFacts
<1>2. out' = out \/ out' = AssertChannelIrq(out, 0)
  BY DEF WriteMouse, MouseCommand
<1>3. SameChannel2(AssertChannelIrq(out, 0), out)
  BY <1>1, TheOtherChannels, OtherChannelsKeepChannel2
<1> QED
  BY <1>2, <1>3, OtherStreams DEF SameChannel2

(* write_ch2: commands 80 and 81 forget reports. *)
LEMMA WriteCh2Streams ==
    ASSUME SlaveInv, NEW b \in Bytes, WriteCh2(b)
    PROVE  StreamStep(out', out)
<1> DEFINE emptied == [out EXCEPT !.pending_keyboard = <<>>]
<1>1. out' = out \/ out' = emptied \/ out' = WithdrawReport(emptied, 2, "A0")
  <2>1. Channel2Command(b) =>
          out' = out \/ out' = emptied \/ out' = WithdrawReport(emptied, 2, "A0")
    BY DEF Channel2Command
  <2> QED
    BY <2>1 DEF WriteCh2
<1>2. StreamStep(emptied, out) /\ StreamStep(WithdrawReport(emptied, 2, "A0"), out)
  BY OutFacts, ForgetStreams
<1> HIDE DEF emptied
<1> QED
  BY <1>1, <1>2, OtherStreams DEF SameChannel2

(* write_ch3: a status query asks, everything else concerns channel 3. *)
LEMMA WriteCh3Streams ==
    ASSUME SlaveInv, NEW b \in Bytes, WriteCh3(b)
    PROVE  StreamStep(out', out)
<1>1. out \in OutType /\ ChannelCarries(out)
  BY OutFacts
<1>2. StreamStep(out, out)
  BY OtherStreams DEF SameChannel2
<1>3. ASSUME NEW cmd, NEW buf, NEW delay
      PROVE  StreamStep(PrepareReadback(out, 3, cmd, buf, delay), out)
  BY <1>1, TheOtherChannels, OtherChannelsKeepChannel2, OtherStreams
<1>4. ASSUME NEW m PROVE StreamStep(ServiceDriveStatusNotification(out, m), out)
  BY <1>1, TheOtherChannels, OtherChannelsKeepChannel2, OtherStreams
<1>5. ASSUME b \in Queries, NEW delay \in Nat
      PROVE  StreamStep(QueueChannel2Readback(out, mode, b, QueryAnswer(b), delay), out)
  <2>1. QueryAnswer(b) \in QueryPackets
    BY <1>5, OutFacts, QueryAnswerType
  <2> QED
    BY <1>1, <1>5, <2>1, AskStreams
<1>6. Channel3Command(b) => StreamStep(out', out)
  <2>1. ReadbackDelay \in Nat /\ 0 \in Nat
    BY SlaveAssumption
  <2> QED
    BY <1>2, <1>4, <1>5, <2>1 DEF Channel3Command
<1> QED
  BY <1>2, <1>3, <1>6 DEF WriteCh3

(* The player keys report on channel 1. *)
LEMMA PlayerStreams ==
    ASSUME SlaveInv, NEW key \in PlayerKeys, NEW pressed \in BOOLEAN,
           SetPlayerControlKey(key, pressed)
    PROVE  StreamStep(out', out)
<1>1. out \in OutType /\ player \in SUBSET PlayerKeys
  BY OutFacts DEF TypeOK
<1> DEFINE held == IF pressed THEN player \cup {key} ELSE player \ {key}
           q == Append(out.pending_player_control, <<"87", held>>)
           n == [out EXCEPT !.pending_player_control = q]
<1>2. q \in Seq(PlayerPackets)
  <2>1. out.pending_player_control \in Seq(PlayerPackets)
    BY <1>1 DEF OutType
  <2>2. <<"87", held>> \in PlayerPackets
    BY <1>1 DEF PlayerPackets
  <2> HIDE DEF held
  <2> QED
    BY <2>1, <2>2, AppendProperties
<1>3. out' = out \/ out' = ServicePlayerControl(n, mode)
  BY <1>1 DEF SetPlayerControlKey, OutType
<1> HIDE DEF q
<1>4. n \in OutType /\ SameChannel2(n, out)
  BY <1>1, <1>2, OtherQueuesKeepChannel2
<1> HIDE DEF n
<1>5. SameChannel2(ServicePlayerControl(n, mode), n)
  BY <1>4, TheOtherChannels, OtherChannelsKeepChannel2
<1>6. SameChannel2(out', out)
  BY <1>3, <1>4, <1>5 DEF SameChannel2
<1> QED
  BY <1>6, OtherStreams

(* A report of the keyboard: nothing, or one more owed. *)
LEMMA ReportKeyboardStreams ==
    ASSUME SlaveInv, NEW k \in KeyboardType, ReportKeyboard(k)
    PROVE  StreamStep(out', out)
<1> DEFINE q == Append(out.pending_keyboard, KeyboardPacket(k))
           n == [out EXCEPT !.pending_keyboard = q]
<1>1. out \in OutType /\ ChannelCarries(out) /\ KeyboardPacket(k) \in KeyPackets
  BY OutFacts, KeyboardPacketType
<1>2. q \in Seq(KeyPackets)
  BY <1>1, AppendProperties DEF OutType
<1>3. out' = out \/ out' = ServiceKeyboard(n, mode)
  BY <1>1 DEF ReportKeyboard, OutType
<1>4. /\ n \in OutType /\ n.pending_keyboard = q /\ n.channels = out.channels
      /\ n.pending_channel2_readbacks = out.pending_channel2_readbacks
  <2> HIDE DEF q
  <2> QED
    BY <1>1, <1>2 DEF OutType
<1> HIDE DEF n
<1>5. StreamStep(ServiceKeyboard(n, mode), out)
  BY <1>1, <1>4, ReportStreams
<1>6. StreamStep(out, out)
  BY OtherStreams DEF SameChannel2
<1> QED
  BY <1>3, <1>5, <1>6

(* The keyboard: attaching one forgets reports, keys and modifiers report. *)
LEMMA KeyboardStreams ==
    ASSUME SlaveInv, SlaveInv',
           \/ \E attached \in Attachments : SetKeyboardAttached(attached)
           \/ \E code \in Keys, pressed \in BOOLEAN, m \in Modifiers :
                 SetKeyboardKey(code, pressed, m)
           \/ \E m \in Modifiers : SetKeyboardModifiers(m)
    PROVE  StreamStep(out', out)
<1>1. CASE \E attached \in Attachments : SetKeyboardAttached(attached)
  <2>1. out' = WithdrawReport([out EXCEPT !.pending_keyboard = <<>>], 2, "A0")
    BY <1>1 DEF SetKeyboardAttached
  <2> QED
    BY <2>1, OutFacts, ForgetStreams
<1>2. CASE \/ \E code \in Keys, pressed \in BOOLEAN, m \in Modifiers :
                 SetKeyboardKey(code, pressed, m)
           \/ \E m \in Modifiers : SetKeyboardModifiers(m)
  <2>1. ReportKeyboard(keyboard')
    BY <1>2 DEF SetKeyboardKey, SetKeyboardModifiers
  <2>2. keyboard' \in KeyboardType
    BY DEF SlaveInv, TypeOK
  <2> QED
    BY <2>1, <2>2, ReportKeyboardStreams
<1> QED
  BY <1>1, <1>2

(* notify_disc_change queues its notices and serves channel 3. *)
LEMMA NoticesQueued ==
    ASSUME SlaveInv, NEW present \in Discs, NEW replacing \in BOOLEAN,
           NotifyDiscChange(present, replacing)
    PROVE  \E q \in Seq(DrivePackets) :
              out' = ServiceDriveStatusNotification(
                       [out EXCEPT !.pending_drive_status = q], mode)
<1>1. out \in OutType /\ drive \in DriveType
  BY OutFacts DEF TypeOK
<1> DEFINE d == [drive EXCEPT !.disc_present = present, !.disc_boot_mode = FALSE]
           first == IF replacing THEN <<EmptyDrive>> ELSE <<>>
           q == out.pending_drive_status \o (first \o <<DriveStatusPacket(d)>>)
<1>2. d \in DriveType
  BY <1>1, SlaveAssumption DEF DriveType
<1>3. first \in Seq(DrivePackets) /\ <<DriveStatusPacket(d)>> \in Seq(DrivePackets)
  <2> HIDE DEF d
  <2> QED
    BY <1>2, DriveStatusPacketType
<1>4. out.pending_drive_status \in Seq(DrivePackets)
  BY <1>1 DEF OutType
<1>5. q \in Seq(DrivePackets)
  <2> HIDE DEF d, first
  <2> QED
    BY <1>3, <1>4, ConcatProperties
<1>6. out' = ServiceDriveStatusNotification([out EXCEPT !.pending_drive_status = q], mode)
  <2>1. [out EXCEPT !.pending_drive_status = @ \o (first \o <<DriveStatusPacket(d)>>)]
          = [out EXCEPT !.pending_drive_status = q]
    BY <1>1 DEF OutType
  <2> HIDE DEF q
  <2> QED
    BY <2>1 DEF NotifyDiscChange
<1> HIDE DEF q
<1> QED
  BY <1>5, <1>6

(* The drive: media and notices concern channel 3. *)
LEMMA DriveStreams ==
    ASSUME SlaveInv,
           \/ \E present \in Discs : SetDiscPresent(present)
           \/ \E type \in DiscTypes : SetDiscType(type)
           \/ \E present \in Discs, replacing \in BOOLEAN : NotifyDiscChange(present, replacing)
    PROVE  StreamStep(out', out)
<1>1. out \in OutType
  BY OutFacts
<1>2. ASSUME NEW q \in Seq(DrivePackets)
      PROVE  /\ StreamStep([out EXCEPT !.pending_drive_status = q], out)
             /\ StreamStep(ServiceDriveStatusNotification(
                             [out EXCEPT !.pending_drive_status = q], mode), out)
  <2> DEFINE n == [out EXCEPT !.pending_drive_status = q]
  <2>1. n \in OutType /\ SameChannel2(n, out)
    BY <1>1, OtherQueuesKeepChannel2
  <2> HIDE DEF n
  <2>2. SameChannel2(ServiceDriveStatusNotification(n, mode), n)
    BY <2>1, TheOtherChannels, OtherChannelsKeepChannel2
  <2>3. SameChannel2(ServiceDriveStatusNotification(n, mode), out)
    BY <2>1, <2>2 DEF SameChannel2
  <2>4. StreamStep(n, out) /\ StreamStep(ServiceDriveStatusNotification(n, mode), out)
    BY <2>1, <2>3, OtherStreams
  <2> QED
    BY <2>4 DEF n
<1>3. CASE \E present \in Discs : SetDiscPresent(present)
  <2>1. out' = [out EXCEPT !.pending_drive_status = <<>>]
    BY <1>3 DEF SetDiscPresent
  <2>2. <<>> \in Seq(DrivePackets)
    OBVIOUS
  <2> QED
    BY <1>2, <2>1, <2>2
<1>4. CASE \E type \in DiscTypes : SetDiscType(type)
  BY <1>4, OtherStreams DEF SetDiscType, SameChannel2
<1>5. ASSUME NEW present \in Discs, NEW replacing \in BOOLEAN,
             NotifyDiscChange(present, replacing)
      PROVE  StreamStep(out', out)
  BY <1>2, <1>5, NoticesQueued
<1> QED
  BY <1>3, <1>4, <1>5

(* tick serves channel 3, ends delays and may show the pointer on channel 0. *)
LEMMA TickShape ==
    ASSUME SlaveInv, NEW cycles \in TickLengths, Tick(cycles)
    PROVE  \E served \in OutType, ticked \in OutType :
              /\ served = ServiceDriveStatusNotification(out, mode)
              /\ ticked = ExpireCountdowns(served, cycles)
              /\ out' = ticked \/ out' = ReportPointer(ticked, pointer')
<1> DEFINE keys == mode.keyboard_events_enabled /\ keyboard.attached
           controls == mode.player_control_enabled
           served == ServiceDriveStatusNotification(out, mode)
           ticked == ExpireCountdowns(served, cycles)
<1>1. out' = ticked \/ out' = ReportPointer(ticked, pointer')
  <2> HIDE DEF ticked
  <2>1. ticked = ExpireCountdowns(ServiceDriveStatusNotification(out, mode), cycles)
    BY DEF ticked
  <2> QED
    BY <2>1 DEF Tick
<1>2. OutInv(out, keys, controls) /\ keys \in BOOLEAN /\ controls \in BOOLEAN /\ cycles \in Nat
  BY InvFacts, SlaveAssumption
<1>3. served \in OutType /\ ticked \in OutType
  <2> HIDE DEF keys, controls
  <2>1. OutInv(served, keys, controls)
    BY <1>2, ServiceDriveStatusNotificationInv
  <2> HIDE DEF served
  <2>2. OutInv(ticked, keys, controls)
    BY <1>2, <2>1, ExpireCountdownsInv
  <2> HIDE DEF ticked
  <2> QED
    BY <2>1, <2>2 DEF OutInv
<1> HIDE DEF served, ticked
<1> QED
  BY <1>1, <1>3 DEF served, ticked

(* Time passes for channel 2 without a reply coming or going. *)
LEMMA TickStreams ==
    ASSUME SlaveInv, NEW cycles \in TickLengths, Tick(cycles)
    PROVE  StreamStep(out', out)
<1>1. out \in OutType
  BY OutFacts
<1>2. PICK served \in OutType, ticked \in OutType :
        /\ served = ServiceDriveStatusNotification(out, mode)
        /\ ticked = ExpireCountdowns(served, cycles)
        /\ out' = ticked \/ out' = ReportPointer(ticked, pointer')
  BY TickShape
<1>3. SameChannel2(served, out)
  BY <1>1, <1>2, TheOtherChannels, OtherChannelsKeepChannel2
<1>4. SameChannel2(ticked, served)
  BY <1>2, TheOtherChannels, OtherChannelsKeepChannel2
<1>5. SameChannel2(ReportPointer(ticked, pointer'), ticked)
  BY <1>2, TheOtherChannels, OtherChannelsKeepChannel2
<1>6. SameChannel2(out', out)
  BY <1>2, <1>3, <1>4, <1>5 DEF SameChannel2
<1> QED
  BY <1>6, OtherStreams

(* A reset forgets what both streams owe. *)
LEMMA NewOutStreams == AnswersOf(NewOut) = <<>> /\ ReportsOf(NewOut) = <<>>
<1>1. /\ NewOut.channels[2] = EmptyChannel /\ NewOut.pending_keyboard = <<>>
      /\ NewOut.pending_channel2_readbacks = <<>>
  BY DEF NewOut, Channels
<1>2. EmptyChannel.cmd = NoCmd /\ NoCmd \notin Queries /\ NoCmd # "A0"
  BY DEF EmptyChannel, NoCmd, Queries
<1>3. <<>> \o <<>> = <<>>
  BY EmptySeq, ConcatEmptySeq
<1>4. Buffers(<<>>) = <<>>
  BY EmptySeq, BufferFacts
<1> QED
  BY <1>1, <1>2, <1>3, <1>4 DEF AnswersOf, ReportsOf

-----------------------------------------------------------------------------
(* Every step of the SLAVE is a step of SlaveChannelC, or a stutter.        *)
LEMMA NextStreams ==
    ASSUME SlaveInv, [Next]_vars
    PROVE  StreamStep(out', out)
<1>0. SlaveInv'
  BY NextPreserves
<1>1. ASSUME UNCHANGED out
      PROVE  StreamStep(out', out)
  BY <1>1, OtherStreams DEF SameChannel2
<1>2. CASE UNCHANGED vars
  BY <1>1, <1>2 DEF vars
<1>3. CASE Guest
  <2>1. CASE \E c \in Channels : Read(c)
    BY <2>1, ReadStreams
  <2>2. ASSUME NEW w \in HostWrites, Write(w[1], w[2])
        PROVE  StreamStep(out', out)
    <3>1. w[1] \in Channels /\ w[2] \in Bytes
      BY SlaveAssumption
    <3>2. \/ WriteMouse(w[2]) \/ WritePlayer(w[2]) \/ WriteCh2(w[2]) \/ WriteCh3(w[2])
      <4>1. w[1] = 0 \/ w[1] = 1 \/ w[1] = 2 \/ w[1] = 3
        BY <3>1 DEF Channels
      <4> QED
        BY <2>2, <4>1 DEF Write
    <3> QED
      BY <3>1, <3>2, WriteMouseStreams, WritePlayerStreams, WriteCh2Streams, WriteCh3Streams
  <2> QED
    BY <1>3, <2>1, <2>2 DEF Guest
<1>4. CASE Frontend
  <2>1. CASE \/ \E x \in Positions, btn \in Buttons : SetPointer(x, btn)
             \/ \E dx \in Motions, btn \in Buttons : MovePointer(dx, btn)
             \/ \E x \in Positions, btn \in Buttons : SetPointerAbsolute(x, btn)
             \/ \E video \in Videos : SetVideoStandard(video)
    <3>1. UNCHANGED out
      BY <2>1 DEF SetPointer, MovePointer, SetPointerAbsolute, SetVideoStandard
    <3> QED
      BY <1>1, <3>1
  <2> QED
    BY <1>0, <1>4, <2>1, PlayerStreams, KeyboardStreams, DriveStreams DEF Frontend
<1>5. CASE Machine
  <2>1. CASE TakeAttenuation \/ TakeHostResetRequest
    BY <1>1, <2>1 DEF TakeAttenuation, TakeHostResetRequest
  <2>2. CASE \E cycles \in TickLengths : Tick(cycles)
    BY <2>2, TickStreams
  <2>3. CASE Reset
    BY <2>3, NewOutStreams DEF Reset, StreamStep
  <2> QED
    BY <1>5, <2>1, <2>2, <2>3 DEF Machine
<1> QED
  BY <1>2, <1>3, <1>4, <1>5 DEF Next

(* The SLAVE implements SlaveChannelC: through every interleaving of reads,  *)
(* writes, ticks, keys and resets the guest gets each answer once and in the *)
(* order it asked, and each key report in the order of the keys, although    *)
(* the two streams share channel 2, its delay and its interrupt.             *)
THEOREM ImplementsChannelCHolds == Spec => ImplementsChannelC
<1>1. Init => ChannelC!Init
  BY OwedIsOfOut, NewOutStreams DEF Init, ChannelC!Init
<1>2. SlaveInv /\ [Next]_vars => [ChannelC!Next]_<<OwedAnswers, OwedReports>>
  BY NextStreams, StreamStepImplements
<1> QED
  BY <1>1, <1>2, SlaveInvariant, PTL DEF Spec, ImplementsChannelC, ChannelC!Spec, ChannelC!vars

-----------------------------------------------------------------------------
(* What a step may do to a reply that is on a channel: the action properties *)
(* of Slave, as relations of the two states.                                 *)
HalfReadKept ==
    \A c \in {1, 2} :
       out.channels[c].index # 0 =>
          \/ out'.channels[c] = out.channels[c]
          \/ /\ out'.channels[c].index = out.channels[c].index + 1
             /\ out'.channels[c].count = out.channels[c].count - 1
             /\ out'.channels[c].buf = out.channels[c].buf
          \/ out'.channels[c].index = 0 /\ out.channels[c].count = 1
          \/ out'.channels[c] = EmptyChannel

NoticeWaits ==
    out.channels[3].count # 0 /\ out'.channels[3] # out.channels[3] =>
       \/ out'.channels[3].count = out.channels[3].count - 1
       \/ parser.head \in {"B0", "B1"} /\ parser' = IdleParser
       \/ out' = NewOut

(* A channel other than the pointer's that holds a reply goes on holding it. *)
KeepsReplies(n, o) ==
    \A c \in {1, 2, 3} : o.channels[c].count # 0 => n.channels[c] = o.channels[c]

(* The methods that serve a channel look whether it is free. *)
LEMMA ServicesKeepReplies ==
    ASSUME NEW o \in OutType, NEW d \in Channels, NEW m, NEW cycles, NEW p
    PROVE  /\ KeepsReplies(AssertChannelIrq(o, d), o)
           /\ KeepsReplies(ServicePlayerControl(o, m), o)
           /\ KeepsReplies(ServiceKeyboard(o, m), o)
           /\ KeepsReplies(ServiceChannel2(o, m), o)
           /\ KeepsReplies(ServiceDriveStatusNotification(o, m), o)
           /\ KeepsReplies(ExpireCountdowns(o, cycles), o)
           /\ KeepsReplies(ReportPointer(o, p), o)
<1>1. KeepsReplies(AssertChannelIrq(o, d), o)
  BY DEF OutType, KeepsReplies, AssertChannelIrq
<1>2. KeepsReplies(ServicePlayerControl(o, m), o)
  BY DEF OutType, KeepsReplies, ServicePlayerControl, AssertChannelIrq, Channels
<1>3. KeepsReplies(ServiceKeyboard(o, m), o)
  BY DEF OutType, KeepsReplies, ServiceKeyboard, AssertChannelIrq, Channels
<1>4. KeepsReplies(ServiceChannel2(o, m), o)
  BY <1>3 DEF OutType, KeepsReplies, ServiceChannel2, PrepareReadback, Channels
<1>5. KeepsReplies(ServiceDriveStatusNotification(o, m), o)
  BY DEF OutType, KeepsReplies, ServiceDriveStatusNotification, PrepareReadback, Channels
<1>6. KeepsReplies(ExpireCountdowns(o, cycles), o)
  BY DEF OutType, KeepsReplies, ExpireCountdowns
<1>7. KeepsReplies(ReportPointer(o, p), o)
  BY DEF OutType, KeepsReplies, ReportPointer, PrepareReadback, AssertChannelIrq, Channels
<1> QED
  BY <1>1, <1>2, <1>3, <1>4, <1>5, <1>6, <1>7

(* A step that keeps every reply is one the two properties allow, and so is  *)
(* one that empties a channel of channels 1 and 2 and keeps the others.      *)
LEMMA KeptReplies ==
    ASSUME SlaveInv,
           \A c \in {1, 2, 3} : out.channels[c].count # 0 =>
              \/ out'.channels[c] = out.channels[c]
              \/ c # 3 /\ out'.channels[c] = EmptyChannel
    PROVE  HalfReadKept /\ NoticeWaits
<1>1. out \in OutType
  BY OutFacts
<1>2. \A c \in {1, 2, 3} : out.channels[c] \in OutChannel \cup {EmptyChannel}
  BY <1>1 DEF OutType, Channels
<1>3. \A c \in {1, 2, 3} : out.channels[c].index # 0 => out.channels[c].count # 0
  BY <1>2 DEF OutChannel, EmptyChannel
<1> QED
  BY <1>3 DEF HalfReadKept, NoticeWaits

(* SlaveHle::read: the reply moves on by a byte; its last byte frees the    *)
(* channel, which may be served at once.                                    *)
LEMMA ReadKeepsReplies ==
    ASSUME SlaveInv, NEW c \in Channels, Read(c)
    PROVE  HalfReadKept /\ NoticeWaits
<1> DEFINE ch == out.channels[c]
<1>1. ch \in OutChannel /\ out \in OutType
  BY ReadShape, OutFacts
<1>2. PICK o \in OutType :
         /\ o.channels = [out.channels EXCEPT ![c] = Rest(ch)]
         /\ out' = CASE c = 1 -> ServicePlayerControl(o, mode)
                     [] c = 2 -> ServiceChannel2(o, mode)
                     [] OTHER -> o
  BY ReadShape
<1>3. o.channels[c] = Rest(ch) /\ \A d \in {1, 2, 3} \ {c} : o.channels[d] = out.channels[d]
  <2>1. \E T : out.channels \in [Channels -> T]
    BY <1>1 DEF OutType
  <2> HIDE DEF ch
  <2> QED
    BY <1>2, <2>1 DEF Channels
<1>4. /\ Rest(ch) \in OutChannel \cup {EmptyChannel}
      /\ ch.count = 1 => Rest(ch) = EmptyChannel
      /\ ch.count # 1 => /\ Rest(ch) \in OutChannel
                         /\ Rest(ch).buf = ch.buf
                         /\ Rest(ch).index = ch.index + 1
                         /\ Rest(ch).count = ch.count - 1
  BY <1>1, RestFacts
<1>5. KeepsReplies(out', o)
  <2>1. /\ KeepsReplies(ServicePlayerControl(o, mode), o)
        /\ KeepsReplies(ServiceChannel2(o, mode), o) /\ KeepsReplies(o, o)
    BY TheOtherChannels, ServicesKeepReplies DEF KeepsReplies
  <2>2. out' = ServicePlayerControl(o, mode) \/ out' = ServiceChannel2(o, mode) \/ out' = o
    BY <1>2
  <2> QED
    BY <2>1, <2>2
<1>6. \A d \in {1, 2, 3} \ {c} : out'.channels[d] = out.channels[d]
  <2>1. CASE c = 1
    <3>1. out' = ServicePlayerControl(o, mode)
      BY <1>2, <2>1
    <3>2. \A d \in {2, 3} : ServicePlayerControl(o, mode).channels[d] = o.channels[d]
      BY DEF OutType, ServicePlayerControl, AssertChannelIrq, Channels
    <3> QED
      BY <1>3, <2>1, <3>1, <3>2
  <2>2. CASE c = 2
    <3>1. out' = ServiceChannel2(o, mode)
      BY <1>2, <2>2
    <3>2. \A d \in {1, 3} : ServiceChannel2(o, mode).channels[d] = o.channels[d]
      BY DEF OutType, ServiceChannel2, ServiceKeyboard, PrepareReadback, AssertChannelIrq,
             Channels
    <3> QED
      BY <1>3, <2>2, <3>1, <3>2
  <2>3. CASE c # 1 /\ c # 2
    BY <1>2, <1>3, <2>3
  <2> QED
    BY <2>1, <2>2, <2>3
<1>7. ch.count # 1 => out'.channels[c] = Rest(ch) \/ c = 0
  BY <1>3, <1>4, <1>5 DEF KeepsReplies, OutChannel, Channels
<1>8. ch.count = 1 /\ c \in {1, 2} => out'.channels[c].index = 0
  <2> SUFFICES ASSUME ch.count = 1, c \in {1, 2}
               PROVE  out'.channels[c].index = 0
    OBVIOUS
  <2>1. o.channels[c] = EmptyChannel
    BY <1>3, <1>4
  <2>2. CASE c = 1
    <3>1. out' = ServicePlayerControl(o, mode)
      BY <1>2, <2>2
    <3>2. \/ ServicePlayerControl(o, mode).channels[1] = o.channels[1]
          \/ ServicePlayerControl(o, mode).channels[1].index = 0
      BY DEF OutType, ServicePlayerControl, AssertChannelIrq, Channels, FreshChannel
    <3> QED
      BY <2>1, <2>2, <3>1, <3>2 DEF EmptyChannel
  <2>3. CASE c = 2
    <3>1. out' = ServiceChannel2(o, mode)
      BY <1>2, <2>3
    <3>2. \/ ServiceChannel2(o, mode).channels[2] = o.channels[2]
          \/ ServiceChannel2(o, mode).channels[2].index = 0
      BY DEF OutType, ServiceChannel2, ServiceKeyboard, PrepareReadback, AssertChannelIrq,
             Channels, FreshChannel
    <3> QED
      BY <2>1, <2>3, <3>1, <3>2 DEF EmptyChannel
  <2> QED
    BY <2>2, <2>3
<1>9. HalfReadKept
  BY <1>4, <1>6, <1>7, <1>8 DEF HalfReadKept
<1>10. NoticeWaits
  <2>1. CASE c = 3
    <3>1. out' = o
      BY <1>2, <2>1
    <3>2. ch.count = 1 => Rest(ch).count = ch.count - 1
      BY <1>4 DEF EmptyChannel
    <3> QED
      BY <1>3, <1>4, <2>1, <3>1, <3>2 DEF NoticeWaits
  <2>2. CASE c # 3
    BY <1>6, <2>2 DEF NoticeWaits
  <2> QED
    BY <2>1, <2>2
<1> QED
  BY <1>9, <1>10

(* A step that keeps every reply after queueing something keeps every reply. *)
LEMMA ServedReplies ==
    ASSUME SlaveInv, NEW n, n.channels = out.channels, KeepsReplies(out', n)
    PROVE  HalfReadKept /\ NoticeWaits
BY KeptReplies DEF KeepsReplies

(* A report is withdrawn whole. *)
LEMMA WithdrawnReplies ==
    ASSUME SlaveInv, NEW n \in OutType, n.channels = out.channels, NEW c \in {1, 2}, NEW cmd,
           out' = WithdrawReport(n, c, cmd)
    PROVE  HalfReadKept /\ NoticeWaits
<1>1. \A d \in {1, 2, 3} : \/ WithdrawReport(n, c, cmd).channels[d] = n.channels[d]
                           \/ d # 3 /\ WithdrawReport(n, c, cmd).channels[d] = EmptyChannel
  BY DEF OutType, WithdrawReport, ClearChannelIrq, Channels
<1> QED
  BY <1>1, KeptReplies

(* The commands of channels 0, 1 and 2. *)
LEMMA WritesKeepReplies ==
    ASSUME SlaveInv, NEW b \in Bytes, WriteMouse(b) \/ WritePlayer(b) \/ WriteCh2(b)
    PROVE  HalfReadKept /\ NoticeWaits
<1> DEFINE noControls == [out EXCEPT !.pending_player_control = <<>>]
           noKeys == [out EXCEPT !.pending_keyboard = <<>>]
<1>1. out \in OutType
  BY OutFacts
<1>2. /\ noControls \in OutType /\ noControls.channels = out.channels
      /\ noKeys \in OutType /\ noKeys.channels = out.channels
  <2>1. <<>> \in Seq(PlayerPackets) /\ <<>> \in Seq(KeyPackets)
    OBVIOUS
  <2> QED
    BY <1>1, <2>1 DEF OutType
<1>3. CASE WriteMouse(b)
  <2>1. out' = out \/ out' = AssertChannelIrq(out, 0)
    BY <1>3 DEF WriteMouse, MouseCommand
  <2>2. KeepsReplies(AssertChannelIrq(out, 0), out) /\ KeepsReplies(out, out)
    BY <1>1, TheOtherChannels, ServicesKeepReplies DEF KeepsReplies
  <2> QED
    BY <2>1, <2>2, ServedReplies
<1>4. CASE WritePlayer(b)
  <2>1. out' = out \/ out' = noControls \/ out' = WithdrawReport(noControls, 1, "87")
    BY <1>4 DEF WritePlayer
  <2>2. KeepsReplies(out, out) /\ KeepsReplies(noControls, noControls)
    BY DEF KeepsReplies
  <2> HIDE DEF noControls
  <2> QED
    BY <1>2, <2>1, <2>2, ServedReplies, WithdrawnReplies
<1>5. CASE WriteCh2(b)
  <2>1. out' = out \/ out' = noKeys \/ out' = WithdrawReport(noKeys, 2, "A0")
    <3>1. Channel2Command(b) =>
            out' = out \/ out' = noKeys \/ out' = WithdrawReport(noKeys, 2, "A0")
      BY DEF Channel2Command
    <3> QED
      BY <1>5, <3>1 DEF WriteCh2
  <2>2. KeepsReplies(out, out) /\ KeepsReplies(noKeys, noKeys)
    BY DEF KeepsReplies
  <2> HIDE DEF noKeys
  <2> QED
    BY <1>2, <2>1, <2>2, ServedReplies, WithdrawnReplies
<1> QED
  BY <1>3, <1>4, <1>5

(* write_ch3: only a completed B0 or B1 query overwrites what channel 3     *)
(* holds, and it leaves the parser idle.                                    *)
LEMMA WriteCh3KeepsReplies ==
    ASSUME SlaveInv, NEW b \in Bytes, WriteCh3(b)
    PROVE  HalfReadKept /\ NoticeWaits
<1> DEFINE p == Pushed(b)
<1>1. out \in OutType /\ parser \in ParserType
  BY OutFacts DEF TypeOK
<1>2. CASE p.head \in {"B0", "B1"} /\ p.index > 1 /\ p.index = p.count
  <2>1. \/ out' = PrepareReadback(out, 3, "B0", DriveStatusPacket(drive), DriveStatusDelay)
        \/ out' = PrepareReadback(out, 3, "B1", <<"B1", 0>>, ReadbackDelay)
    <3>1. p.index # 1
      BY <1>2
    <3> QED
      BY <1>2, <3>1 DEF WriteCh3
  <2>2. \A d \in {1, 2} : out'.channels[d] = out.channels[d]
    <3>1. ASSUME NEW cmd, NEW buf, NEW delay
          PROVE  \A d \in {1, 2} :
                    PrepareReadback(out, 3, cmd, buf, delay).channels[d] = out.channels[d]
      BY <1>1 DEF PrepareReadback, OutType, Channels
    <3> QED
      BY <2>1, <3>1
  <2>3. parser' = ClearInput(p)
    BY <1>2 DEF WriteCh3
  <2>4. ClearInput(p) = IdleParser
    <3>1. p \in ParserType
      BY <1>1, ParserTypes
    <3> HIDE DEF p
    <3> QED
      <4>1. ClearInput(p) \in ParserType /\ IdleParser \in ParserType
        BY <1>1, <3>1, ParserTypes, NewValuesType DEF p
      <4>2. /\ ClearInput(p).head = NoByte /\ ClearInput(p).index = 0 /\ ClearInput(p).count = 0
            /\ IdleParser.head = NoByte /\ IdleParser.index = 0 /\ IdleParser.count = 0
        BY <3>1 DEF ClearInput, Rewound, IdleParser, ParserType
      <4>3. ASSUME NEW r \in ParserType, NEW s \in ParserType,
                   r.head = s.head, r.index = s.index, r.count = s.count
            PROVE  r = s
        BY <4>3 DEF ParserType
      <4> QED
        BY <4>1, <4>2, <4>3
  <2>5. parser.head = p.head
    BY <1>1, <1>2 DEF Pushed, ParserType
  <2> QED
    BY <1>2, <2>2, <2>3, <2>4, <2>5 DEF HalfReadKept, NoticeWaits
<1>3. CASE ~(p.head \in {"B0", "B1"} /\ p.index > 1 /\ p.index = p.count)
  <2>1. KeepsReplies(out, out) /\ \A m : KeepsReplies(ServiceDriveStatusNotification(out, m), out)
    BY <1>1, TheOtherChannels, ServicesKeepReplies DEF KeepsReplies
  <2>2. ASSUME b \in Queries, NEW delay \in Nat
        PROVE  KeepsReplies(QueueChannel2Readback(out, mode, b, QueryAnswer(b), delay), out)
    <3> DEFINE answer == [cmd |-> b, buf |-> QueryAnswer(b), delay |-> delay]
               q == Append(out.pending_channel2_readbacks, answer)
               asked == [out EXCEPT !.pending_channel2_readbacks = q]
    <3>1. answer \in PendingReadback
      BY <2>2, QueryAnswerType, OutFacts DEF PendingReadback
    <3>2. q \in Seq(PendingReadback)
      <4> HIDE DEF answer
      <4> QED
        BY <1>1, <3>1, AppendProperties DEF OutType
    <3>3. asked \in OutType /\ asked.channels = out.channels
      <4> HIDE DEF q
      <4> QED
        BY <1>1, <3>2 DEF OutType
    <3>4. QueueChannel2Readback(out, mode, b, QueryAnswer(b), delay)
            = ServiceChannel2(asked, mode)
      BY DEF QueueChannel2Readback
    <3> HIDE DEF asked
    <3>5. KeepsReplies(ServiceChannel2(asked, mode), asked)
      BY <3>3, TheOtherChannels, ServicesKeepReplies
    <3> QED
      BY <3>3, <3>4, <3>5 DEF KeepsReplies
  <2>3. Channel3Command(b) => KeepsReplies(out', out)
    <3>1. ReadbackDelay \in Nat /\ 0 \in Nat
      BY SlaveAssumption
    <3> QED
      BY <2>1, <2>2, <3>1 DEF Channel3Command
  <2>4. out' = out \/ Channel3Command(b)
    BY <1>3 DEF WriteCh3
  <2> QED
    BY <2>1, <2>3, <2>4, ServedReplies
<1> QED
  BY <1>2, <1>3

(* The frontend: keys report behind the replies, an attachment withdraws,   *)
(* media notices wait for channel 3.                                        *)
LEMMA FrontendKeepsReplies ==
    ASSUME SlaveInv, SlaveInv', Frontend
    PROVE  HalfReadKept /\ NoticeWaits
<1>1. out \in OutType
  BY OutFacts
<1>2. \A q \in Seq(PlayerPackets) :
        /\ [out EXCEPT !.pending_player_control = q] \in OutType
        /\ [out EXCEPT !.pending_player_control = q].channels = out.channels
  BY <1>1, QueueReplaced DEF OutType
<1>3. \A q \in Seq(KeyPackets) :
        /\ [out EXCEPT !.pending_keyboard = q] \in OutType
        /\ [out EXCEPT !.pending_keyboard = q].channels = out.channels
  BY <1>1, QueueReplaced DEF OutType
<1>4. \A q \in Seq(DrivePackets) :
        /\ [out EXCEPT !.pending_drive_status = q] \in OutType
        /\ [out EXCEPT !.pending_drive_status = q].channels = out.channels
  BY <1>1, QueueReplaced DEF OutType
<1>5. ASSUME UNCHANGED out
      PROVE  HalfReadKept /\ NoticeWaits
  BY <1>5, KeptReplies
<1>6. CASE \/ \E x \in Positions, btn \in Buttons : SetPointer(x, btn)
           \/ \E dx \in Motions, btn \in Buttons : MovePointer(dx, btn)
           \/ \E x \in Positions, btn \in Buttons : SetPointerAbsolute(x, btn)
           \/ \E type \in DiscTypes : SetDiscType(type)
           \/ \E video \in Videos : SetVideoStandard(video)
  BY <1>5, <1>6 DEF SetPointer, MovePointer, SetPointerAbsolute, SetDiscType, SetVideoStandard
<1>7. ASSUME NEW key \in PlayerKeys, NEW pressed \in BOOLEAN, SetPlayerControlKey(key, pressed)
      PROVE  HalfReadKept /\ NoticeWaits
  <2> DEFINE held == IF pressed THEN player \cup {key} ELSE player \ {key}
             q == Append(out.pending_player_control, <<"87", held>>)
             n == [out EXCEPT !.pending_player_control = q]
  <2>1. q \in Seq(PlayerPackets)
    <3>1. out.pending_player_control \in Seq(PlayerPackets)
      BY <1>1 DEF OutType
    <3>2. <<"87", held>> \in PlayerPackets
      BY OutFacts DEF PlayerPackets, TypeOK
    <3> HIDE DEF held
    <3> QED
      BY <3>1, <3>2, AppendProperties
  <2>2. out' = out \/ out' = ServicePlayerControl(n, mode)
    BY <1>1, <1>7 DEF SetPlayerControlKey, OutType
  <2> HIDE DEF q
  <2>3. n \in OutType /\ n.channels = out.channels
    BY <1>2, <2>1
  <2> HIDE DEF n
  <2>4. KeepsReplies(ServicePlayerControl(n, mode), n)
    BY <2>3, TheOtherChannels, ServicesKeepReplies
  <2> QED
    BY <1>5, <2>2, <2>3, <2>4, ServedReplies
<1>8. ASSUME NEW attached \in Attachments, SetKeyboardAttached(attached)
      PROVE  HalfReadKept /\ NoticeWaits
  <2> DEFINE emptied == [out EXCEPT !.pending_keyboard = <<>>]
  <2>1. <<>> \in Seq(KeyPackets)
    OBVIOUS
  <2>2. emptied \in OutType /\ emptied.channels = out.channels
    BY <1>3, <2>1
  <2>3. out' = WithdrawReport(emptied, 2, "A0")
    BY <1>8 DEF SetKeyboardAttached
  <2> HIDE DEF emptied
  <2> QED
    BY <2>2, <2>3, WithdrawnReplies
<1>9. CASE \/ \E code \in Keys, pressed \in BOOLEAN, m \in Modifiers :
                 SetKeyboardKey(code, pressed, m)
           \/ \E m \in Modifiers : SetKeyboardModifiers(m)
  <2> DEFINE q == Append(out.pending_keyboard, KeyboardPacket(keyboard'))
             n == [out EXCEPT !.pending_keyboard = q]
  <2>1. ReportKeyboard(keyboard')
    BY <1>9 DEF SetKeyboardKey, SetKeyboardModifiers
  <2>2. q \in Seq(KeyPackets)
    <3>1. KeyboardPacket(keyboard') \in KeyPackets
      BY KeyboardPacketType DEF SlaveInv, TypeOK
    <3>2. out.pending_keyboard \in Seq(KeyPackets)
      BY <1>1 DEF OutType
    <3> QED
      BY <3>1, <3>2, AppendProperties
  <2>3. out' = out \/ out' = ServiceKeyboard(n, mode)
    BY <1>1, <2>1 DEF ReportKeyboard, OutType
  <2> HIDE DEF q
  <2>4. n \in OutType /\ n.channels = out.channels
    BY <1>3, <2>2
  <2> HIDE DEF n
  <2>5. KeepsReplies(ServiceKeyboard(n, mode), n)
    BY <2>4, TheOtherChannels, ServicesKeepReplies
  <2> QED
    BY <1>5, <2>3, <2>4, <2>5, ServedReplies
<1>10. ASSUME NEW present \in Discs, SetDiscPresent(present)
       PROVE  HalfReadKept /\ NoticeWaits
  <2> DEFINE n == [out EXCEPT !.pending_drive_status = <<>>]
  <2>1. <<>> \in Seq(DrivePackets)
    OBVIOUS
  <2>2. n.channels = out.channels /\ out' = n /\ KeepsReplies(n, n)
    BY <1>4, <1>10, <2>1 DEF SetDiscPresent, KeepsReplies
  <2> HIDE DEF n
  <2> QED
    BY <2>2, ServedReplies
<1>11. ASSUME NEW present \in Discs, NEW replacing \in BOOLEAN,
              NotifyDiscChange(present, replacing)
       PROVE  HalfReadKept /\ NoticeWaits
  <2>1. PICK q \in Seq(DrivePackets) :
          out' = ServiceDriveStatusNotification([out EXCEPT !.pending_drive_status = q], mode)
    BY <1>11, NoticesQueued
  <2> DEFINE n == [out EXCEPT !.pending_drive_status = q]
  <2>2. n \in OutType /\ n.channels = out.channels
    BY <1>4
  <2> HIDE DEF n
  <2>3. KeepsReplies(ServiceDriveStatusNotification(n, mode), n)
    BY <2>2, TheOtherChannels, ServicesKeepReplies
  <2> QED
    BY <2>1, <2>2, <2>3, ServedReplies DEF n
<1> QED
  BY <1>6, <1>7, <1>8, <1>9, <1>10, <1>11 DEF Frontend

(* Every step of the SLAVE treats the replies on its channels so. *)
LEMMA NextKeepsReplies ==
    ASSUME SlaveInv, [Next]_vars
    PROVE  HalfReadKept /\ NoticeWaits
<1>0. SlaveInv' /\ out \in OutType
  BY NextPreserves, OutFacts
<1>1. ASSUME UNCHANGED out
      PROVE  HalfReadKept /\ NoticeWaits
  BY <1>1, KeptReplies
<1>2. CASE UNCHANGED vars
  BY <1>1, <1>2 DEF vars
<1>3. CASE Guest
  <2>1. CASE \E c \in Channels : Read(c)
    BY <2>1, ReadKeepsReplies
  <2>2. ASSUME NEW w \in HostWrites, Write(w[1], w[2])
        PROVE  HalfReadKept /\ NoticeWaits
    <3>1. w[1] \in Channels /\ w[2] \in Bytes
      BY SlaveAssumption
    <3>2. \/ WriteMouse(w[2]) \/ WritePlayer(w[2]) \/ WriteCh2(w[2]) \/ WriteCh3(w[2])
      <4>1. w[1] = 0 \/ w[1] = 1 \/ w[1] = 2 \/ w[1] = 3
        BY <3>1 DEF Channels
      <4> QED
        BY <2>2, <4>1 DEF Write
    <3> QED
      BY <3>1, <3>2, WritesKeepReplies, WriteCh3KeepsReplies
  <2> QED
    BY <1>3, <2>1, <2>2 DEF Guest
<1>4. CASE Frontend
  BY <1>0, <1>4, FrontendKeepsReplies
<1>5. CASE Machine
  <2>1. CASE TakeAttenuation \/ TakeHostResetRequest
    BY <1>1, <2>1 DEF TakeAttenuation, TakeHostResetRequest
  <2>2. ASSUME NEW cycles \in TickLengths, Tick(cycles)
        PROVE  HalfReadKept /\ NoticeWaits
    <3>1. PICK served \in OutType, ticked \in OutType :
            /\ served = ServiceDriveStatusNotification(out, mode)
            /\ ticked = ExpireCountdowns(served, cycles)
            /\ out' = ticked \/ out' = ReportPointer(ticked, pointer')
      BY <2>2, TickShape
    <3>2. /\ KeepsReplies(served, out) /\ KeepsReplies(ticked, served)
          /\ KeepsReplies(ReportPointer(ticked, pointer'), ticked)
      BY <1>0, <3>1, TheOtherChannels, ServicesKeepReplies
    <3>3. KeepsReplies(out', out)
      BY <3>1, <3>2 DEF KeepsReplies
    <3> QED
      BY <3>3, ServedReplies
  <2>3. CASE Reset
    <3>1. out' = NewOut /\ NewOut.channels[1] = EmptyChannel /\ NewOut.channels[2] = EmptyChannel
      BY <2>3 DEF Reset, NewOut, Channels
    <3> QED
      BY <3>1 DEF HalfReadKept, NoticeWaits
  <2> QED
    BY <1>5, <2>1, <2>2, <2>3 DEF Machine
<1> QED
  BY <1>2, <1>3, <1>4, <1>5 DEF Next

(* What the guest is reading stays on its channel: a half-read reply or      *)
(* report is read on or withdrawn whole, and a media notice never overwrites *)
(* the reply channel 3 holds, whatever is queued, served or ticked meanwhile.*)
THEOREM RepliesKeptHolds == Spec => RepliesKept
<1>1. SlaveInv /\ [Next]_vars => [HalfReadKept]_vars /\ [NoticeWaits]_vars
  BY NextKeepsReplies
<1> QED
  BY <1>1, SlaveInvariant, PTL
  DEF Spec, RepliesKept, HalfReadNeverReplaced, NoticeNeverOverwrites, HalfReadKept, NoticeWaits
-----------------------------------------------------------------------------
(* The shared assembly buffer.  Only four kinds of first byte start a        *)
(* command of several bytes: that is why a channel-0 byte overruns the       *)
(* length of B0 and B1 only.                                                 *)

HeadIsCommand(p) == p.index # 0 => p.head \in PositionBytes \cup {"B0", "B1"}

OverrunNamed ==
    ~Overrun /\ Overrun' =>
       \/ parser.head = "F0" /\ parser'.count = 17
       \/ /\ parser.head \in {"B0", "B1"}
          /\ \E w \in HostWrites : w[1] = 0 /\ WriteMouse(w[2])

(* One byte further into a command that is not overrun. *)
LEMMA PushedShort ==
    ASSUME parser \in ParserType, NEW b \in Bytes, HeadIsCommand(parser)
    PROVE  LET p == Pushed(b) IN
           /\ p \in ParserType /\ p.count = parser.count /\ p.index # 0
           /\ p.index = 1 => p.head = b
           /\ p.index > 1 => parser.index # 0 /\ p.head = parser.head
                             /\ HeadIsCommand(p)
           /\ ~Overrun /\ p.index > 1 /\ p.index # p.count => p.index < p.count
<1>1. /\ parser.index \in Nat /\ parser.count \in Nat
      /\ Pushed(b).index = IF parser.index < 18 THEN parser.index + 1 ELSE parser.index
      /\ Pushed(b).head = IF parser.index = 0 THEN b ELSE parser.head
      /\ Pushed(b).count = parser.count
  BY DEF ParserType, Pushed, ParserCap
<1>2. Pushed(b) \in ParserType
  BY ParserTypes
<1> QED
  BY <1>1, <1>2 DEF HeadIsCommand, Overrun

(* The other forms a step leaves the buffer in. *)
LEMMA BufferForms ==
    ASSUME NEW p \in ParserType
    PROVE  /\ Rewound(p).index = 0 /\ ClearInput(p).index = 0
           /\ \A n \in Nat : LET q == [p EXCEPT !.count = n] IN
                 q.index = p.index /\ q.head = p.head /\ q.count = n
BY DEF ParserType, Rewound, ClearInput

(* A step that ends the command, and one that leaves it short. *)
LEMMA Ended ==
    ASSUME parser'.index = 0
    PROVE  HeadIsCommand(parser') /\ OverrunNamed
BY DEF HeadIsCommand, OverrunNamed, Overrun

LEMMA Short ==
    ASSUME parser'.index \in Nat, parser'.count \in Nat,
           parser'.head \in PositionBytes \cup {"B0", "B1"},
           Overrun \/ parser'.index < parser'.count
    PROVE  HeadIsCommand(parser') /\ OverrunNamed
BY DEF HeadIsCommand, OverrunNamed, Overrun

(* What a byte on channel 3 does to the buffer. *)
LEMMA WriteCh3Forms ==
    ASSUME NEW b \in Bytes, WriteCh3(b)
    PROVE  LET p == Pushed(b) IN
           \/ parser' = ClearInput(p)
           \/ p.index = 1 /\ parser' = Rewound(p)
           \/ p.index > 1 /\ p.index # p.count /\ parser' = p
           \/ p.index = 1 /\ b \in {"B0", "B1"} /\ parser' = [p EXCEPT !.count = 4]
<1> DEFINE p == Pushed(b)
           first == CASE b \in {"B0", "B1"} -> [p EXCEPT !.count = 4]
                      [] b \in Queries \cup {"F7", "F8", "FA", "FB"} -> Rewound(p)
                      [] OTHER -> ClearInput(p)
<1>1. \/ parser' = ClearInput(p)
      \/ p.index > 1 /\ p.index # p.count /\ parser' = p
      \/ p.index = 1 /\ parser' = first
  BY DEF WriteCh3
<1>2. CASE b \in {"B0", "B1"}
  <2>1. b \notin Queries \cup {"F7", "F8", "FA", "FB"}
    BY <1>2 DEF Queries
  <2>2. first = [p EXCEPT !.count = 4]
    BY <1>2, <2>1
  <2> HIDE DEF first
  <2> QED
    BY <1>1, <1>2, <2>2, Zenon
<1>3. CASE b \notin {"B0", "B1"}
  <2>1. first = Rewound(p) \/ first = ClearInput(p)
    BY <1>3
  <2> HIDE DEF first
  <2> QED
    BY <1>1, <2>1, Zenon
<1> QED
  BY <1>2, <1>3

(* Each channel's byte: the command goes on short of its length, is over, or *)
(* is overrun the way OverrunsNamed says.                                    *)
LEMMA WriteNamed ==
    ASSUME parser \in ParserType, HeadIsCommand(parser),
           NEW w \in HostWrites, Write(w[1], w[2])
    PROVE  HeadIsCommand(parser') /\ OverrunNamed
<1> DEFINE b == w[2]
           p == Pushed(b)
<1>0. w[1] \in Channels /\ b \in Bytes
  BY SlaveAssumption
<1>1. /\ p \in ParserType /\ p.count = parser.count /\ p.index # 0
      /\ p.index = 1 => p.head = b
      /\ p.index > 1 => parser.index # 0 /\ p.head = parser.head /\ HeadIsCommand(p)
      /\ ~Overrun /\ p.index > 1 /\ p.index # p.count => p.index < p.count
  BY <1>0, PushedShort
<1>2. /\ Rewound(p).index = 0 /\ ClearInput(p).index = 0 /\ ClearInput(parser).index = 0
      /\ \A n \in Nat : LET q == [p EXCEPT !.count = n] IN
            q.index = p.index /\ q.head = p.head /\ q.count = n
  BY <1>1, BufferForms
<1>3. p.index \in Nat /\ p.count \in Nat
  BY <1>1 DEF ParserType
<1>4. CASE w[1] = 0
  <2>1. WriteMouse(b)
    BY <1>4 DEF Write
  <2>2. \/ p.head \in PositionBytes /\ p.index = 1 /\ parser' = [p EXCEPT !.count = 3]
        \/ parser' = ClearInput(p)
        \/ p.head \in PositionBytes /\ p.index # 1 /\ p.index # p.count /\ parser' = p
        \/ p.index = 1 /\ parser' = Rewound(p)
        \/ p.head \notin PositionBytes /\ p.index # 1 /\ parser' = p
    <3> HIDE DEF p
    <3> QED
      BY <2>1 DEF WriteMouse, p
  <2>3. CASE p.head \notin PositionBytes /\ p.index # 1 /\ parser' = p
    <3>1. parser.head \in {"B0", "B1"} /\ HeadIsCommand(p)
      BY <1>1, <1>3, <2>3 DEF HeadIsCommand
    <3> QED
      BY <1>4, <2>1, <2>3, <3>1 DEF OverrunNamed
  <2> HIDE DEF p
  <2>4. CASE p.head \in PositionBytes /\ p.index = 1 /\ parser' = [p EXCEPT !.count = 3]
    BY <1>2, <2>4, Short
  <2>5. CASE p.head \in PositionBytes /\ p.index # 1 /\ p.index # p.count /\ parser' = p
    BY <1>1, <1>3, <2>5, Short
  <2> QED
    BY <1>2, <2>2, <2>3, <2>4, <2>5, Ended
<1>5. CASE w[1] = 1
  <2>1. WritePlayer(b)
    BY <1>5 DEF Write
  <2>2. \/ parser' = ClearInput(parser) \/ parser' = ClearInput(p)
        \/ parser.index # 0 /\ ~(p.index > 1 /\ p.index = p.count) /\ parser' = p
    BY <2>1 DEF WritePlayer
  <2>3. parser.index # 0 => p.index > 1
    BY <1>0 DEF Pushed, ParserCap, ParserType
  <2> HIDE DEF p
  <2> QED
    BY <1>1, <1>2, <1>3, <2>2, <2>3 DEF HeadIsCommand, OverrunNamed, Overrun
<1>6. CASE w[1] = 2
  <2>1. WriteCh2(b)
    BY <1>6 DEF Write
  <2>2. \/ parser' = ClearInput(p)
        \/ p.index > 1 /\ p.index # p.count /\ parser' = p
        \/ p.index > 1 /\ p.head = "F0" /\ parser' = [p EXCEPT !.count = 17]
        \/ p.index = 1 /\ b = "C0" /\ parser' = [p EXCEPT !.count = 5]
        \/ p.index = 1 /\ b = "F0" /\ parser' = [p EXCEPT !.count = 17]
    <3> HIDE DEF p
    <3> QED
      BY <2>1 DEF WriteCh2, p
  <2> HIDE DEF p
  <2>3. CASE p.index > 1 /\ p.index # p.count /\ parser' = p
    BY <1>1, <1>3, <2>3, Short DEF HeadIsCommand
  <2>4. CASE p.index > 1 /\ p.head = "F0" /\ parser' = [p EXCEPT !.count = 17]
    BY <1>1, <1>2, <2>4 DEF HeadIsCommand, OverrunNamed
  <2>5. CASE p.index = 1 /\ b = "C0" /\ parser' = [p EXCEPT !.count = 5]
    BY <1>1, <1>2, <2>5, Short DEF PositionBytes
  <2>6. CASE p.index = 1 /\ b = "F0" /\ parser' = [p EXCEPT !.count = 17]
    BY <1>1, <1>2, <2>6, Short DEF PositionBytes
  <2> QED
    BY <1>2, <2>2, <2>3, <2>4, <2>5, <2>6, Ended
<1>7. CASE w[1] = 3
  <2>1. WriteCh3(b)
    BY <1>7 DEF Write
  <2>2. \/ parser' = ClearInput(p)
        \/ p.index = 1 /\ parser' = Rewound(p)
        \/ p.index > 1 /\ p.index # p.count /\ parser' = p
        \/ p.index = 1 /\ b \in {"B0", "B1"} /\ parser' = [p EXCEPT !.count = 4]
    BY <1>0, <2>1, WriteCh3Forms
  <2> HIDE DEF p
  <2>3. CASE p.index > 1 /\ p.index # p.count /\ parser' = p
    BY <1>1, <1>3, <2>3, Short DEF HeadIsCommand
  <2>4. CASE p.index = 1 /\ b \in {"B0", "B1"} /\ parser' = [p EXCEPT !.count = 4]
    BY <1>1, <1>2, <2>4, Short
  <2> QED
    BY <1>2, <2>2, <2>3, <2>4, Ended
<1> QED
  BY <1>0, <1>4, <1>5, <1>6, <1>7 DEF Channels

(* No other step touches the buffer, but a reset, which empties it. *)
LEMMA NextNamed ==
    ASSUME SlaveInv, HeadIsCommand(parser), [Next]_vars
    PROVE  HeadIsCommand(parser') /\ OverrunNamed
<1>0. parser \in ParserType
  BY DEF SlaveInv, TypeOK
<1>1. ASSUME UNCHANGED parser
      PROVE  HeadIsCommand(parser') /\ OverrunNamed
  BY <1>1 DEF HeadIsCommand, OverrunNamed, Overrun
<1>2. CASE UNCHANGED vars
  BY <1>1, <1>2 DEF vars
<1>3. CASE Guest
  <2>1. CASE \E c \in Channels : Read(c)
    BY <1>1, <2>1 DEF Read
  <2> QED
    BY <1>0, <1>3, <2>1, WriteNamed DEF Guest
<1>4. CASE Frontend
  BY <1>1, <1>4 DEF Frontend, SetPointer, MovePointer, SetPointerAbsolute, SetPlayerControlKey,
     SetKeyboardAttached, SetKeyboardKey, SetKeyboardModifiers, SetDiscPresent, SetDiscType,
     NotifyDiscChange, SetVideoStandard
<1>5. CASE Machine
  <2>1. CASE Reset
    BY <2>1 DEF Reset, IdleParser, HeadIsCommand, OverrunNamed, Overrun
  <2> QED
    BY <1>1, <1>5, <2>1 DEF Machine, TakeAttenuation, TakeHostResetRequest, Tick
<1> QED
  BY <1>2, <1>3, <1>4, <1>5 DEF Next

(* A command's length is overrun by the LCD's last byte and by a channel-0   *)
(* byte behind a B0 or B1, and by nothing else the guest mixes.              *)
THEOREM OverrunsNamedHolds == Spec => OverrunsNamed
<1>1. Init => HeadIsCommand(parser)
  BY DEF Init, IdleParser, HeadIsCommand
<1>2. SlaveInv /\ HeadIsCommand(parser) /\ [Next]_vars
         => HeadIsCommand(parser)' /\ [OverrunNamed]_vars
  BY NextNamed DEF HeadIsCommand
<1> QED
  BY <1>1, <1>2, SlaveInvariant, PTL DEF Spec, OverrunsNamed, OverrunNamed
=============================================================================
