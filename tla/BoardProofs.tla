---------------------------- MODULE BoardProofs ----------------------------
(***************************************************************************)
(* Theorems about the keyboard, the video controller and disc images.      *)
(*                                                                         *)
(* The keyboard, for every set of keys, every timing of the line and any   *)
(* number of bytes that wait: what is queued and what the guest has heard  *)
(* so far are whole packets, and the last one of them says how things are. *)
(* A tick sends a run of bytes, so the proof is by induction over the run. *)
(*                                                                         *)
(* The video controller, for every geometry, all control programs and      *)
(* every order in which the display and the guest use the registers. A run *)
(* of a program is followed command by command: none of them can leave the *)
(* pin behind the status, and without links a slot moves the pointer of    *)
(* its own path by exactly a slot. The slots fetched are then a function   *)
(* of the line, the display file being an interval of lines, and the rows  *)
(* of the two phases are disjoint, so a field keeps those of the other.    *)
(*                                                                         *)
(* The layout of a disc, for sheets of any length: what is loaded is a     *)
(* function of the sheet. Its files lie end to end, so a sector is found   *)
(* by the sum of the sizes before its file, and a track, when the sheet is *)
(* as rips are made, by its place in the list of all.                      *)
(*                                                                         *)
(* The inventory, for every disc, however its directories are linked: the  *)
(* walk is between two depths, all that is nearer is read, and what is at  *)
(* the nearer of the two is read or queued. Every entry is counted against *)
(* the row it was read from.                                               *)
(***************************************************************************)
EXTENDS Keyboard, Mcd212, DiscImages, FiniteSetTheorems, SequenceTheorems, Induction, TLAPS

-----------------------------------------------------------------------------
(* The keyboard.                                                           *)

KeyByte == [kind : {"id", "first", "second"}, of : State]
Guest == [half : State, packet : State \X State, lost : BOOLEAN, owed : BOOLEAN]

\* Bytes p and guest g are in step: an ID comes first only, and each second
\* byte has its first one before it, in the queue or at the guest.
InStep(p, g) ==
    \A i \in 1..Len(p) :
        /\ p[i].kind = "id" => i = 1
        /\ p[i].kind = "first" => i < Len(p) /\ p[i + 1].kind = "second" /\ p[i + 1].of = p[i].of
        /\ p[i].kind = "second" =>
               IF i = 1 THEN g.half = p[1].of ELSE p[i - 1].kind = "first" /\ p[i - 1].of = p[i].of

\* The last packet, on its way or arrived, says st.
Tells(p, g, st) ==
    IF p = <<>> \/ p[Len(p)].kind = "id" THEN g.packet[2] = st
                                         ELSE p[Len(p)].kind = "second" /\ p[Len(p)].of = st

OwesId(p, g) == g.owed => p # <<>> /\ p[1] = Id

\* All of it, st being what the keyboard would say.
Talks(p, g, st) ==
    /\ p \in Seq(KeyByte) /\ g \in Guest
    /\ InStep(p, g) /\ g.packet[1] = g.packet[2] /\ OwesId(p, g)
    /\ g.lost \/ Tells(p, g, st)

Says == StateOf(pressedKeys, modifiers)

KeyboardIInv ==
    /\ KeyboardTypeOK /\ Talks(pending, guest, Says)
    /\ guest.owed => tx # None
    /\ SendingIsDriven

-----------------------------------------------------------------------------
\* States and bytes.
LEMMA ByteTyped ==
  /\ <<NoKey, Up>> \in State /\ Id \in KeyByte /\ Unparsed \in Guest
  /\ \A st \in State : Part("first", st) \in KeyByte /\ Part("second", st) \in KeyByte
  <1>1. <<NoKey, Up>> \in State
    BY KeyboardAssumption DEF State
  <1>2. Id \in KeyByte
    BY <1>1 DEF Id, KeyByte
  <1>3. <<<<NoKey, Up>>, <<NoKey, Up>>>> \in State \X State
    BY <1>1
  <1>4. Unparsed \in Guest
    BY <1>1, <1>3 DEF Unparsed, Guest
  <1>5. \A st \in State : Part("first", st) \in KeyByte /\ Part("second", st) \in KeyByte
    BY DEF Part, KeyByte
  <1> QED BY <1>1, <1>2, <1>4, <1>5

\* The last key held, or none.
LEMMA StateTyped ==
  ASSUME NEW held \in Seq(Key), NEW mods \in Modifier
  PROVE  StateOf(held, mods) \in State
  <1>1. held # <<>> => held[Len(held)] \in Key
    <2>1. held # <<>> => Len(held) \in 1..Len(held)
      OBVIOUS
    <2> QED BY <2>1
  <1> QED BY <1>1 DEF StateOf, HeldKey, Last, State

\* Keys but one are keys.
LEMMA WithoutTyped ==
  ASSUME NEW held \in Seq(Key), NEW code \in Key
  PROVE  Without(held, code) \in Seq(Key)
  <1>1. CASE Contains(held, code)
    <2> DEFINE i == CHOOSE i \in DOMAIN held : held[i] = code
    <2>1. \E k \in DOMAIN held : held[k] = code
      BY <1>1 DEF Contains
    <2>2. i \in 1..Len(held) /\ Len(held) \in Nat
      BY <2>1
    <2> HIDE DEF i
    <2>3. SubSeq(held, 1, i - 1) \in Seq(Key) /\ SubSeq(held, i + 1, Len(held)) \in Seq(Key)
      BY <2>2
    <2> QED BY <1>1, <2>3 DEF Without, RemoveAt, i
  <1>2. CASE ~Contains(held, code)
    BY <1>2 DEF Without
  <1> QED BY <1>1, <1>2

-----------------------------------------------------------------------------
\* What the guest has heard is typed.
LEMMA ParseTyped ==
  ASSUME NEW g \in Guest, NEW b \in KeyByte
  PROVE  Parse(g, b) \in Guest /\ Parse(g, b).owed = FALSE /\ Parse(g, b).lost = g.lost
  BY DEF Parse, Guest, KeyByte

\* A byte that is sent keeps the rest in step.
LEMMA SentInStep ==
  ASSUME NEW p, NEW g, NEW st, Talks(p, g, st), p # <<>>
  PROVE  Talks(Tail(p), Parse(g, Head(p)), st)
  <1> DEFINE n == Len(p)
             t == Tail(p)
             b == p[1]
             h == Parse(g, b)
  <1>1. /\ p \in Seq(KeyByte) /\ g \in Guest /\ InStep(p, g) /\ g.packet[1] = g.packet[2]
        /\ g.lost \/ Tells(p, g, st)
    BY DEF Talks
  <1>2. /\ n \in Nat /\ n >= 1 /\ DOMAIN p = 1..n /\ Head(p) = b /\ b \in KeyByte
        /\ t \in Seq(KeyByte) /\ Len(t) = n - 1 /\ \A i \in 1..(n - 1) : t[i] = p[i + 1]
    BY <1>1
  <1>3. h \in Guest /\ h.owed = FALSE /\ h.lost = g.lost
    BY <1>1, <1>2, ParseTyped
  <1>4. b.kind \in {"id", "first", "second"} /\ 1 \in 1..n
    BY <1>2 DEF KeyByte
  <1> HIDE DEF t, n
  <1>5. h.packet[1] = h.packet[2]
    <2>1. b.kind = "second" => g.half = b.of
      BY <1>1, <1>2, <1>4 DEF InStep, n
    <2> QED BY <1>1, <1>4, <2>1 DEF Parse, Guest
  <1>6. InStep(t, h)
    <2> SUFFICES ASSUME NEW i \in 1..Len(t)
                 PROVE  /\ t[i].kind = "id" => i = 1
                        /\ t[i].kind = "first" => i < Len(t) /\ t[i + 1].kind = "second" /\ t[i + 1].of = t[i].of
                        /\ t[i].kind = "second" =>
                             IF i = 1 THEN h.half = t[1].of ELSE t[i - 1].kind = "first" /\ t[i - 1].of = t[i].of
      BY DEF InStep
    <2>1. i \in 1..(n - 1) /\ i + 1 \in 1..n /\ i + 1 # 1 /\ (i + 1) - 1 = i /\ t[i] = p[i + 1] /\ i \in 1..n
      BY <1>2
    <2>2. /\ p[i + 1].kind = "id" => FALSE
          /\ p[i + 1].kind = "first" =>
                i + 1 < n /\ p[(i + 1) + 1].kind = "second" /\ p[(i + 1) + 1].of = p[i + 1].of
          /\ p[i + 1].kind = "second" => p[i].kind = "first" /\ p[i].of = p[i + 1].of
      BY <1>1, <2>1 DEF InStep, n
    <2>3. i + 1 < n => t[i + 1] = p[(i + 1) + 1]
      BY <1>2, <2>1
    <2>4. i # 1 => t[i - 1] = p[i]
      <3>1. i # 1 => i - 1 \in 1..(n - 1) /\ (i - 1) + 1 = i
        BY <1>2, <2>1
      <3> QED BY <1>2, <3>1
    <2>5. ASSUME i = 1, p[2].kind = "second" PROVE h.half = p[2].of
      <3>1. b.kind = "first" /\ b.of = p[2].of
        BY <2>1, <2>2, <2>5
      <3> QED BY <1>1, <3>1 DEF Parse, Guest
    <2> QED BY <1>2, <2>1, <2>2, <2>3, <2>4, <2>5
  <1>7. ASSUME Tells(p, g, st) PROVE Tells(t, h, st)
    <2>1. CASE n = 1
      <3>1. t = <<>>
        BY <1>2, <2>1
      <3>2. b.kind # "first"
        BY <1>1, <1>4, <2>1 DEF InStep, n
      <3>3. h.packet[2] = st
        BY <1>1, <1>2, <1>4, <1>7, <2>1, <3>2 DEF Tells, Parse, Guest, n
      <3> QED BY <3>1, <3>3 DEF Tells
    <2>2. CASE n > 1
      <3>1. t # <<>> /\ t[Len(t)] = p[n] /\ n \in 1..n
        BY <1>2, <2>2
      <3>2. p[n].kind # "id"
        BY <1>1, <2>2, <3>1 DEF InStep, n
      <3> QED BY <1>7, <3>1, <3>2 DEF Tells, n
    <2> QED BY <1>2, <2>1, <2>2
  <1> QED BY <1>1, <1>2, <1>3, <1>5, <1>6, <1>7 DEF Talks, OwesId, t

-----------------------------------------------------------------------------
\* The ID of a keyboard that was powered on changes nothing but what is owed.
LEMMA IdOutOfTurn ==
  ASSUME NEW p, NEW g, NEW st, Talks(p, g, st)
  PROVE  Talks(p, Parse(g, Id), st) /\ Parse(g, Id).owed = FALSE
  <1>1. g \in Guest
    BY DEF Talks
  <1>2. Parse(g, Id) = [g EXCEPT !.owed = FALSE]
    BY DEF Parse, Id
  <1>3. /\ Parse(g, Id) \in Guest /\ Parse(g, Id).owed = FALSE /\ Parse(g, Id).lost = g.lost
        /\ Parse(g, Id).half = g.half /\ Parse(g, Id).packet = g.packet
    BY <1>1, <1>2 DEF Guest
  <1> HIDE DEF Parse
  <1> QED BY <1>3 DEF Talks, InStep, Tells, OwesId

\* What every step of the sending keeps: `sent` says how far it has come.
SendingInv(s, sent, st) ==
    /\ s = [left |-> s.left, tx |-> s.tx, pending |-> s.pending, guest |-> s.guest]
    /\ s.left \in Nat /\ Talks(s.pending, s.guest, st)
    /\ s.tx = None \/ (s.tx \in 1..(BitTime + Character) /\ s.pending # <<>>)
    /\ s.guest.owed => s.tx # None
    /\ s.tx = None \/ s.left < s.tx \/ Len(s.pending) + sent = Len(pending)

\* One byte.
LEMMA SendByteKeeps ==
  ASSUME NEW s, NEW n \in Nat, NEW st, SendingInv(s, n, st)
  PROVE  SendingInv(SendByte(s), n + 1, st)
  <1>1. CASE s.tx = None \/ s.left < s.tx
    <2>1. SendByte(s) = s
      BY <1>1 DEF SendByte
    <2> QED BY <1>1, <2>1 DEF SendingInv
  <1>2. CASE ~(s.tx = None \/ s.left < s.tx)
    <2> DEFINE r == SendByte(s)
               p == s.pending
    <2>1. /\ s.left \in Nat /\ Talks(p, s.guest, st) /\ s.tx \in 1..(BitTime + Character) /\ p # <<>>
          /\ Len(p) + n = Len(pending)
      BY <1>2 DEF SendingInv
    <2>2. r = [left |-> s.left - s.tx, pending |-> Tail(p), guest |-> Parse(s.guest, Head(p)),
               tx |-> IF Tail(p) = <<>> THEN None ELSE Character]
      BY <1>2 DEF SendByte
    <2> HIDE DEF r
    <2>3. /\ r.left = s.left - s.tx /\ r.pending = Tail(p) /\ r.guest = Parse(s.guest, Head(p))
          /\ r.tx = (IF Tail(p) = <<>> THEN None ELSE Character)
          /\ r = [left |-> r.left, tx |-> r.tx, pending |-> r.pending, guest |-> r.guest]
      BY <2>2
    <2>4. BitTime \in Nat /\ Character \in Nat \ {0} /\ Character \in 1..(BitTime + Character)
      BY KeyboardAssumption
    <2>5. Talks(r.pending, r.guest, st)
      BY <2>1, <2>3, SentInStep
    <2>6. p \in Seq(KeyByte) /\ Head(p) \in KeyByte /\ s.guest \in Guest /\ Len(Tail(p)) = Len(p) - 1 /\ Len(p) \in Nat
      BY <2>1 DEF Talks
    <2>7. r.guest.owed = FALSE
      <3>1. Parse(s.guest, Head(p)).owed = FALSE
        BY <2>6, ParseTyped
      <3> QED BY <2>3, <3>1, Zenon
    <2>8. r.left \in Nat
      BY <1>2, <2>1, <2>3, <2>4
    <2>9. r.tx = None \/ (r.tx \in 1..(BitTime + Character) /\ r.pending # <<>>)
      BY <2>3, <2>4
    <2>10. Len(r.pending) + (n + 1) = Len(pending)
      <3>1. Len(Tail(p)) + (n + 1) = Len(pending)
        <4> DEFINE rest == Len(Tail(p))
        <4>1. rest = Len(p) - 1 /\ Len(p) + n = Len(pending) /\ Len(p) \in Nat
          BY <2>1, <2>6
        <4> HIDE DEF rest, p
        <4>2. rest + (n + 1) = Len(pending)
          BY <4>1
        <4> QED BY <4>2 DEF rest, p
      <3> QED BY <2>3, <3>1
    <2>11. SendingInv(r, n + 1, st)
      BY <2>3, <2>5, <2>7, <2>8, <2>9, <2>10 DEF SendingInv
    <2> QED BY <2>11 DEF r
  <1> QED BY <1>1, <1>2

\* What is left when the time is used up.
LEMMA SendingKeeps ==
  ASSUME NEW ticks \in Nat, NEW g, NEW st, Talks(pending, g, st),
         tx \in -1..(BitTime + Character), SendingIsDriven, g.owed => tx # None
  PROVE  LET s == Sending(ticks, g) IN
         /\ Talks(s.pending, s.guest, st) /\ (s.guest.owed => s.tx # None)
         /\ s.tx = None \/ (s.tx \in 1..(BitTime + Character) /\ s.pending # <<>>)
  <1> DEFINE start == [left |-> ticks, tx |-> tx, pending |-> pending, guest |-> g]
             L == Len(pending)
             run == CHOOSE f : f = [n \in 0..L |-> IF n = 0 THEN start ELSE SendByte(f[n - 1])]
             s == run[L]
             r == [s EXCEPT !.tx = IF @ = None THEN None ELSE @ - s.left]
             S == {n \in Nat : n <= L => SendingInv(run[n], n, st)}
  <1>1. Sending(ticks, g) = r
    BY DEF Sending
  <1>2. L \in Nat
    BY DEF Talks
  <1> HIDE DEF L
  <1>3. run[0] = start /\ \A n \in 1..L : run[n] = SendByte(run[n - 1])
    <2> HIDE DEF start, run, s, S
    <2> DEFINE T == {k \in Nat : \E f : f = [n \in 0..k |-> IF n = 0 THEN start ELSE SendByte(f[n - 1])]}
    <2>1. 0 \in T
      <3> DEFINE f == [n \in 0..0 |-> start]
      <3>1. f = [n \in 0..0 |-> IF n = 0 THEN start ELSE SendByte(f[n - 1])]
        OBVIOUS
      <3> QED BY <3>1
    <2>2. ASSUME NEW k \in Nat, k \in T PROVE k + 1 \in T
      <3>1. PICK e : e = [n \in 0..k |-> IF n = 0 THEN start ELSE SendByte(e[n - 1])]
        BY <2>2
      <3> DEFINE h == [n \in 0..(k + 1) |-> IF n = k + 1 THEN SendByte(e[k]) ELSE e[n]]
      <3>2. ASSUME NEW n \in 0..(k + 1) PROVE h[n] = IF n = 0 THEN start ELSE SendByte(h[n - 1])
        BY <3>1
      <3>3. h = [n \in 0..(k + 1) |-> IF n = 0 THEN start ELSE SendByte(h[n - 1])]
        BY <3>2
      <3>4. \E f : f = [n \in 0..(k + 1) |-> IF n = 0 THEN start ELSE SendByte(f[n - 1])]
        BY <3>3
      <3> HIDE DEF h
      <3> QED BY <3>4
    <2>3. L \in T
      <3> HIDE DEF T
      <3> QED BY <1>2, <2>1, <2>2, Induct
    <2>4. run = [n \in 0..L |-> IF n = 0 THEN start ELSE SendByte(run[n - 1])]
      BY <2>3 DEF run
    <2>5. 0 \in 0..L /\ \A n \in 1..L : n \in 0..L /\ n # 0
      BY <1>2
    <2> QED BY <2>4, <2>5
  <1> HIDE DEF run
  <1>4. SendingInv(start, 0, st)
    BY <1>2, KeyboardAssumption DEF SendingInv, SendingIsDriven, L, None
  <1>5. 0 \in S
    BY <1>3, <1>4
  <1>6. ASSUME NEW n \in Nat, n \in S PROVE n + 1 \in S
    <2> SUFFICES ASSUME n + 1 <= L PROVE SendingInv(run[n + 1], n + 1, st)
      OBVIOUS
    <2>1. n + 1 \in 1..L /\ (n + 1) - 1 = n /\ n <= L
      BY <1>2
    <2>2. SendingInv(run[n], n, st) /\ run[n + 1] = SendByte(run[n])
      BY <1>3, <1>6, <2>1
    <2> QED BY <2>2, SendByteKeeps
  <1>7. SendingInv(s, L, st)
    <2>1. L \in S
      <3> HIDE DEF S
      <3> QED BY <1>2, <1>5, <1>6, Induct
    <2> QED BY <1>2, <2>1
  <1> HIDE DEF s, S
  <1>8. /\ r.pending = s.pending /\ r.guest = s.guest
        /\ r.tx = IF s.tx = None THEN None ELSE s.tx - s.left
    BY <1>7 DEF SendingInv
  <1>9. s.tx = None \/ s.left < s.tx
    <2>1. s.pending \in Seq(KeyByte) /\ Len(s.pending) \in Nat
      BY <1>7 DEF SendingInv, Talks
    <2>2. Len(s.pending) + L = L => s.pending = <<>>
      BY <1>2, <2>1
    <2>3. s.tx = None \/ s.left < s.tx \/ Len(s.pending) + L = L
      BY <1>7 DEF SendingInv, L
    <2> QED BY <1>7, <2>2, <2>3 DEF SendingInv
  <1>10. r.tx = None \/ (r.tx \in 1..(BitTime + Character) /\ r.pending # <<>>)
    BY <1>7, <1>8, <1>9, KeyboardAssumption DEF SendingInv
  <1>11. r.guest.owed => r.tx # None
    BY <1>7, <1>8, <1>9, KeyboardAssumption DEF SendingInv, None
  <1>12. Talks(r.pending, r.guest, st)
    BY <1>7, <1>8 DEF SendingInv
  <1> HIDE DEF r
  <1> QED BY <1>1, <1>10, <1>11, <1>12

-----------------------------------------------------------------------------
(* The actions.                                                            *)

\* A reset leaves nothing on its way and nothing owed.
LEMMA Quiet ==
  /\ Talks(<<>>, Unparsed, StateOf(<<>>, Up)) /\ Unparsed.owed = FALSE
  /\ <<>> \in Seq(KeyByte) /\ <<>> \in Seq(Key)
  <1>1. Unparsed \in Guest
    BY ByteTyped
  <1>2. <<>> \in Seq(KeyByte) /\ <<>> \in Seq(Key) /\ Len(<<>>) = 0
    OBVIOUS
  <1>3. StateOf(<<>>, Up) = <<NoKey, Up>>
    BY DEF StateOf, HeldKey
  <1>4. InStep(<<>>, Unparsed) /\ OwesId(<<>>, Unparsed) /\ Tells(<<>>, Unparsed, StateOf(<<>>, Up))
    BY <1>2, <1>3 DEF InStep, OwesId, Tells, Unparsed
  <1>5. Unparsed.packet[1] = Unparsed.packet[2] /\ Unparsed.owed = FALSE
    BY DEF Unparsed
  <1> QED BY <1>1, <1>2, <1>4, <1>5 DEF Talks

\* The numbers a step leaves are within their bounds.
LEMMA Bounds ==
  /\ 0 \in 0..Recognition /\ None \in -1..PowerOn /\ PowerOn \in -1..PowerOn
  /\ None \in -1..(BitTime + Character) /\ Character \in 1..(BitTime + Character)
  /\ \A d \in 1..(BitTime + Character) : d \in -1..(BitTime + Character) /\ d # None /\ d > 0
  /\ BitTime + Character \in 1..(BitTime + Character) /\ Up \in Modifier
  BY KeyboardAssumption DEF None

\* What is queued is typed as the run says.
LEMMA KeyboardTyped ==
  KeyboardTypeOK <=>
    /\ attached \in BOOLEAN /\ rts \in BOOLEAN /\ idPending \in BOOLEAN
    /\ rtsLow \in 0..Recognition /\ powerOn \in -1..PowerOn /\ tx \in -1..(BitTime + Character)
    /\ pending \in Seq(KeyByte)
    /\ pressedKeys \in Seq(Key) /\ modifiers \in Modifier
  BY DEF KeyboardTypeOK, KeyByte

\* The keyboard starts detached.
LEMMA KeyboardInitKeeps == KeyboardInit => KeyboardIInv
  <1> SUFFICES ASSUME KeyboardInit PROVE KeyboardIInv
    OBVIOUS
  <1>1. <<>> \in Seq(KeyByte) /\ <<>> \in Seq(Key) /\ Unparsed.owed = FALSE
    BY Quiet
  <1>2. Talks(pending, guest, Says)
    BY Quiet DEF KeyboardInit, Says
  <1>3. KeyboardTypeOK
    BY <1>1, Bounds, KeyboardTyped DEF KeyboardInit
  <1> QED BY <1>1, <1>2, <1>3 DEF KeyboardInit, KeyboardIInv, SendingIsDriven

\* Attaching, detaching and resetting.
LEMMA KeyboardResetKeeps ==
  ASSUME KeyboardIInv, ResetSerialState, attached' \in BOOLEAN, powerOn' \in {None, PowerOn}
  PROVE  KeyboardIInv'
  <1>1. Talks(pending', guest', Says')
    BY Quiet DEF ResetSerialState, Says
  <1>2. <<>> \in Seq(KeyByte) /\ <<>> \in Seq(Key) /\ Unparsed.owed = FALSE
    BY Quiet
  <1>3. KeyboardTypeOK'
    BY <1>2, Bounds DEF ResetSerialState, KeyboardTypeOK, KeyByte
  <1> QED BY <1>1, <1>2, <1>3 DEF ResetSerialState, KeyboardIInv, SendingIsDriven, None

\* The guest of an identification loses the packets that were queued.
LEMMA IdentificationTalks ==
  ASSUME NEW p, NEW g, NEW st, Talks(p, g, st)
  PROVE  Talks(<<Id>>, [g EXCEPT !.owed = TRUE, !.lost = @ \/ p # <<>>], st)
  <1> DEFINE h == [g EXCEPT !.owed = TRUE, !.lost = @ \/ p # <<>>]
  <1> USE DEF Talks
  <1>1. /\ g \in Guest /\ p \in Seq(KeyByte) /\ g.packet[1] = g.packet[2] /\ g.lost \in BOOLEAN
        /\ g.lost \/ Tells(p, g, st)
    BY DEF Guest
  <1>2. (g.lost \/ p # <<>>) \in BOOLEAN
    BY Zenon
  <1>3. h \in Guest /\ h.owed = TRUE /\ h.lost = (g.lost \/ p # <<>>) /\ h.packet = g.packet
    BY <1>1, <1>2 DEF Guest
  <1> HIDE DEF h
  <1>4. <<Id>> \in Seq(KeyByte) /\ Len(<<Id>>) = 1 /\ <<Id>>[1] = Id /\ <<Id>> # <<>> /\ Id.kind = "id"
    BY ByteTyped DEF Id
  <1>5. InStep(<<Id>>, h) /\ OwesId(<<Id>>, h)
    BY <1>4 DEF InStep, OwesId
  <1>6. h.lost \/ Tells(<<Id>>, h, st)
    <2>1. CASE g.lost \/ p # <<>>
      BY <1>3, <2>1
    <2>2. CASE ~g.lost /\ p = <<>>
      BY <1>1, <1>3, <1>4, <2>2 DEF Tells
    <2> QED BY <2>1, <2>2
  <1>7. Talks(<<Id>>, h, st)
    BY <1>1, <1>3, <1>4, <1>5, <1>6
  <1> QED BY <1>7 DEF h

\* RTS falls: what was queued is lost, and no ID is due any more.
LEMMA RtsFallsKeeps == KeyboardIInv /\ RtsFalls => KeyboardIInv'
  <1> SUFFICES ASSUME KeyboardIInv, RtsFalls PROVE KeyboardIInv'
    OBVIOUS
  <1>1. CASE attached
    <2>1. /\ pending' = <<>> /\ tx' = None /\ rtsLow' = 0 /\ attached' = attached /\ rts' = FALSE
          /\ guest' = [guest EXCEPT !.lost = @ \/ pending # <<>>, !.owed = FALSE]
          /\ UNCHANGED <<powerOn, idPending, pressedKeys, modifiers>>
      BY <1>1 DEF RtsFalls
    <2>2. /\ guest \in Guest /\ guest.packet[1] = guest.packet[2]
          /\ guest.lost \/ Tells(pending, guest, Says)
      BY DEF KeyboardIInv, Talks
    <2>3. (guest.lost \/ pending # <<>>) \in BOOLEAN
      BY Zenon
    <2>4. /\ guest' \in Guest /\ guest'.owed = FALSE /\ guest'.lost = (guest.lost \/ pending # <<>>)
          /\ guest'.packet = guest.packet
      BY <2>1, <2>2, <2>3 DEF Guest
    <2>5. guest'.lost \/ Tells(<<>>, guest', Says)
      <3>1. CASE guest.lost \/ pending # <<>>
        BY <2>4, <3>1
      <3>2. CASE ~guest.lost /\ pending = <<>>
        BY <2>2, <2>4, <3>2 DEF Tells
      <3> QED BY <3>1, <3>2
    <2>6. Says' = Says
      BY <2>1 DEF Says
    <2>7. InStep(<<>>, guest') /\ OwesId(<<>>, guest') /\ <<>> \in Seq(KeyByte)
      BY <2>4 DEF InStep, OwesId
    <2>8. Talks(pending', guest', Says')
      BY <2>1, <2>2, <2>4, <2>5, <2>6, <2>7 DEF Talks
    <2>9. KeyboardTypeOK'
      BY <2>1, <2>7, Bounds DEF KeyboardIInv, KeyboardTypeOK, KeyByte
    <2> QED BY <2>1, <2>4, <2>8, <2>9 DEF KeyboardIInv, SendingIsDriven
  <1>2. CASE ~attached
    <2>1. UNCHANGED <<attached, pending, tx, rtsLow, guest, powerOn, idPending, pressedKeys, modifiers>> /\ rts' = FALSE
      BY <1>2 DEF RtsFalls
    <2>2. tx = None
      BY <1>2 DEF KeyboardIInv, SendingIsDriven
    <2>3. Talks(pending', guest', Says')
      BY <2>1 DEF KeyboardIInv, Says
    <2>4. KeyboardTypeOK'
      BY <2>1 DEF KeyboardIInv, KeyboardTypeOK
    <2> QED BY <2>1, <2>2, <2>3, <2>4 DEF KeyboardIInv, SendingIsDriven
  <1> QED BY <1>1, <1>2

\* RTS rises: the ID that waited for it, or the answer to a recognition.
LEMMA RtsRisesKeeps == KeyboardIInv /\ RtsRises => KeyboardIInv'
  <1> SUFFICES ASSUME KeyboardIInv, RtsRises PROVE KeyboardIInv'
    OBVIOUS
  <1>1. /\ rts = FALSE /\ rts' = TRUE /\ UNCHANGED <<attached, rtsLow, pressedKeys, modifiers>>
        /\ Says' = Says
    BY DEF RtsRises, Says, KeyboardIInv, KeyboardTypeOK
  <1>2. tx = None
    BY <1>1 DEF KeyboardIInv, SendingIsDriven
  <1>3. ASSUME NEW delay \in {Character, BitTime + Character}, QueueIdentification(delay),
               attached = TRUE, idPending' \in BOOLEAN, powerOn' \in {powerOn, None}
        PROVE  KeyboardIInv'
    <2>1. Talks(pending, guest, Says)
      BY DEF KeyboardIInv
    <2>2. /\ pending' = <<Id>> /\ tx' = delay
          /\ guest' = [guest EXCEPT !.owed = TRUE, !.lost = @ \/ pending # <<>>]
      BY <1>3 DEF QueueIdentification
    <2>3. Talks(<<Id>>, guest', Says)
      BY <2>1, <2>2, IdentificationTalks
    <2>4. delay \in 1..(BitTime + Character) /\ delay # None
      BY KeyboardAssumption DEF None
    <2>5. <<Id>> \in Seq(KeyByte) /\ <<Id>> # <<>>
      BY ByteTyped
    <2>6. KeyboardTypeOK'
      BY <1>1, <1>3, <2>2, <2>4, <2>5, Bounds DEF KeyboardIInv, KeyboardTypeOK, KeyByte
    <2> QED BY <1>1, <1>3, <2>2, <2>3, <2>4, <2>5, <2>6 DEF KeyboardIInv, SendingIsDriven
  <1>4. CASE attached /\ idPending
    <2>1. idPending' = FALSE /\ QueueIdentification(Character) /\ powerOn' = powerOn /\ attached = TRUE
      BY <1>4 DEF RtsRises, KeyboardIInv, KeyboardTypeOK
    <2> QED BY <1>3, <2>1
  <1>5. CASE attached /\ ~idPending /\ rtsLow >= Recognition
    <2>1. idPending' = FALSE /\ QueueIdentification(BitTime + Character) /\ powerOn' = None /\ attached = TRUE
      BY <1>5 DEF RtsRises, KeyboardIInv, KeyboardTypeOK
    <2> QED BY <1>3, <2>1
  <1>6. CASE ~(attached /\ idPending) /\ ~(attached /\ ~idPending /\ rtsLow >= Recognition)
    <2>1. UNCHANGED <<idPending, powerOn, pending, tx, guest>>
      BY <1>6 DEF RtsRises
    <2>2. Talks(pending', guest', Says')
      BY <1>1, <2>1 DEF KeyboardIInv
    <2>3. KeyboardTypeOK'
      BY <1>1, <2>1 DEF KeyboardIInv, KeyboardTypeOK
    <2> QED BY <1>1, <1>2, <2>1, <2>2, <2>3 DEF KeyboardIInv, SendingIsDriven
  <1> QED BY <1>4, <1>5, <1>6

\* Two more bytes.
LEMMA TwoMore ==
  ASSUME NEW S, NEW p \in Seq(S), NEW x \in S, NEW y \in S
  PROVE  /\ p \o <<x, y>> \in Seq(S) /\ Len(p \o <<x, y>>) = Len(p) + 2 /\ Len(p) \in Nat
         /\ \A i \in 1..Len(p) : (p \o <<x, y>>)[i] = p[i]
         /\ (p \o <<x, y>>)[Len(p) + 1] = x /\ (p \o <<x, y>>)[Len(p) + 2] = y
  OBVIOUS

\* A packet behind what is queued tells the guest everything.
LEMMA PacketTalks ==
  ASSUME NEW p, NEW g, NEW old, Talks(p, g, old), NEW st \in State
  PROVE  Talks(p \o <<Part("first", st), Part("second", st)>>, [g EXCEPT !.lost = FALSE], st)
  <1> DEFINE n == Len(p)
             q == p \o <<Part("first", st), Part("second", st)>>
             h == [g EXCEPT !.lost = FALSE]
  <1>1. /\ p \in Seq(KeyByte) /\ g \in Guest /\ InStep(p, g) /\ g.packet[1] = g.packet[2] /\ OwesId(p, g)
    BY DEF Talks
  <1>2. /\ n \in Nat /\ q \in Seq(KeyByte) /\ Len(q) = n + 2 /\ \A i \in 1..n : q[i] = p[i]
        /\ q[n + 1] = Part("first", st) /\ q[n + 2] = Part("second", st)
    <2>1. p \in Seq(KeyByte) /\ Part("first", st) \in KeyByte /\ Part("second", st) \in KeyByte
      BY <1>1, ByteTyped
    <2> QED BY <2>1, TwoMore
  <1>3. h \in Guest /\ h.half = g.half /\ h.packet = g.packet /\ h.owed = g.owed
    BY <1>1 DEF Guest
  <1> HIDE DEF n, q, h
  <1>4. /\ q[n + 1].kind = "first" /\ q[n + 1].of = st
        /\ q[n + 2].kind = "second" /\ q[n + 2].of = st
    BY <1>2 DEF Part
  <1>5. InStep(q, h)
    <2> SUFFICES ASSUME NEW i \in 1..Len(q)
                 PROVE  /\ q[i].kind = "id" => i = 1
                        /\ q[i].kind = "first" => i < Len(q) /\ q[i + 1].kind = "second" /\ q[i + 1].of = q[i].of
                        /\ q[i].kind = "second" =>
                             IF i = 1 THEN h.half = q[1].of ELSE q[i - 1].kind = "first" /\ q[i - 1].of = q[i].of
      BY DEF InStep
    <2>1. CASE i \in 1..n
      <3>1. /\ p[i].kind = "id" => i = 1
            /\ p[i].kind = "first" => i < n /\ p[i + 1].kind = "second" /\ p[i + 1].of = p[i].of
            /\ p[i].kind = "second" =>
                 IF i = 1 THEN g.half = p[1].of ELSE p[i - 1].kind = "first" /\ p[i - 1].of = p[i].of
        BY <1>1, <2>1 DEF InStep, n
      <3>2. q[i] = p[i] /\ (i < n => i + 1 \in 1..n) /\ (i # 1 => i - 1 \in 1..n) /\ i < n + 2
        BY <1>2, <2>1
      <3>3. (i < n => q[i + 1] = p[i + 1]) /\ (i # 1 => q[i - 1] = p[i - 1])
        BY <1>2, <3>2
      <3> QED BY <1>2, <1>3, <3>1, <3>2, <3>3
    <2>2. CASE i = n + 1
      <3>1. q[i].kind = "first" /\ i + 1 = n + 2 /\ i < Len(q)
        BY <1>2, <1>4, <2>2
      <3> QED BY <1>4, <2>2, <3>1
    <2>3. CASE i = n + 2
      <3>1. q[i].kind = "second" /\ i # 1 /\ i - 1 = n + 1
        BY <1>2, <1>4, <2>3
      <3> QED BY <1>4, <2>3, <3>1
    <2> QED BY <1>2, <2>1, <2>2, <2>3
  <1>6. OwesId(q, h)
    <2>1. g.owed => p # <<>> /\ p[1] = Id
      BY <1>1 DEF OwesId
    <2>2. p # <<>> => 1 \in 1..n
      BY <1>1 DEF n
    <2>3. q # <<>>
      BY <1>2
    <2> QED BY <1>2, <1>3, <2>1, <2>2, <2>3 DEF OwesId
  <1>7. Tells(q, h, st)
    BY <1>2, <1>4 DEF Tells
  <1>8. Talks(q, h, st)
    BY <1>1, <1>2, <1>3, <1>5, <1>6, <1>7 DEF Talks
  <1> QED BY <1>8 DEF q, h

\* A packet is queued, and sent if it is the first thing while RTS is up.
LEMMA QueueKeeps ==
  ASSUME KeyboardIInv, attached = TRUE, NEW st \in State, QueueStatePacket(st), st = Says',
         pressedKeys' \in Seq(Key), modifiers' \in Modifier,
         UNCHANGED <<attached, rts, rtsLow, powerOn, idPending>>
  PROVE  KeyboardIInv'
  <1>1. /\ pending' = pending \o <<Part("first", st), Part("second", st)>>
        /\ tx' = (IF rts /\ tx = None THEN Character ELSE tx)
        /\ guest' = [guest EXCEPT !.lost = FALSE]
    BY DEF QueueStatePacket
  <1>2. Talks(pending, guest, Says)
    BY DEF KeyboardIInv
  <1>3. Talks(pending \o <<Part("first", st), Part("second", st)>>, [guest EXCEPT !.lost = FALSE], st)
    BY <1>2, PacketTalks
  <1>4. Talks(pending', guest', Says')
    BY <1>1, <1>3
  <1>5. pending' \in Seq(KeyByte) /\ pending' # <<>>
    <2>1. pending \in Seq(KeyByte)
      BY <1>2 DEF Talks
    <2>2. <<Part("first", st), Part("second", st)>> \in Seq(KeyByte)
      BY ByteTyped
    <2> QED BY <1>1, <2>1, <2>2
  <1>6. /\ tx \in -1..(BitTime + Character) /\ rts \in BOOLEAN
        /\ tx # None => rts = TRUE /\ tx > 0
    BY DEF KeyboardIInv, KeyboardTypeOK, SendingIsDriven
  <1>7. tx' \in -1..(BitTime + Character) /\ (tx' # None => rts = TRUE /\ tx' > 0) /\ (tx # None => tx' # None)
    <2>1. CASE rts /\ tx = None
      BY <1>1, <1>6, <2>1, Bounds
    <2>2. CASE ~(rts /\ tx = None)
      <3>1. tx' = tx
        BY <1>1, <2>2
      <3> QED BY <1>6, <3>1
    <2> QED BY <2>1, <2>2
  <1>8. KeyboardTypeOK'
    BY <1>5, <1>7 DEF KeyboardIInv, KeyboardTypeOK, KeyByte
  <1>9. guest.owed => tx # None
    BY DEF KeyboardIInv
  <1>10. guest'.owed = guest.owed
    BY <1>1, <1>2 DEF Talks, Guest
  <1>11. SendingIsDriven'
    BY <1>5, <1>7 DEF SendingIsDriven
  <1> QED BY <1>4, <1>7, <1>8, <1>9, <1>10, <1>11 DEF KeyboardIInv

\* A key goes down or up.
LEMMA SetKeyKeeps ==
  ASSUME KeyboardIInv, NEW code \in Key, NEW down \in BOOLEAN, NEW mods \in Modifier, SetKey(code, down, mods)
  PROVE  KeyboardIInv'
  <1>1. pressedKeys \in Seq(Key) /\ attached \in BOOLEAN
    BY DEF KeyboardIInv, KeyboardTypeOK
  <1>2. Without(pressedKeys, code) \in Seq(Key)
    BY <1>1, WithoutTyped
  <1>3. /\ pressedKeys' = (IF down THEN Append(Without(pressedKeys, code), code) ELSE Without(pressedKeys, code))
        /\ modifiers' = mods /\ QueueStatePacket(StateOf(pressedKeys', mods)) /\ attached = TRUE
        /\ UNCHANGED <<attached, rts, rtsLow, powerOn, idPending>>
    BY <1>1 DEF SetKey
  <1>4. pressedKeys' \in Seq(Key)
    BY <1>2, <1>3
  <1>5. StateOf(pressedKeys', mods) \in State /\ StateOf(pressedKeys', mods) = Says'
    BY <1>3, <1>4, StateTyped DEF Says
  <1> QED BY <1>3, <1>4, <1>5, QueueKeeps

\* The modifiers change.
LEMMA SetModifiersKeeps ==
  ASSUME KeyboardIInv, NEW mods \in Modifier, SetModifiers(mods)
  PROVE  KeyboardIInv'
  <1>1. pressedKeys \in Seq(Key) /\ attached \in BOOLEAN
    BY DEF KeyboardIInv, KeyboardTypeOK
  <1>2. /\ pressedKeys' = pressedKeys /\ modifiers' = mods
        /\ QueueStatePacket(StateOf(pressedKeys, mods)) /\ attached = TRUE
        /\ UNCHANGED <<attached, rts, rtsLow, powerOn, idPending>>
    BY <1>1 DEF SetModifiers
  <1>3. StateOf(pressedKeys, mods) \in State /\ StateOf(pressedKeys, mods) = Says'
    BY <1>1, <1>2, StateTyped DEF Says
  <1> QED BY <1>1, <1>2, <1>3, QueueKeeps

\* Time passes: bytes arrive, RTS has been low for longer, power on is over.
LEMMA KeyboardTickKeeps ==
  ASSUME KeyboardIInv, NEW ticks \in 1..MaxTicks, KeyboardTick(ticks)
  PROVE  KeyboardIInv'
  <1>1. /\ KeyboardTypeOK /\ Talks(pending, guest, Says) /\ (guest.owed => tx # None) /\ SendingIsDriven
    BY DEF KeyboardIInv
  <1>2. /\ attached /\ UNCHANGED <<attached, rts, pressedKeys, modifiers>>
        /\ powerOn' = (IF powerOn = None \/ PowerOnIsDue(ticks) THEN None ELSE powerOn - ticks)
        /\ idPending' = (idPending \/ (PowerOnIsDue(ticks) /\ ~rts))
    BY DEF KeyboardTick
  <1>3. ticks \in Nat /\ ticks >= 1
    BY KeyboardAssumption
  <1>4. powerOn' \in -1..PowerOn
    BY <1>1, <1>2, <1>3, Bounds DEF KeyboardTypeOK, PowerOnIsDue, None
  <1>5. idPending' \in BOOLEAN
    BY <1>2, Zenon
  <1>6. Says' = Says
    BY <1>2 DEF Says
  <1>7. CASE rts
    <2> DEFINE g == IF PowerOnIsDue(ticks) THEN Parse(guest, Id) ELSE guest
               s == Sending(ticks, g)
    <2>1. tx' = s.tx /\ pending' = s.pending /\ guest' = s.guest /\ rtsLow' = rtsLow
      BY <1>7 DEF KeyboardTick
    <2>2. Talks(pending, g, Says) /\ (g.owed => tx # None)
      BY <1>1, IdOutOfTurn
    <2>3. tx \in -1..(BitTime + Character)
      BY <1>1 DEF KeyboardTypeOK
    <2> HIDE DEF g
    <2>4. /\ Talks(s.pending, s.guest, Says) /\ (s.guest.owed => s.tx # None)
          /\ s.tx = None \/ (s.tx \in 1..(BitTime + Character) /\ s.pending # <<>>)
      BY <1>1, <1>3, <2>2, <2>3, SendingKeeps
    <2> HIDE DEF s
    <2>5. pending' \in Seq(KeyByte) /\ tx' \in -1..(BitTime + Character)
      BY <2>1, <2>4, Bounds DEF Talks
    <2>6. KeyboardTypeOK'
      BY <1>1, <1>2, <1>4, <1>5, <2>1, <2>5 DEF KeyboardTypeOK, KeyByte
    <2>7. SendingIsDriven'
      BY <1>2, <1>7, <2>1, <2>4, Bounds DEF SendingIsDriven
    <2> QED BY <1>6, <2>1, <2>4, <2>6, <2>7 DEF KeyboardIInv
  <1>8. CASE ~rts
    <2>1. /\ UNCHANGED <<tx, pending, guest>>
          /\ rtsLow' = (IF rtsLow + ticks > Recognition THEN Recognition ELSE rtsLow + ticks)
      BY <1>8 DEF KeyboardTick
    <2>2. rtsLow' \in 0..Recognition
      BY <1>1, <1>3, <2>1, KeyboardAssumption DEF KeyboardTypeOK
    <2>3. KeyboardTypeOK'
      BY <1>1, <1>2, <1>4, <1>5, <2>1, <2>2 DEF KeyboardTypeOK
    <2>4. Talks(pending', guest', Says') /\ (guest'.owed => tx' # None)
      BY <1>1, <1>6, <2>1
    <2>5. SendingIsDriven'
      BY <1>1, <1>2, <2>1 DEF SendingIsDriven
    <2> QED BY <2>3, <2>4, <2>5 DEF KeyboardIInv
  <1> QED BY <1>7, <1>8

\* Every step keeps the strengthened invariant.
LEMMA KeyboardStepKeeps == KeyboardIInv /\ [KeyboardNext]_keyboardVars => KeyboardIInv'
  <1> SUFFICES ASSUME KeyboardIInv, [KeyboardNext]_keyboardVars PROVE KeyboardIInv'
    OBVIOUS
  <1>1. ASSUME NEW yes \in BOOLEAN, SetAttached(yes) PROVE KeyboardIInv'
    <2>1. ResetSerialState /\ attached' \in BOOLEAN /\ powerOn' \in {None, PowerOn}
      BY <1>1 DEF SetAttached
    <2> QED BY <2>1, KeyboardResetKeeps
  <1>2. CASE ResetKeyboard
    <2>1. ResetSerialState /\ attached' \in BOOLEAN /\ powerOn' \in {None, PowerOn}
      BY <1>2 DEF ResetKeyboard, KeyboardIInv, KeyboardTypeOK
    <2> QED BY <2>1, KeyboardResetKeeps
  <1>3. CASE RtsFalls
    BY <1>3, RtsFallsKeeps
  <1>4. CASE RtsRises
    BY <1>4, RtsRisesKeeps
  <1>5. ASSUME NEW code \in Key, NEW down \in BOOLEAN, NEW mods \in Modifier, SetKey(code, down, mods)
        PROVE  KeyboardIInv'
    BY <1>5, SetKeyKeeps
  <1>6. ASSUME NEW mods \in Modifier, SetModifiers(mods) PROVE KeyboardIInv'
    BY <1>6, SetModifiersKeeps
  <1>7. ASSUME NEW ticks \in 1..MaxTicks, KeyboardTick(ticks) PROVE KeyboardIInv'
    BY <1>7, KeyboardTickKeeps
  <1>8. CASE UNCHANGED keyboardVars
    BY <1>8 DEF keyboardVars, KeyboardIInv, KeyboardTypeOK, Talks, Says, SendingIsDriven
  <1> QED BY <1>1, <1>2, <1>3, <1>4, <1>5, <1>6, <1>7, <1>8 DEF KeyboardNext

\* The strengthened invariant is what it takes.
LEMMA KeyboardIInvImplies == KeyboardIInv => KeyboardInv
  <1> SUFFICES ASSUME KeyboardIInv PROVE KeyboardInv
    OBVIOUS
  <1>1. /\ KeyboardTypeOK /\ SendingIsDriven /\ Talks(pending, guest, Says) /\ (guest.owed => tx # None)
    BY DEF KeyboardIInv
  <1>2. PacketsWhole
    BY <1>1 DEF PacketsWhole, Talks
  <1>3. GuestKnowsTheKeys
    BY <1>1 DEF GuestKnowsTheKeys, Talks, Tells, Says
  <1>4. IdComesFirst
    <2>1. pending \in Seq(KeyByte) /\ (guest.owed => pending # <<>> /\ pending[1] = Id)
      BY <1>1 DEF Talks, OwesId
    <2>2. pending # <<>> => Head(pending) = pending[1]
      BY <2>1
    <2> QED BY <1>1, <2>1, <2>2 DEF IdComesFirst, SendingIsDriven
  <1> QED BY <1>1, <1>2, <1>3, <1>4 DEF KeyboardInv

\* The K-mode keyboard, for every set of keys, every timing and every way RTS
\* moves (keyboard.rs): the two bytes the guest puts together are of one
\* packet, a keyboard with nothing left to send has told the guest the keys as
\* they are unless RTS or a recognition took the packet away, an ID that is
\* due is the next byte and on its way, and bytes are only sent while RTS is up.
THEOREM KeyboardInvariant == KeyboardSpec => []KeyboardInv
  <1>1. KeyboardIInv /\ [KeyboardNext]_keyboardVars => KeyboardIInv'
    BY KeyboardStepKeeps
  <1> QED BY <1>1, KeyboardInitKeeps, KeyboardIInvImplies, PTL DEF KeyboardSpec

-----------------------------------------------------------------------------
(* The video controller.                                                   *)

\* The registers, whoever writes them.
RegistersOK(m) ==
    /\ DOMAIN m = McdFields
    /\ m.dcr \in [Path -> Bits] /\ m.pa \in {0, 1}
    /\ m.vsr \in [Path -> PixelAddress] /\ m.dcp \in [Path -> PixelAddress] /\ m.dca \in [Path -> PixelAddress]
    /\ m.matte \in [MatteIndex -> Matte]
    /\ \A x \in 0..(Wide - 1) : m.spans[x].mf \in [Path -> BOOLEAN]
    /\ m.cursor \in Cursor
    /\ m.int = IntCause(m)

FieldType == [entry : {0, 1}, calm : BOOLEAN, steady : {0, 1}]

\* The first and the last line of the display file, and the slots that have been
\* fetched when line l is over.
Margin(m) == IF Masked(m) THEN MaskLines ELSE 0
FirstLine(m) == IcaLines + Margin(m)
LastLine(m) == TotalLines - 1 - Margin(m)
SlotsAt(m, l) ==
    IF l < FirstLine(m) THEN 1
    ELSE IF l < LastLine(m) THEN l - FirstLine(m) + 2 ELSE LastLine(m) - FirstLine(m) + 1

SlotsFetched ==
    \A p \in Path :
        (field.calm /\ DcaEnabled(mcd, p) /\ ~Linked(p)) =>
            mcd.dca[p] = (mcd.dcp[p] + Slot * SlotsAt(mcd, line)) % MemoryTop

\* The parity of the rows this field draws, and what it draws on line l.
Phase == IF line = TotalLines - 1 THEN 1 - mcd.pa ELSE mcd.pa
RowOf(l, ph) == 2 * (l - IcaLines) + ph
Drawn(m, l, ph) == IF DisplayFileLine(m, l) THEN 1 - ph ELSE Black

\* An interlaced field has drawn its rows down to this line, and the field
\* before it, if no one disturbed it either, all of the others.
RowsDrawn ==
    (field.calm /\ mcd.dcr[0].de /\ mcd.dcr[0].sm) =>
        /\ field.entry = 1 - Phase
        /\ \A l \in Active : l <= line => rows[RowOf(l, Phase)] = Drawn(mcd, l, Phase)
        /\ field.steady = 1 => \A l \in Active : rows[RowOf(l, 1 - Phase)] = Drawn(mcd, l, 1 - Phase)

\* The rest of the display.
DisplayType ==
    /\ line \in 0..(TotalLines - 1)
    /\ blink.active \in BOOLEAN /\ blink.time \in 0..(7 * BlinkUnit)
    /\ rows \in [Row -> {0, 1, Black, Undrawn}] /\ shown \in [Row -> {0, 1, Black, Undrawn}]
    /\ field \in FieldType /\ memory \in Image

Published == line = TotalLines - 1 => shown = rows

McdIInv == RegistersOK(mcd) /\ DisplayType /\ SlotsFetched /\ RowsDrawn /\ Published

-----------------------------------------------------------------------------
\* The numbers of the geometry.
LEMMA Geometry ==
  /\ IcaLines \in Nat /\ TotalLines \in Nat /\ MaskLines \in Nat /\ Slot \in Nat /\ IcaMax \in Nat
  /\ MemoryTop \in Nat /\ Wide \in Nat /\ Narrow \in Nat /\ BlinkUnit \in Nat
  /\ 0 < IcaLines /\ IcaLines + 2 * MaskLines < TotalLines
  /\ 1 < Slot /\ 1 < MemoryTop /\ Narrow <= Wide /\ 0 < BlinkUnit
  BY GeometryAssumption

\* What the programs leave as it is, and what most commands leave too.
Leaves(m, n) ==
    n.di = m.di /\ n.st = m.st /\ n.da = m.da /\ n.pa = m.pa /\ n.dcr = m.dcr
KeepsPointers(m, n) == n.dcp = m.dcp /\ n.dca = m.dca

\* The cause of the interrupt is that of the status and the masks.
LEMMA CauseOf ==
  ASSUME NEW m, NEW n, n.it = m.it, n.di = m.di PROVE IntCause(n) = IntCause(m)
  BY Zenon DEF IntCause

\* An interrupt sets the status of a path, and the pin follows.
LEMMA RaiseItKeeps ==
  ASSUME NEW m, RegistersOK(m), NEW p \in Path
  PROVE  LET n == RaiseIt(m, p) IN RegistersOK(n) /\ Leaves(m, n) /\ KeepsPointers(m, n)
  <1> DEFINE k == [m EXCEPT !.it[p] = TRUE]
             n == [k EXCEPT !.int = IntCause(k)]
  <1>1. RaiseIt(m, p) = n
    BY DEF RaiseIt, RefreshIntLine
  <1>2. DOMAIN m = McdFields
    BY DEF RegistersOK
  <1>3. /\ DOMAIN k = McdFields /\ \A f \in McdFields \ {"it"} : k[f] = m[f]
    BY <1>2
  <1> HIDE DEF k
  <1>4. DOMAIN n = McdFields /\ (\A f \in McdFields \ {"int"} : n[f] = k[f]) /\ n.int = IntCause(k)
    BY <1>3 DEF McdFields
  <1> HIDE DEF n
  <1>5. n.it = k.it /\ n.di = k.di
    BY <1>4 DEF McdFields
  <1>6. n.int = IntCause(n)
    BY <1>4, <1>5, CauseOf
  <1>7. \A f \in McdFields \ {"it", "int"} : n[f] = m[f]
    BY <1>3, <1>4
  <1>8. /\ n.di = m.di /\ n.st = m.st /\ n.da = m.da /\ n.pa = m.pa /\ n.dcr = m.dcr /\ n.vsr = m.vsr
        /\ n.dcp = m.dcp /\ n.dca = m.dca /\ n.matte = m.matte /\ n.spans = m.spans /\ n.cursor = m.cursor
    BY <1>7 DEF McdFields
  <1> QED BY <1>1, <1>4, <1>6, <1>8 DEF RegistersOK, Leaves, KeepsPointers

-----------------------------------------------------------------------------
(* Mattes.                                                                 *)

\* What the scan of a line knows.
ScanOK(s) ==
    /\ s = [at |-> s.at, wf |-> s.wf, mf |-> s.mf]
    /\ s.at \in [Path -> 0..8] /\ s.mf \in [Path -> BOOLEAN]

\* A control is one of the list, and sets a flag of one plane.
LEMMA ApplyKeeps ==
  ASSUME NEW s, ScanOK(s), NEW nm, NEW matte \in [MatteIndex -> Matte], NEW x, NEW k \in Path
  PROVE  ScanOK(Apply(s, nm, matte, x, k))
  <1>1. CASE ~Matched(s, nm, matte, x, k)
    BY <1>1 DEF Apply
  <1>2. CASE Matched(s, nm, matte, x, k)
    <2> DEFINE c == matte[s.at[k]]
               flag == IF nm THEN k ELSE c.mf
               plane == (c.op \div 2) % 2
               t == [at |-> [s.at EXCEPT ![k] = IF c.op = 0 THEN 8 ELSE @ + 1],
                     wf |-> IF c.op \in {4, 6} \cup 12..15 THEN [s.wf EXCEPT ![plane] = c.wf] ELSE s.wf,
                     mf |-> IF c.op \in {8, 9} \cup 12..15 THEN [s.mf EXCEPT ![flag] = c.op % 2 = 1]
                            ELSE s.mf]
    <2>1. Apply(s, nm, matte, x, k) = t
      BY <1>2 DEF Apply
    <2>2. s.at \in [Path -> 0..8] /\ s.mf \in [Path -> BOOLEAN]
      BY DEF ScanOK
    <2>3. s.at[k] \in 0..8 /\ s.at[k] < ListEnd(nm, k) /\ ListEnd(nm, k) <= 8
      BY <1>2, <2>2 DEF Matched, ListEnd, Path
    <2>4. s.at[k] \in MatteIndex
      BY <2>3 DEF MatteIndex, ListEnd, Path
    <2>5. c \in Matte
      BY <2>4
    <2>6. flag \in Path
      BY <2>5 DEF Matte
    <2>7. (c.op % 2 = 1) \in BOOLEAN
      BY Zenon
    <2> HIDE DEF c, flag, plane
    <2>8. t.at \in [Path -> 0..8]
      BY <2>2, <2>4 DEF MatteIndex
    <2>9. t.mf \in [Path -> BOOLEAN]
      BY <2>2, <2>6, <2>7
    <2>10. t = [at |-> t.at, wf |-> t.wf, mf |-> t.mf]
      OBVIOUS
    <2>11. ScanOK(t)
      BY <2>8, <2>9, <2>10 DEF ScanOK
    <2> QED BY <2>1, <2>11
  <1> QED BY <1>1, <1>2

\* The scan of a line, from its left end to its right one.
LEMMA ExpandTyped ==
  ASSUME NEW m, m.matte \in [MatteIndex -> Matte]
  PROVE  \A x \in 0..(Width(m) - 1) : Expand(m)[x].mf \in [Path -> BOOLEAN]
  <1> DEFINE W == Width(m)
             start == [at |-> [k \in Path |-> 4 * k], wf |-> m.weight, mf |-> [f \in Path |-> FALSE]]
             next(s, x) == Apply(Apply(s, m.nm, m.matte, x, 0), m.nm, m.matte, x, 1)
             scan == CHOOSE f : f = [x \in -1..(W - 1) |-> IF x < 0 THEN start ELSE next(f[x - 1], x)]
  <1>1. Expand(m) = [x \in 0..(W - 1) |-> [wf |-> scan[x].wf, mf |-> scan[x].mf]]
    BY DEF Expand
  <1>2. W \in Nat
    BY Geometry DEF Width
  <1>3. ScanOK(start)
    BY DEF ScanOK, Path
  <1>4. ASSUME NEW s, ScanOK(s), NEW x PROVE ScanOK(next(s, x))
    <2>1. ScanOK(Apply(s, m.nm, m.matte, x, 0))
      BY <1>4, ApplyKeeps DEF Path
    <2> QED BY <2>1, ApplyKeeps DEF Path
  <1> HIDE DEF W, start, next
  <1>5. scan = [x \in -1..(W - 1) |-> IF x < 0 THEN start ELSE next(scan[x - 1], x)]
    <2> DEFINE T == {k \in Nat : \E f : f = [x \in -1..(k - 1) |-> IF x < 0 THEN start ELSE next(f[x - 1], x)]}
    <2> HIDE DEF scan
    <2>1. 0 \in T
      <3> DEFINE f == [x \in -1..(0 - 1) |-> start]
      <3>1. f = [x \in -1..(0 - 1) |-> IF x < 0 THEN start ELSE next(f[x - 1], x)]
        OBVIOUS
      <3> QED BY <3>1
    <2>2. ASSUME NEW k \in Nat, k \in T PROVE k + 1 \in T
      <3>1. PICK e : e = [x \in -1..(k - 1) |-> IF x < 0 THEN start ELSE next(e[x - 1], x)]
        BY <2>2
      <3> DEFINE h == [x \in -1..((k + 1) - 1) |-> IF x = k THEN next(e[k - 1], x) ELSE e[x]]
      <3>2. ASSUME NEW x \in -1..((k + 1) - 1) PROVE h[x] = IF x < 0 THEN start ELSE next(h[x - 1], x)
        BY <3>1
      <3>3. h = [x \in -1..((k + 1) - 1) |-> IF x < 0 THEN start ELSE next(h[x - 1], x)]
        BY <3>2
      <3>4. \E f : f = [x \in -1..((k + 1) - 1) |-> IF x < 0 THEN start ELSE next(f[x - 1], x)]
        BY <3>3
      <3> HIDE DEF h
      <3> QED BY <3>4
    <2>3. W \in T
      <3> HIDE DEF T
      <3> QED BY <1>2, <2>1, <2>2, Induct
    <2> QED BY <2>3 DEF scan
  <1> HIDE DEF scan
  <1> DEFINE S == {k \in Nat : k <= W => ScanOK(scan[k - 1])}
  <1>6. 0 \in S
    <2>1. -1 \in -1..(W - 1) /\ 0 - 1 = -1
      BY <1>2
    <2>2. scan[-1] = start
      BY <1>5, <2>1
    <2> QED BY <1>3, <2>1, <2>2
  <1>7. ASSUME NEW k \in Nat, k \in S PROVE k + 1 \in S
    <2> SUFFICES ASSUME k + 1 <= W PROVE ScanOK(scan[k])
      BY <1>2
    <2>1. k \in -1..(W - 1) /\ ~(k < 0) /\ k <= W
      BY <1>2
    <2>2. scan[k] = next(scan[k - 1], k)
      BY <1>5, <2>1
    <2> QED BY <1>4, <1>7, <2>1, <2>2
  <1>8. Nat \subseteq S
    <2> HIDE DEF S
    <2> QED BY <1>6, <1>7, Induct
  <1>9. ASSUME NEW x \in 0..(W - 1) PROVE scan[x].mf \in [Path -> BOOLEAN]
    <2>1. x + 1 \in Nat /\ x + 1 <= W /\ (x + 1) - 1 = x
      BY <1>2
    <2>2. ScanOK(scan[x])
      BY <1>8, <2>1
    <2> QED BY <2>2 DEF ScanOK
  <1> QED BY <1>1, <1>9 DEF W

\* New matte arrays: the spans are flags at every x.
LEMMA UpdateMatteKeeps ==
  ASSUME NEW m, RegistersOK(m)
  PROVE  LET n == UpdateMatteArrays(m) IN RegistersOK(n) /\ Leaves(m, n) /\ KeepsPointers(m, n)
  <1> DEFINE new == Expand(m)
             spans == [x \in 0..(Wide - 1) |-> IF x < Width(m) THEN new[x] ELSE m.spans[x]]
             n == [m EXCEPT !.spans = spans]
  <1>1. UpdateMatteArrays(m) = n
    BY DEF UpdateMatteArrays
  <1>2. Width(m) \in Nat /\ Wide \in Nat
    BY Geometry DEF Width
  <1>3. \A x \in 0..(Width(m) - 1) : new[x].mf \in [Path -> BOOLEAN]
    BY ExpandTyped DEF RegistersOK
  <1>4. \A x \in 0..(Wide - 1) : m.spans[x].mf \in [Path -> BOOLEAN]
    BY DEF RegistersOK
  <1> HIDE DEF new
  <1>5. ASSUME NEW x \in 0..(Wide - 1) PROVE spans[x].mf \in [Path -> BOOLEAN]
    <2>1. CASE x < Width(m)
      <3>1. x \in 0..(Width(m) - 1) /\ spans[x] = new[x]
        BY <1>2, <2>1
      <3> QED BY <1>3, <3>1
    <2>2. CASE ~(x < Width(m))
      BY <1>4, <2>2
    <2> QED BY <2>1, <2>2
  <1> HIDE DEF spans
  <1>6. DOMAIN m = McdFields
    BY DEF RegistersOK
  <1>7. DOMAIN n = McdFields /\ (\A f \in McdFields \ {"spans"} : n[f] = m[f]) /\ n.spans = spans
    BY <1>6 DEF McdFields
  <1> HIDE DEF n
  <1>8. /\ n.di = m.di /\ n.st = m.st /\ n.da = m.da /\ n.pa = m.pa /\ n.dcr = m.dcr /\ n.vsr = m.vsr
        /\ n.dcp = m.dcp /\ n.dca = m.dca /\ n.matte = m.matte /\ n.cursor = m.cursor
        /\ n.int = m.int /\ n.it = m.it
    BY <1>7 DEF McdFields
  <1>9. IntCause(n) = IntCause(m)
    BY <1>8, CauseOf
  <1> QED BY <1>1, <1>5, <1>7, <1>8, <1>9 DEF RegistersOK, Leaves, KeepsPointers

\* A register none of this is about, and those that are.
LEMMA PlainField ==
  ASSUME NEW m, RegistersOK(m), NEW f \in {"nm", "mode", "hidden", "weight", "cm", "ddr"}, NEW v
  PROVE  LET n == [m EXCEPT ![f] = v] IN RegistersOK(n) /\ Leaves(m, n) /\ KeepsPointers(m, n)
  <1> DEFINE n == [m EXCEPT ![f] = v]
  <1>1. DOMAIN m = McdFields
    BY DEF RegistersOK
  <1>2. DOMAIN n = McdFields /\ \A g \in McdFields \ {f} : n[g] = m[g]
    BY <1>1
  <1> HIDE DEF n
  <1>3. /\ n.di = m.di /\ n.st = m.st /\ n.da = m.da /\ n.pa = m.pa /\ n.dcr = m.dcr /\ n.vsr = m.vsr
        /\ n.dcp = m.dcp /\ n.dca = m.dca /\ n.matte = m.matte /\ n.cursor = m.cursor
        /\ n.int = m.int /\ n.it = m.it /\ n.spans = m.spans
    BY <1>2 DEF McdFields
  <1>4. IntCause(n) = IntCause(m)
    BY <1>3, CauseOf
  <1>5. RegistersOK(n) /\ Leaves(m, n) /\ KeepsPointers(m, n)
    BY <1>2, <1>3, <1>4 DEF RegistersOK, Leaves, KeepsPointers
  <1> QED BY <1>5 DEF n

\* The shape of the cursor.
LEMMA CursorField ==
  ASSUME NEW m, RegistersOK(m), NEW v \in Cursor
  PROVE  LET n == [m EXCEPT !.cursor = v] IN RegistersOK(n) /\ Leaves(m, n) /\ KeepsPointers(m, n)
  <1> DEFINE n == [m EXCEPT !.cursor = v]
  <1>1. DOMAIN m = McdFields
    BY DEF RegistersOK
  <1>2. DOMAIN n = McdFields /\ (\A g \in McdFields \ {"cursor"} : n[g] = m[g]) /\ n.cursor = v
    BY <1>1 DEF McdFields
  <1> HIDE DEF n
  <1>3. /\ n.di = m.di /\ n.st = m.st /\ n.da = m.da /\ n.pa = m.pa /\ n.dcr = m.dcr /\ n.vsr = m.vsr
        /\ n.dcp = m.dcp /\ n.dca = m.dca /\ n.matte = m.matte
        /\ n.int = m.int /\ n.it = m.it /\ n.spans = m.spans
    BY <1>2 DEF McdFields
  <1>4. IntCause(n) = IntCause(m)
    BY <1>3, CauseOf
  <1>5. RegistersOK(n) /\ Leaves(m, n) /\ KeepsPointers(m, n)
    BY <1>2, <1>3, <1>4 DEF RegistersOK, Leaves, KeepsPointers
  <1> QED BY <1>5 DEF n

\* A matte control.
LEMMA MatteField ==
  ASSUME NEW m, RegistersOK(m), NEW k \in MatteIndex, NEW v \in Matte
  PROVE  LET n == [m EXCEPT !.matte[k] = v] IN RegistersOK(n) /\ Leaves(m, n) /\ KeepsPointers(m, n)
  <1> DEFINE n == [m EXCEPT !.matte[k] = v]
  <1>1. DOMAIN m = McdFields
    BY DEF RegistersOK
  <1>2. /\ DOMAIN n = McdFields /\ \A g \in McdFields \ {"matte"} : n[g] = m[g]
        /\ n.matte = [m.matte EXCEPT ![k] = v]
    BY <1>1 DEF McdFields
  <1> HIDE DEF n
  <1>3. /\ n.di = m.di /\ n.st = m.st /\ n.da = m.da /\ n.pa = m.pa /\ n.dcr = m.dcr /\ n.vsr = m.vsr
        /\ n.dcp = m.dcp /\ n.dca = m.dca /\ n.cursor = m.cursor
        /\ n.int = m.int /\ n.it = m.it /\ n.spans = m.spans
    BY <1>2 DEF McdFields
  <1>4. IntCause(n) = IntCause(m)
    BY <1>3, CauseOf
  <1>5. n.matte \in [MatteIndex -> Matte]
    BY <1>2 DEF RegistersOK
  <1>6. RegistersOK(n) /\ Leaves(m, n) /\ KeepsPointers(m, n)
    BY <1>2, <1>3, <1>4, <1>5 DEF RegistersOK, Leaves, KeepsPointers
  <1> QED BY <1>6 DEF n

\* A pointer of one path.
LEMMA PointerField ==
  ASSUME NEW m, RegistersOK(m), NEW f \in {"vsr", "dcp", "dca"}, NEW v \in [Path -> PixelAddress]
  PROVE  LET n == [m EXCEPT ![f] = v] IN
         /\ RegistersOK(n) /\ Leaves(m, n) /\ n[f] = v
         /\ \A g \in {"vsr", "dcp", "dca"} \ {f} : n[g] = m[g]
  <1> DEFINE n == [m EXCEPT ![f] = v]
  <1>1. DOMAIN m = McdFields
    BY DEF RegistersOK
  <1>2. /\ DOMAIN n = McdFields /\ (\A g \in McdFields \ {f} : n[g] = m[g]) /\ n[f] = v
    BY <1>1 DEF McdFields
  <1> HIDE DEF n
  <1>3. /\ n.di = m.di /\ n.st = m.st /\ n.da = m.da /\ n.pa = m.pa /\ n.dcr = m.dcr
        /\ n.matte = m.matte /\ n.cursor = m.cursor
        /\ n.int = m.int /\ n.it = m.it /\ n.spans = m.spans
        /\ \A g \in {"vsr", "dcp", "dca"} \ {f} : n[g] = m[g]
    BY <1>2 DEF McdFields
  <1>4. IntCause(n) = IntCause(m)
    BY <1>3, CauseOf
  <1>5. n.vsr \in [Path -> PixelAddress] /\ n.dcp \in [Path -> PixelAddress] /\ n.dca \in [Path -> PixelAddress]
    <2>1. m.vsr \in [Path -> PixelAddress] /\ m.dcp \in [Path -> PixelAddress] /\ m.dca \in [Path -> PixelAddress]
      BY DEF RegistersOK
    <2> QED BY <1>2, <1>3, <2>1
  <1>6. RegistersOK(n) /\ Leaves(m, n)
    BY <1>2, <1>3, <1>4, <1>5 DEF RegistersOK, Leaves
  <1> QED BY <1>2, <1>3, <1>6 DEF n

-----------------------------------------------------------------------------
(* Control programs.                                                       *)

\* What commands are made of.
LEMMA CommandTyped ==
  ASSUME NEW c \in Command
  PROVE  /\ c.op \in {"nop", "interrupt", "stop", "reload dcp", "stop dcp", "4x", "5x", "params", "register"}
         /\ c.op \in {"reload dcp", "stop dcp", "4x", "5x"} => c.addr \in PixelAddress
         /\ c.op = "register" =>
               /\ c.reg \in {"icm", "transparency", "cursor", "weight", "matte"}
               /\ c.reg = "cursor" => c.cursor \in Cursor
               /\ c.reg = "matte" => c.index \in MatteIndex /\ c.control \in Matte
  BY DEF Command

\* What is fetched is a command.
LEMMA FetchTyped ==
  ASSUME memory \in Image, NEW p \in Path, NEW a
  PROVE  Fetch(p, a) \in Command
  BY ImageAssumption DEF Fetch, Command

\* The registers of run s are in order, and those of t follow from them.
Follows(s, t) ==
    /\ RegistersOK(t.m) /\ Leaves(s.m, t.m) /\ DOMAIN t = DOMAIN s

Edits(s, t) ==
    /\ Follows(s, t) /\ KeepsPointers(s.m, t.m)
    /\ \A f \in DOMAIN s \ {"m", "writes"} : t[f] = s[f]

\* Two changes of the registers one after the other.
LEMMA Twice ==
  ASSUME NEW m, NEW n, NEW k, Leaves(m, n), KeepsPointers(m, n), Leaves(n, k), KeepsPointers(n, k)
  PROVE  Leaves(m, k) /\ KeepsPointers(m, k)
  BY DEF Leaves, KeepsPointers

\* A register command.
LEMMA SetRegisterKeeps ==
  ASSUME NEW s, {"m", "writes"} \subseteq DOMAIN s, RegistersOK(s.m), NEW p \in Path,
         NEW c \in Command, c.op = "register", NEW before
  PROVE  Edits(s, SetRegister(s, p, c, before))
  <1> DEFINE t == SetRegister(s, p, c, before)
             m == s.m
  <1> SUFFICES Edits(s, t)
    OBVIOUS
  <1>1. c.reg \in {"icm", "transparency", "cursor", "weight", "matte"}
    BY CommandTyped
  <1>2. ASSUME t = s PROVE Edits(s, t)
    BY <1>2 DEF Edits, Follows, Leaves, KeepsPointers
  <1>3. ASSUME NEW n, t = [s EXCEPT !.m = n] \/ (\E w : t = [s EXCEPT !.m = n, !.writes = w]),
               RegistersOK(n), Leaves(m, n), KeepsPointers(m, n)
        PROVE  Edits(s, t)
    <2>1. DOMAIN t = DOMAIN s /\ t.m = n /\ \A f \in DOMAIN s \ {"m", "writes"} : t[f] = s[f]
      <3> HIDE DEF t
      <3>1. CASE t = [s EXCEPT !.m = n]
        BY <3>1
      <3>2. CASE \E w : t = [s EXCEPT !.m = n, !.writes = w]
        BY <3>2
      <3> QED BY <1>3, <3>1, <3>2
    <2> QED BY <1>3, <2>1 DEF Edits, Follows
  <1>4. CASE c.reg = "icm" /\ p = 0
    <2> DEFINE a == [m EXCEPT !["nm"] = c.nm]
               b == [a EXCEPT !["mode"] = c.mode]
    <2>1. t = [s EXCEPT !.m = b]
      BY <1>4 DEF SetRegister
    <2>2. RegistersOK(a) /\ Leaves(m, a) /\ KeepsPointers(m, a)
      BY PlainField
    <2> HIDE DEF a
    <2>3. RegistersOK(b) /\ Leaves(a, b) /\ KeepsPointers(a, b)
      BY <2>2, PlainField
    <2>4. Leaves(m, b) /\ KeepsPointers(m, b)
      <3> HIDE DEF b, m
      <3> QED BY <2>2, <2>3, Twice
    <2> HIDE DEF b, t
    <2> QED BY <1>3, <2>1, <2>3, <2>4
  <1>5. CASE c.reg = "transparency" /\ p = 0
    <2> DEFINE a == [m EXCEPT !["hidden"] = c.hidden]
    <2>1. t = [s EXCEPT !.m = a]
      BY <1>5 DEF SetRegister
    <2>2. RegistersOK(a) /\ Leaves(m, a) /\ KeepsPointers(m, a)
      BY PlainField
    <2> HIDE DEF a, t
    <2> QED BY <1>3, <2>1, <2>2
  <1>6. CASE c.reg = "cursor" /\ p = 0
    <2> DEFINE a == [m EXCEPT !.cursor = c.cursor]
    <2>1. t = [s EXCEPT !.m = a]
      BY <1>6 DEF SetRegister
    <2>2. RegistersOK(a) /\ Leaves(m, a) /\ KeepsPointers(m, a)
      BY <1>6, CommandTyped, CursorField
    <2> HIDE DEF a, t
    <2> QED BY <1>3, <2>1, <2>2
  <1>7. CASE c.reg \in {"icm", "transparency", "cursor"} /\ p # 0
    BY <1>2, <1>7 DEF SetRegister
  <1>8. CASE c.reg = "weight"
    <2> DEFINE a == [m EXCEPT !["weight"] = [m.weight EXCEPT ![p] = c.wf]]
               b == UpdateMatteArrays(a)
    <2>1. t = [s EXCEPT !.m = b]
      BY <1>8 DEF SetRegister
    <2>2. RegistersOK(a) /\ Leaves(m, a) /\ KeepsPointers(m, a)
      BY PlainField
    <2> HIDE DEF a
    <2>3. RegistersOK(b) /\ Leaves(a, b) /\ KeepsPointers(a, b)
      BY <2>2, UpdateMatteKeeps
    <2>4. Leaves(m, b) /\ KeepsPointers(m, b)
      <3> HIDE DEF b, m
      <3> QED BY <2>2, <2>3, Twice
    <2> HIDE DEF b, t
    <2> QED BY <1>3, <2>1, <2>3, <2>4
  <1>9. CASE c.reg = "matte" /\ p = 1 /\ c.index \in before
    BY <1>2, <1>9 DEF SetRegister
  <1>10. CASE c.reg = "matte" /\ ~(p = 1 /\ c.index \in before)
    <2> DEFINE a == [m EXCEPT !.matte[c.index] = c.control]
               b == UpdateMatteArrays(a)
    <2>1. t = [s EXCEPT !.m = b, !.writes = @ \cup {c.index}]
      BY <1>10 DEF SetRegister
    <2>2. RegistersOK(a) /\ Leaves(m, a) /\ KeepsPointers(m, a)
      BY <1>10, CommandTyped, MatteField
    <2> HIDE DEF a
    <2>3. RegistersOK(b) /\ Leaves(a, b) /\ KeepsPointers(a, b)
      BY <2>2, UpdateMatteKeeps
    <2>4. Leaves(m, b) /\ KeepsPointers(m, b)
      <3> HIDE DEF b, m
      <3> QED BY <2>2, <2>3, Twice
    <2> HIDE DEF b, t
    <2>5. \E w : t = [s EXCEPT !.m = b, !.writes = w]
      BY <2>1
    <2> QED BY <1>3, <2>3, <2>4, <2>5
  <1> QED BY <1>1, <1>4, <1>5, <1>6, <1>7, <1>8, <1>9, <1>10

\* A command the two areas share.
LEMMA CommonKeeps ==
  ASSUME NEW s, {"m", "writes"} \subseteq DOMAIN s, RegistersOK(s.m), NEW p \in Path,
         NEW c \in Command, c.op \in {"nop", "interrupt", "params", "register"}, NEW before
  PROVE  Edits(s, Common(s, p, c, before))
  <1> DEFINE t == Common(s, p, c, before)
             m == s.m
  <1> SUFFICES Edits(s, t)
    OBVIOUS
  <1>1. ASSUME NEW n, t = [s EXCEPT !.m = n], RegistersOK(n), Leaves(m, n), KeepsPointers(m, n)
        PROVE  Edits(s, t)
    <2>1. DOMAIN t = DOMAIN s /\ t.m = n /\ \A f \in DOMAIN s \ {"m", "writes"} : t[f] = s[f]
      <3> HIDE DEF t
      <3> QED BY <1>1
    <2> QED BY <1>1, <2>1 DEF Edits, Follows
  <1>2. CASE c.op = "nop"
    <2>1. t = s
      BY <1>2 DEF Common
    <2> QED BY <2>1 DEF Edits, Follows, Leaves, KeepsPointers
  <1>3. CASE c.op = "interrupt"
    <2>1. t = [s EXCEPT !.m = RaiseIt(m, p)]
      BY <1>3 DEF Common
    <2>2. RegistersOK(RaiseIt(m, p)) /\ Leaves(m, RaiseIt(m, p)) /\ KeepsPointers(m, RaiseIt(m, p))
      BY RaiseItKeeps
    <2> HIDE DEF t
    <2> QED BY <1>1, <2>1, <2>2
  <1>4. CASE c.op = "params"
    <2> DEFINE a == [m EXCEPT !["cm"] = [m.cm EXCEPT ![p] = c.bp = 1]]
               b == [a EXCEPT !["ddr"] = [m.ddr EXCEPT ![p] = c.ft]]
    <2>1. t = [s EXCEPT !.m = b]
      <3>1. t = [s EXCEPT !.m.cm[p] = c.bp = 1, !.m.ddr[p] = c.ft]
        BY <1>4 DEF Common
      <3>2. DOMAIN m = McdFields
        BY DEF RegistersOK
      <3>3. "cm" \in DOMAIN m /\ "ddr" \in DOMAIN m /\ a.ddr = m.ddr
        BY <3>2 DEF McdFields
      <3> QED BY <3>1, <3>3
    <2>2. RegistersOK(a) /\ Leaves(m, a) /\ KeepsPointers(m, a)
      BY PlainField
    <2> HIDE DEF a
    <2>3. RegistersOK(b) /\ Leaves(a, b) /\ KeepsPointers(a, b)
      BY <2>2, PlainField
    <2>4. Leaves(m, b) /\ KeepsPointers(m, b)
      <3> HIDE DEF b, m
      <3> QED BY <2>2, <2>3, Twice
    <2> HIDE DEF b, t
    <2> QED BY <1>1, <2>1, <2>3, <2>4
  <1>5. CASE c.op = "register"
    <2>1. t = SetRegister(s, p, c, before)
      BY <1>5 DEF Common
    <2> QED BY <1>5, <2>1, SetRegisterKeeps
  <1> QED BY <1>2, <1>3, <1>4, <1>5

\* The pointers of the other path.
OthersKept(m, n, p) == \A q \in Path \ {p} : n.dcp[q] = m.dcp[q] /\ n.dca[q] = m.dca[q]

\* One pointer of a path: that of its display file, ...
LEMMA VsrOnly ==
  ASSUME NEW m, RegistersOK(m), NEW p \in Path, NEW v \in PixelAddress
  PROVE  LET n == [m EXCEPT !.vsr = [m.vsr EXCEPT ![p] = v]] IN
         /\ RegistersOK(n) /\ Leaves(m, n) /\ OthersKept(m, n, p)
         /\ n.dcp = m.dcp /\ n.dca = m.dca /\ n.vsr = [m.vsr EXCEPT ![p] = v]
  <1> DEFINE w == [m.vsr EXCEPT ![p] = v]
             n == [m EXCEPT !["vsr"] = w]
  <1>1. m.vsr \in [Path -> PixelAddress]
    BY DEF RegistersOK
  <1>2. w \in [Path -> PixelAddress] /\ \A q \in Path \ {p} : w[q] = m.vsr[q]
    BY <1>1
  <1> HIDE DEF w
  <1>3. /\ RegistersOK(n) /\ Leaves(m, n) /\ n.vsr = w
        /\ \A g \in {"vsr", "dcp", "dca"} \ {"vsr"} : n[g] = m[g]
    BY <1>2, PointerField
  <1> HIDE DEF n
  <1>4. n.dcp = m.dcp /\ n.dca = m.dca
    BY <1>3
  <1>5. OthersKept(m, n, p)
    BY <1>2, <1>3, <1>4 DEF OthersKept
  <1> QED BY <1>3, <1>4, <1>5 DEF n, w

\* ... that of the next field, ...
LEMMA DcpOnly ==
  ASSUME NEW m, RegistersOK(m), NEW p \in Path, NEW v \in PixelAddress
  PROVE  LET n == [m EXCEPT !.dcp = [m.dcp EXCEPT ![p] = v]] IN
         /\ RegistersOK(n) /\ Leaves(m, n) /\ OthersKept(m, n, p)
         /\ n.vsr = m.vsr /\ n.dca = m.dca /\ n.dcp = [m.dcp EXCEPT ![p] = v]
  <1> DEFINE w == [m.dcp EXCEPT ![p] = v]
             n == [m EXCEPT !["dcp"] = w]
  <1>1. m.dcp \in [Path -> PixelAddress]
    BY DEF RegistersOK
  <1>2. w \in [Path -> PixelAddress] /\ \A q \in Path \ {p} : w[q] = m.dcp[q]
    BY <1>1
  <1> HIDE DEF w
  <1>3. /\ RegistersOK(n) /\ Leaves(m, n) /\ n.dcp = w
        /\ \A g \in {"vsr", "dcp", "dca"} \ {"dcp"} : n[g] = m[g]
    BY <1>2, PointerField
  <1> HIDE DEF n
  <1>4. n.vsr = m.vsr /\ n.dca = m.dca
    BY <1>3
  <1>5. OthersKept(m, n, p)
    BY <1>2, <1>3, <1>4 DEF OthersKept
  <1> QED BY <1>3, <1>4, <1>5 DEF n, w

\* ... and that of its slots.
LEMMA DcaOnly ==
  ASSUME NEW m, RegistersOK(m), NEW p \in Path, NEW v \in PixelAddress
  PROVE  LET n == [m EXCEPT !.dca = [m.dca EXCEPT ![p] = v]] IN
         /\ RegistersOK(n) /\ Leaves(m, n) /\ OthersKept(m, n, p)
         /\ n.vsr = m.vsr /\ n.dcp = m.dcp /\ n.dca = [m.dca EXCEPT ![p] = v]
  <1> DEFINE w == [m.dca EXCEPT ![p] = v]
             n == [m EXCEPT !["dca"] = w]
  <1>1. m.dca \in [Path -> PixelAddress]
    BY DEF RegistersOK
  <1>2. w \in [Path -> PixelAddress] /\ \A q \in Path \ {p} : w[q] = m.dca[q]
    BY <1>1
  <1> HIDE DEF w
  <1>3. /\ RegistersOK(n) /\ Leaves(m, n) /\ n.dca = w
        /\ \A g \in {"vsr", "dcp", "dca"} \ {"dca"} : n[g] = m[g]
    BY <1>2, PointerField
  <1> HIDE DEF n
  <1>4. n.vsr = m.vsr /\ n.dcp = m.dcp
    BY <1>3
  <1>5. OthersKept(m, n, p)
    BY <1>2, <1>3, <1>4 DEF OthersKept
  <1> QED BY <1>3, <1>4, <1>5 DEF n, w

\* The run of a program, from the registers m.
IcaRun(s, m, p) ==
    /\ DOMAIN s = {"m", "addr", "stopped", "writes"}
    /\ RegistersOK(s.m) /\ Leaves(m, s.m) /\ s.m.dca = m.dca /\ OthersKept(m, s.m, p)

\* One command of the image control area.
LEMMA IcaStepKeeps ==
  ASSUME memory \in Image, NEW p \in Path, NEW m, NEW s, IcaRun(s, m, p), NEW before
  PROVE  IcaRun(IcaStep(s, p, before), m, p)
  <1> DEFINE c == Fetch(p, s.addr)
             t == [s EXCEPT !.addr = @ + 1]
             u == IcaStep(s, p, before)
  <1> SUFFICES IcaRun(u, m, p)
    OBVIOUS
  <1>1. /\ DOMAIN s = {"m", "addr", "stopped", "writes"} /\ RegistersOK(s.m) /\ Leaves(m, s.m)
        /\ s.m.dca = m.dca /\ OthersKept(m, s.m, p)
    BY DEF IcaRun
  <1>2. c \in Command
    BY FetchTyped
  <1>3. DOMAIN t = DOMAIN s /\ t.m = s.m
    BY <1>1
  <1>4. CASE s.stopped
    <2>1. u = s
      BY <1>4 DEF IcaStep
    <2> QED BY <2>1
  <1>5. u = IF s.stopped THEN s
            ELSE CASE c.op = "stop" -> [t EXCEPT !.stopped = TRUE]
                 [] c.op = "reload dcp" -> [t EXCEPT !.m.dcp[p] = c.addr]
                 [] c.op = "stop dcp" -> [t EXCEPT !.m.dcp[p] = c.addr, !.stopped = TRUE]
                 [] c.op = "4x" -> [t EXCEPT !.addr = c.addr]
                 [] c.op = "5x" -> [t EXCEPT !.m.vsr[p] = c.addr, !.stopped = TRUE]
                 [] OTHER -> Common(t, p, c, before)
    BY DEF IcaStep
  <1> HIDE DEF c, t, u
  <1>6. ASSUME DOMAIN u = DOMAIN t, u.m = t.m PROVE IcaRun(u, m, p)
    BY <1>1, <1>3, <1>6 DEF IcaRun
  <1>7. ASSUME ~s.stopped, c.op \in {"reload dcp", "stop dcp"} PROVE IcaRun(u, m, p)
    <2> DEFINE n == [s.m EXCEPT !.dcp = [s.m.dcp EXCEPT ![p] = c.addr]]
    <2>1. c.addr \in PixelAddress
      BY <1>2, <1>7, CommandTyped
    <2>2. RegistersOK(n) /\ Leaves(s.m, n) /\ OthersKept(s.m, n, p) /\ n.dca = s.m.dca
      BY <1>1, <2>1, DcpOnly, VsrOnly
    <2>3. DOMAIN u = DOMAIN s /\ u.m = n
      BY <1>1, <1>3, <1>5, <1>7
    <2> HIDE DEF n
    <2> QED BY <1>1, <2>2, <2>3 DEF IcaRun, Leaves, OthersKept
  <1>8. ASSUME ~s.stopped, c.op = "5x" PROVE IcaRun(u, m, p)
    <2> DEFINE n == [s.m EXCEPT !.vsr = [s.m.vsr EXCEPT ![p] = c.addr]]
    <2>1. c.addr \in PixelAddress
      BY <1>2, <1>8, CommandTyped
    <2>2. RegistersOK(n) /\ Leaves(s.m, n) /\ OthersKept(s.m, n, p) /\ n.dca = s.m.dca
      BY <1>1, <2>1, DcpOnly, VsrOnly
    <2>3. DOMAIN u = DOMAIN s /\ u.m = n
      BY <1>1, <1>3, <1>5, <1>8
    <2> HIDE DEF n
    <2> QED BY <1>1, <2>2, <2>3 DEF IcaRun, Leaves, OthersKept
  <1>9. ASSUME ~s.stopped, c.op \in {"stop", "4x"} PROVE IcaRun(u, m, p)
    <2>1. DOMAIN u = DOMAIN t /\ u.m = t.m
      BY <1>1, <1>3, <1>5, <1>9
    <2> QED BY <1>6, <2>1
  <1>10. ASSUME ~s.stopped, c.op \in {"nop", "interrupt", "params", "register"} PROVE IcaRun(u, m, p)
    <2>1. u = Common(t, p, c, before)
      BY <1>5, <1>10
    <2>2. Edits(t, u)
      BY <1>1, <1>2, <1>3, <1>10, <2>1, CommonKeeps
    <2> QED BY <1>1, <1>3, <2>2 DEF IcaRun, Edits, Follows, KeepsPointers, Leaves, OthersKept
  <1> QED BY <1>2, <1>4, <1>7, <1>8, <1>9, <1>10, CommandTyped

\* The program of a field.
LEMMA IcaKeeps ==
  ASSUME memory \in Image, NEW p \in Path, NEW m, RegistersOK(m), NEW before
  PROVE  LET i == ProcessIca(m, p, before) IN
         RegistersOK(i.m) /\ Leaves(m, i.m) /\ i.m.dca = m.dca /\ OthersKept(m, i.m, p)
  <1> DEFINE start == [m |-> m, addr |-> IcaEntry(m), stopped |-> FALSE, writes |-> {}]
             run == CHOOSE f : f = [n \in 0..IcaMax |-> IF n = 0 THEN start ELSE IcaStep(f[n - 1], p, before)]
             S == {n \in Nat : n <= IcaMax => IcaRun(run[n], m, p)}
  <1>1. ProcessIca(m, p, before) = run[IcaMax]
    BY DEF ProcessIca
  <1>2. IcaMax \in Nat
    BY Geometry
  <1>3. IcaRun(start, m, p)
    BY DEF IcaRun, Leaves, OthersKept
  <1>4. run = [n \in 0..IcaMax |-> IF n = 0 THEN start ELSE IcaStep(run[n - 1], p, before)]
    <2> HIDE DEF start, run, S
    <2> DEFINE T == {k \in Nat : \E f : f = [n \in 0..k |-> IF n = 0 THEN start ELSE IcaStep(f[n - 1], p, before)]}
    <2>1. 0 \in T
      <3> DEFINE f == [n \in 0..0 |-> start]
      <3>1. f = [n \in 0..0 |-> IF n = 0 THEN start ELSE IcaStep(f[n - 1], p, before)]
        OBVIOUS
      <3> QED BY <3>1
    <2>2. ASSUME NEW k \in Nat, k \in T PROVE k + 1 \in T
      <3>1. PICK e : e = [n \in 0..k |-> IF n = 0 THEN start ELSE IcaStep(e[n - 1], p, before)]
        BY <2>2
      <3> DEFINE h == [n \in 0..(k + 1) |-> IF n = k + 1 THEN IcaStep(e[k], p, before) ELSE e[n]]
      <3>2. ASSUME NEW n \in 0..(k + 1) PROVE h[n] = IF n = 0 THEN start ELSE IcaStep(h[n - 1], p, before)
        BY <3>1
      <3>3. h = [n \in 0..(k + 1) |-> IF n = 0 THEN start ELSE IcaStep(h[n - 1], p, before)]
        BY <3>2
      <3>4. \E f : f = [n \in 0..(k + 1) |-> IF n = 0 THEN start ELSE IcaStep(f[n - 1], p, before)]
        BY <3>3
      <3> HIDE DEF h
      <3> QED BY <3>4
    <2>3. IcaMax \in T
      <3> HIDE DEF T
      <3> QED BY <1>2, <2>1, <2>2, Induct
    <2> QED BY <2>3 DEF run
  <1> HIDE DEF run, start
  <1>5. 0 \in S
    BY <1>2, <1>3, <1>4
  <1>6. ASSUME NEW n \in Nat, n \in S PROVE n + 1 \in S
    <2> SUFFICES ASSUME n + 1 <= IcaMax PROVE IcaRun(run[n + 1], m, p)
      OBVIOUS
    <2>1. n + 1 \in 0..IcaMax /\ n + 1 # 0 /\ (n + 1) - 1 = n /\ n <= IcaMax
      BY <1>2
    <2>2. run[n + 1] = IcaStep(run[n], p, before)
      BY <1>4, <2>1
    <2> QED BY <1>6, <2>1, <2>2, IcaStepKeeps
  <1>7. IcaRun(run[IcaMax], m, p)
    <2>1. IcaMax \in S
      <3> HIDE DEF S
      <3> QED BY <1>2, <1>5, <1>6, Induct
    <2> QED BY <1>2, <2>1
  <1> HIDE DEF S
  <1> QED BY <1>1, <1>7 DEF IcaRun

\* The run of a slot. Without links, its pointers are as they were.
DcaRun(s, m, p, k) ==
    /\ DOMAIN s = {"m", "addr", "count", "stopped", "linked", "writes"}
    /\ RegistersOK(s.m) /\ Leaves(m, s.m) /\ OthersKept(m, s.m, p)
    /\ s.count \in 0..k /\ s.addr = m.dca[p] + s.count
    /\ ~Linked(p) => s.linked = FALSE /\ KeepsPointers(m, s.m)

\* One command of the dynamic control area.
LEMMA DcaStepKeeps ==
  ASSUME memory \in Image, NEW p \in Path, NEW m, RegistersOK(m), NEW k \in Nat, NEW s, DcaRun(s, m, p, k),
         NEW before
  PROVE  DcaRun(DcaStep(s, p, before), m, p, k + 1)
  <1> DEFINE c == Fetch(p, s.addr)
             t == [s EXCEPT !.addr = @ + 1, !.count = @ + 1]
             u == DcaStep(s, p, before)
  <1> SUFFICES DcaRun(u, m, p, k + 1)
    OBVIOUS
  <1>1. /\ DOMAIN s = {"m", "addr", "count", "stopped", "linked", "writes"}
        /\ RegistersOK(s.m) /\ Leaves(m, s.m) /\ OthersKept(m, s.m, p)
        /\ s.count \in 0..k /\ s.addr = m.dca[p] + s.count
        /\ ~Linked(p) => s.linked = FALSE /\ KeepsPointers(m, s.m)
    BY DEF DcaRun
  <1>2. c \in Command
    BY FetchTyped
  <1>3. c.op = "stop dcp" => Linked(p)
    BY DEF Fetch, Linked
  <1>4. m.dca[p] \in Nat
    BY DEF RegistersOK, PixelAddress
  <1>5. /\ DOMAIN t = DOMAIN s /\ t.m = s.m /\ t.stopped = s.stopped /\ t.linked = s.linked
        /\ t.count = s.count + 1 /\ t.addr = s.addr + 1
    BY <1>1
  <1>6. t.count \in 0..(k + 1) /\ t.addr = m.dca[p] + t.count /\ s.count \in 0..(k + 1)
    BY <1>1, <1>4, <1>5
  <1>7. CASE s.stopped
    <2>1. u = s
      BY <1>7 DEF DcaStep
    <2> QED BY <1>1, <1>6, <2>1 DEF DcaRun
  <1>8. u = IF s.stopped THEN s
            ELSE CASE c.op = "stop" -> [t EXCEPT !.stopped = TRUE]
                 [] c.op = "reload dcp" -> t
                 [] c.op = "stop dcp" -> [t EXCEPT !.m.dcp[p] = c.addr, !.m.dca[p] = c.addr,
                                                   !.stopped = TRUE, !.linked = TRUE]
                 [] c.op = "4x" -> [t EXCEPT !.m.vsr[p] = c.addr]
                 [] c.op = "5x" -> [t EXCEPT !.m.vsr[p] = c.addr, !.stopped = TRUE]
                 [] OTHER -> Common(t, p, c, before)
    BY DEF DcaStep
  <1> HIDE DEF c, t, u
  <1>9. ASSUME ~s.stopped, c.op \in {"stop", "reload dcp"} PROVE DcaRun(u, m, p, k + 1)
    <2>1. DOMAIN u = DOMAIN t /\ u.m = t.m /\ u.count = t.count /\ u.addr = t.addr /\ u.linked = t.linked
      BY <1>1, <1>5, <1>8, <1>9
    <2> QED BY <1>1, <1>5, <1>6, <2>1 DEF DcaRun
  <1>10. ASSUME ~s.stopped, c.op \in {"4x", "5x"} PROVE DcaRun(u, m, p, k + 1)
    <2> DEFINE n == [s.m EXCEPT !.vsr = [s.m.vsr EXCEPT ![p] = c.addr]]
    <2>1. c.addr \in PixelAddress
      BY <1>2, <1>10, CommandTyped
    <2>2. RegistersOK(n) /\ Leaves(s.m, n) /\ OthersKept(s.m, n, p) /\ n.dcp = s.m.dcp /\ n.dca = s.m.dca
      BY <1>1, <2>1, VsrOnly
    <2>3. DOMAIN u = DOMAIN t /\ u.m = n /\ u.count = t.count /\ u.addr = t.addr /\ u.linked = t.linked
      BY <1>1, <1>5, <1>8, <1>10
    <2> HIDE DEF n
    <2> QED BY <1>1, <1>5, <1>6, <2>2, <2>3 DEF DcaRun, Leaves, OthersKept, KeepsPointers
  <1>11. ASSUME ~s.stopped, c.op = "stop dcp" PROVE DcaRun(u, m, p, k + 1)
    <2> DEFINE n == [s.m EXCEPT !.dcp = [s.m.dcp EXCEPT ![p] = c.addr]]
               r == [n EXCEPT !.dca = [n.dca EXCEPT ![p] = c.addr]]
    <2>1. c.addr \in PixelAddress
      BY <1>2, <1>11, CommandTyped
    <2>2. RegistersOK(n) /\ Leaves(s.m, n) /\ OthersKept(s.m, n, p) /\ n.dca = s.m.dca
      BY <1>1, <2>1, DcpOnly
    <2>3. DOMAIN u = DOMAIN t /\ u.m = r /\ u.count = t.count /\ u.addr = t.addr
      <3>1. u = [t EXCEPT !.m.dcp[p] = c.addr, !.m.dca[p] = c.addr, !.stopped = TRUE, !.linked = TRUE]
        BY <1>8, <1>11
      <3>2. DOMAIN s.m = McdFields
        BY <1>1 DEF RegistersOK
      <3>3. "dcp" \in DOMAIN s.m /\ "dca" \in DOMAIN s.m
        BY <3>2 DEF McdFields
      <3>4. u.m = [s.m EXCEPT !.dcp[p] = c.addr, !.dca[p] = c.addr]
        BY <1>1, <1>5, <3>1
      <3> QED BY <1>1, <1>5, <2>2, <3>1, <3>3, <3>4
    <2> HIDE DEF n
    <2>4. RegistersOK(r) /\ Leaves(n, r) /\ OthersKept(n, r, p)
      BY <2>1, <2>2, DcaOnly
    <2> HIDE DEF r
    <2> QED BY <1>1, <1>3, <1>5, <1>6, <1>11, <2>2, <2>3, <2>4 DEF DcaRun, Leaves, OthersKept
  <1>12. ASSUME ~s.stopped, c.op \in {"nop", "interrupt", "params", "register"} PROVE DcaRun(u, m, p, k + 1)
    <2>1. u = Common(t, p, c, before)
      BY <1>8, <1>12
    <2>2. Edits(t, u)
      BY <1>1, <1>2, <1>5, <1>12, <2>1, CommonKeeps
    <2>3. u.count = t.count /\ u.addr = t.addr /\ u.linked = t.linked
      BY <1>1, <1>5, <2>2 DEF Edits
    <2> QED BY <1>1, <1>5, <1>6, <2>2, <2>3 DEF DcaRun, Edits, Follows, KeepsPointers, Leaves, OthersKept
  <1> QED BY <1>2, <1>7, <1>9, <1>10, <1>11, <1>12, CommandTyped

\* The run of a slot, command by command.
SlotStart(m, p) == [m |-> m, addr |-> m.dca[p], count |-> 0, stopped |-> FALSE,
                    linked |-> FALSE, writes |-> {}]
SlotRun(m, p, before) ==
    CHOOSE f : f = [n \in 0..FetchMax(m) |->
                      IF n = 0 THEN SlotStart(m, p) ELSE DcaStep(f[n - 1], p, before)]

\* It starts as it should, and goes on by a command at a time.
LEMMA SlotRuns ==
  ASSUME NEW m, NEW p, NEW before
  PROVE  LET run == SlotRun(m, p, before)
             last == run[FetchMax(m)]
         IN /\ FetchMax(m) \in Nat
            /\ ProcessDca(m, p, before) = IF last.linked THEN last ELSE [last EXCEPT !.m.dca[p] = NextSlot(last)]
            /\ run[0] = SlotStart(m, p)
            /\ \A n \in Nat : n + 1 <= FetchMax(m) => run[n + 1] = DcaStep(run[n], p, before)
  <1> DEFINE start == SlotStart(m, p)
             L == FetchMax(m)
             run == SlotRun(m, p, before)
             last == run[L]
  <1>1. ProcessDca(m, p, before) = IF last.linked THEN last ELSE [last EXCEPT !.m.dca[p] = NextSlot(last)]
    BY DEF ProcessDca, SlotRun, SlotStart
  <1>2. L \in Nat
    BY Geometry DEF FetchMax
  <1>3. run = CHOOSE f : f = [n \in 0..L |-> IF n = 0 THEN start ELSE DcaStep(f[n - 1], p, before)]
    BY DEF SlotRun
  <1> HIDE DEF L, start, run
  <1>4. run = [n \in 0..L |-> IF n = 0 THEN start ELSE DcaStep(run[n - 1], p, before)]
    <2> DEFINE T == {k \in Nat : \E f : f = [n \in 0..k |-> IF n = 0 THEN start ELSE DcaStep(f[n - 1], p, before)]}
    <2>1. 0 \in T
      <3> DEFINE f == [n \in 0..0 |-> start]
      <3>1. f = [n \in 0..0 |-> IF n = 0 THEN start ELSE DcaStep(f[n - 1], p, before)]
        OBVIOUS
      <3> QED BY <3>1
    <2>2. ASSUME NEW k \in Nat, k \in T PROVE k + 1 \in T
      <3>1. PICK e : e = [n \in 0..k |-> IF n = 0 THEN start ELSE DcaStep(e[n - 1], p, before)]
        BY <2>2
      <3> DEFINE h == [n \in 0..(k + 1) |-> IF n = k + 1 THEN DcaStep(e[k], p, before) ELSE e[n]]
      <3>2. ASSUME NEW n \in 0..(k + 1) PROVE h[n] = IF n = 0 THEN start ELSE DcaStep(h[n - 1], p, before)
        BY <3>1
      <3>3. h = [n \in 0..(k + 1) |-> IF n = 0 THEN start ELSE DcaStep(h[n - 1], p, before)]
        BY <3>2
      <3>4. \E f : f = [n \in 0..(k + 1) |-> IF n = 0 THEN start ELSE DcaStep(f[n - 1], p, before)]
        BY <3>3
      <3> HIDE DEF h
      <3> QED BY <3>4
    <2>3. L \in T
      <3> HIDE DEF T
      <3> QED BY <1>2, <2>1, <2>2, Induct
    <2> QED BY <1>3, <2>3
  <1>5. run[0] = start
    BY <1>2, <1>4
  <1>6. ASSUME NEW n \in Nat, n + 1 <= L PROVE run[n + 1] = DcaStep(run[n], p, before)
    <2>1. n + 1 \in 0..L /\ n + 1 # 0 /\ (n + 1) - 1 = n
      BY <1>2, <1>6
    <2> QED BY <1>4, <2>1
  <1> QED BY <1>1, <1>2, <1>5, <1>6 DEF start, L, run

\* A slot: without links, the pointer of its path moves on by a slot.
LEMMA DcaKeeps ==
  ASSUME memory \in Image, NEW p \in Path, NEW m, RegistersOK(m), NEW before
  PROVE  LET d == ProcessDca(m, p, before).m IN
         /\ RegistersOK(d) /\ Leaves(m, d) /\ OthersKept(m, d, p)
         /\ ~Linked(p) => d.dcp = m.dcp /\ d.dca[p] = (m.dca[p] + Slot) % MemoryTop
  <1> DEFINE L == FetchMax(m)
             run == SlotRun(m, p, before)
             last == run[L]
             S == {n \in Nat : n <= L => DcaRun(run[n], m, p, n)}
  <1>1. /\ L \in Nat
        /\ ProcessDca(m, p, before) = IF last.linked THEN last ELSE [last EXCEPT !.m.dca[p] = NextSlot(last)]
        /\ run[0] = SlotStart(m, p)
        /\ \A n \in Nat : n + 1 <= L => run[n + 1] = DcaStep(run[n], p, before)
    BY SlotRuns
  <1> HIDE DEF L, run
  <1>3. m.dca[p] \in Nat
    BY DEF RegistersOK, PixelAddress
  <1>6. 0 \in S
    BY <1>1, <1>3 DEF DcaRun, SlotStart, Leaves, OthersKept, KeepsPointers
  <1>7. ASSUME NEW n \in Nat, n \in S PROVE n + 1 \in S
    <2> SUFFICES ASSUME n + 1 <= L PROVE DcaRun(run[n + 1], m, p, n + 1)
      OBVIOUS
    <2>1. run[n + 1] = DcaStep(run[n], p, before) /\ DcaRun(run[n], m, p, n)
      BY <1>1, <1>7
    <2> QED BY <2>1, DcaStepKeeps
  <1>8. DcaRun(last, m, p, L)
    <2>1. L \in S
      <3> HIDE DEF S
      <3> QED BY <1>1, <1>6, <1>7, Induct
    <2> QED BY <1>1, <2>1
  <1> HIDE DEF S, last
  <1> DEFINE d == ProcessDca(m, p, before).m
             n == [last.m EXCEPT !.dca = [last.m.dca EXCEPT ![p] = NextSlot(last)]]
  <1>9. /\ DOMAIN last = {"m", "addr", "count", "stopped", "linked", "writes"}
        /\ RegistersOK(last.m) /\ Leaves(m, last.m) /\ OthersKept(m, last.m, p)
        /\ last.count \in 0..L /\ last.addr = m.dca[p] + last.count
        /\ ~Linked(p) => last.linked = FALSE /\ KeepsPointers(m, last.m)
    BY <1>8 DEF DcaRun
  <1>10. NextSlot(last) = (m.dca[p] + Slot) % MemoryTop /\ NextSlot(last) \in PixelAddress
    <2>1. last.addr + Slot - last.count = m.dca[p] + Slot
      BY <1>3, <1>9, Geometry
    <2> QED BY <1>3, <2>1, Geometry DEF NextSlot, PixelAddress
  <1>11. CASE last.linked
    <2>1. d = last.m
      BY <1>1, <1>11
    <2> QED BY <1>9, <1>11, <2>1
  <1>12. CASE ~last.linked
    <2>1. d = n
      BY <1>1, <1>9, <1>12
    <2>2. RegistersOK(n) /\ Leaves(last.m, n) /\ OthersKept(last.m, n, p) /\ n.dcp = last.m.dcp
          /\ n.dca = [last.m.dca EXCEPT ![p] = NextSlot(last)]
      BY <1>9, <1>10, DcaOnly
    <2>3. last.m.dca \in [Path -> PixelAddress]
      BY <1>9 DEF RegistersOK
    <2> HIDE DEF n, d
    <2>4. d.dca[p] = NextSlot(last)
      BY <2>1, <2>2, <2>3
    <2>5. RegistersOK(d) /\ Leaves(m, d) /\ OthersKept(m, d, p)
      BY <1>9, <2>1, <2>2 DEF Leaves, OthersKept
    <2>6. ~Linked(p) => d.dcp = m.dcp
      BY <1>9, <2>1, <2>2 DEF KeepsPointers
    <2> QED BY <1>10, <2>4, <2>5, <2>6 DEF d
  <1> QED BY <1>11, <1>12

-----------------------------------------------------------------------------
(* A phase of both paths.                                                  *)

\* What says whether a path runs its programs is not theirs to change.
LEMMA EnabledKept ==
  ASSUME NEW m, NEW n, Leaves(m, n), NEW p \in Path
  PROVE  IcaEnabled(n, p) = IcaEnabled(m, p) /\ DcaEnabled(n, p) = DcaEnabled(m, p)
  BY Zenon DEF Leaves, IcaEnabled, DcaEnabled

\* The programs of a path at the start of a field: the slots start at the
\* pointer the first of them loaded, and one has been fetched.
LEMMA FieldTableKeeps ==
  ASSUME memory \in Image, NEW p \in Path, NEW m, RegistersOK(m), NEW before
  PROVE  LET n == FieldTable(m, p, before).m IN
         /\ RegistersOK(n) /\ Leaves(m, n) /\ OthersKept(m, n, p)
         /\ (DcaEnabled(m, p) /\ ~Linked(p)) => n.dca[p] = (n.dcp[p] + Slot) % MemoryTop
  <1> DEFINE i == ProcessIca(m, p, before.ica).m
             j == [i EXCEPT !.dca = [i.dca EXCEPT ![p] = i.dcp[p]]]
             d == ProcessDca(j, p, before.dca).m
             n == FieldTable(m, p, before).m
  <1>1. CASE ~IcaEnabled(m, p)
    <2>1. n = m
      BY <1>1 DEF FieldTable
    <2> QED BY <1>1, <2>1 DEF Leaves, OthersKept, IcaEnabled, DcaEnabled
  <1>2. RegistersOK(i) /\ Leaves(m, i) /\ OthersKept(m, i, p)
    BY IcaKeeps
  <1>3. CASE IcaEnabled(m, p) /\ ~DcaEnabled(i, p)
    <2>1. n = i
      BY <1>3 DEF FieldTable
    <2> QED BY <1>2, <1>3, <2>1, EnabledKept
  <1>4. CASE IcaEnabled(m, p) /\ DcaEnabled(i, p)
    <2>1. n = d
      BY <1>4 DEF FieldTable
    <2> HIDE DEF i, n
    <2>2. i.dcp[p] \in PixelAddress /\ i.dca \in [Path -> PixelAddress]
      BY <1>2 DEF RegistersOK
    <2>3. /\ RegistersOK(j) /\ Leaves(i, j) /\ OthersKept(i, j, p) /\ j.dcp = i.dcp
          /\ j.dca = [i.dca EXCEPT ![p] = i.dcp[p]]
      BY <1>2, <2>2, DcaOnly
    <2> HIDE DEF j
    <2>4. j.dca[p] = j.dcp[p]
      BY <2>2, <2>3
    <2>5. /\ RegistersOK(d) /\ Leaves(j, d) /\ OthersKept(j, d, p)
          /\ ~Linked(p) => d.dcp = j.dcp /\ d.dca[p] = (j.dca[p] + Slot) % MemoryTop
      BY <2>3, DcaKeeps
    <2> HIDE DEF d
    <2> QED BY <1>2, <2>1, <2>3, <2>4, <2>5 DEF Leaves, OthersKept, n
  <1> QED BY <1>1, <1>3, <1>4

\* Those of both.
LEMMA FieldTablesKeep ==
  ASSUME memory \in Image, NEW m, RegistersOK(m)
  PROVE  LET n == FieldTables(m) IN
         /\ RegistersOK(n) /\ Leaves(m, n)
         /\ \A p \in Path : (DcaEnabled(n, p) /\ ~Linked(p)) => n.dca[p] = (n.dcp[p] + Slot) % MemoryTop
  <1> DEFINE a == FieldTable(m, 0, NoWrites)
             n == FieldTable(a.m, 1, a).m
  <1>1. FieldTables(m) = n
    BY DEF FieldTables
  <1>2. /\ RegistersOK(a.m) /\ Leaves(m, a.m)
        /\ (DcaEnabled(m, 0) /\ ~Linked(0)) => a.m.dca[0] = (a.m.dcp[0] + Slot) % MemoryTop
    BY FieldTableKeeps DEF Path
  <1> HIDE DEF a
  <1>3. /\ RegistersOK(n) /\ Leaves(a.m, n) /\ OthersKept(a.m, n, 1)
        /\ (DcaEnabled(a.m, 1) /\ ~Linked(1)) => n.dca[1] = (n.dcp[1] + Slot) % MemoryTop
    BY <1>2, FieldTableKeeps DEF Path
  <1> HIDE DEF n
  <1>4. n.dcp[0] = a.m.dcp[0] /\ n.dca[0] = a.m.dca[0]
    BY <1>3 DEF OthersKept, Path
  <1>5. Leaves(m, n)
    BY <1>2, <1>3 DEF Leaves
  <1>6. DcaEnabled(n, 0) = DcaEnabled(m, 0) /\ DcaEnabled(n, 1) = DcaEnabled(a.m, 1)
    BY <1>3, <1>5, EnabledKept DEF Path
  <1>7. ASSUME NEW p \in Path, DcaEnabled(n, p), ~Linked(p)
        PROVE  n.dca[p] = (n.dcp[p] + Slot) % MemoryTop
    <2>1. CASE p = 0
      BY <1>2, <1>4, <1>6, <1>7, <2>1
    <2>2. CASE p = 1
      BY <1>3, <1>6, <1>7, <2>2
    <2> QED BY <2>1, <2>2 DEF Path
  <1> QED BY <1>1, <1>3, <1>5, <1>7

\* After a line, both paths have moved on by a slot, or neither has.
LEMMA LineTablesKeep ==
  ASSUME memory \in Image, NEW m, RegistersOK(m), NEW l
  PROVE  LET n == LineTables(m, l) IN
         /\ RegistersOK(n) /\ Leaves(m, n)
         /\ ~AdvanceDca(m, l) => n = m
         /\ \A p \in Path : (AdvanceDca(m, l) /\ DcaEnabled(m, p) /\ ~Linked(p)) =>
               n.dcp[p] = m.dcp[p] /\ n.dca[p] = (m.dca[p] + Slot) % MemoryTop
  <1> DEFINE a == IF DcaEnabled(m, 0) THEN ProcessDca(m, 0, {}) ELSE [m |-> m, writes |-> {}]
             n == IF DcaEnabled(a.m, 1) THEN ProcessDca(a.m, 1, a.writes).m ELSE a.m
  <1>1. CASE ~AdvanceDca(m, l)
    <2>1. LineTables(m, l) = m
      BY <1>1 DEF LineTables
    <2> QED BY <1>1, <2>1 DEF Leaves
  <1>2. CASE AdvanceDca(m, l)
    <2>1. LineTables(m, l) = n
      BY <1>2 DEF LineTables
    <2>2. /\ RegistersOK(a.m) /\ Leaves(m, a.m) /\ OthersKept(m, a.m, 0)
          /\ (DcaEnabled(m, 0) /\ ~Linked(0)) =>
                a.m.dcp[0] = m.dcp[0] /\ a.m.dca[0] = (m.dca[0] + Slot) % MemoryTop
      <3>1. CASE DcaEnabled(m, 0)
        BY <3>1, DcaKeeps DEF Path
      <3>2. CASE ~DcaEnabled(m, 0)
        BY <3>2 DEF Leaves, OthersKept
      <3> QED BY <3>1, <3>2
    <2> HIDE DEF a
    <2>3. /\ RegistersOK(n) /\ Leaves(a.m, n) /\ OthersKept(a.m, n, 1)
          /\ (DcaEnabled(a.m, 1) /\ ~Linked(1)) =>
                n.dcp[1] = a.m.dcp[1] /\ n.dca[1] = (a.m.dca[1] + Slot) % MemoryTop
      <3>1. CASE DcaEnabled(a.m, 1)
        BY <2>2, <3>1, DcaKeeps DEF Path
      <3>2. CASE ~DcaEnabled(a.m, 1)
        BY <2>2, <3>2 DEF Leaves, OthersKept
      <3> QED BY <3>1, <3>2
    <2> HIDE DEF n
    <2>4. /\ n.dcp[0] = a.m.dcp[0] /\ n.dca[0] = a.m.dca[0]
          /\ a.m.dcp[1] = m.dcp[1] /\ a.m.dca[1] = m.dca[1]
      BY <2>2, <2>3 DEF OthersKept, Path
    <2>5. Leaves(m, n)
      BY <2>2, <2>3 DEF Leaves
    <2>6. DcaEnabled(a.m, 1) = DcaEnabled(m, 1)
      BY <2>2, EnabledKept DEF Path
    <2>7. ASSUME NEW p \in Path, DcaEnabled(m, p), ~Linked(p)
          PROVE  n.dcp[p] = m.dcp[p] /\ n.dca[p] = (m.dca[p] + Slot) % MemoryTop
      <3>1. CASE p = 0
        BY <2>2, <2>4, <2>7, <3>1
      <3>2. CASE p = 1
        BY <2>3, <2>4, <2>6, <2>7, <3>2
      <3> QED BY <3>1, <3>2 DEF Path
    <2> QED BY <1>2, <2>1, <2>3, <2>5, <2>7
  <1> QED BY <1>1, <1>2

\* The display moves its own pointers only.
LEMMA ProcessVsrKeeps ==
  ASSUME NEW m, RegistersOK(m), NEW p \in Path
  PROVE  LET n == ProcessVsr(m, p) IN RegistersOK(n) /\ Leaves(m, n) /\ KeepsPointers(m, n)
  <1> DEFINE w == [q \in Path |->
                     IF q = p \/ (p = 1 /\ m.mode[1] = "rgb555") THEN (m.vsr[q] + 1) % MemoryTop ELSE m.vsr[q]]
             n == [m EXCEPT !["vsr"] = w]
  <1>1. CASE ProcessVsr(m, p) = m
    BY <1>1 DEF Leaves, KeepsPointers
  <1>2. CASE ProcessVsr(m, p) = n
    <2>1. ASSUME NEW q \in Path PROVE m.vsr[q] \in PixelAddress /\ (m.vsr[q] + 1) % MemoryTop \in PixelAddress
      BY Geometry DEF RegistersOK, PixelAddress
    <2>2. w \in [Path -> PixelAddress]
      BY <2>1
    <2> HIDE DEF w
    <2>3. /\ RegistersOK(n) /\ Leaves(m, n)
          /\ \A g \in {"vsr", "dcp", "dca"} \ {"vsr"} : n[g] = m[g]
      BY <2>2, PointerField
    <2> HIDE DEF n
    <2>4. KeepsPointers(m, n)
      BY <2>3 DEF KeepsPointers
    <2> QED BY <1>2, <2>3, <2>4
  <1>3. ProcessVsr(m, p) = m \/ ProcessVsr(m, p) = n
    BY DEF ProcessVsr
  <1> QED BY <1>1, <1>2, <1>3

\* A line on the screen.
LEMMA RenderedKeeps ==
  ASSUME NEW m, RegistersOK(m), NEW l
  PROVE  LET n == Rendered(m, l) IN RegistersOK(n) /\ Leaves(m, n) /\ KeepsPointers(m, n)
  <1>1. CASE DisplayFileLine(m, l)
    <2> DEFINE a == ProcessVsr(m, 0)
               n == ProcessVsr(a, 1)
    <2>1. RegistersOK(a) /\ Leaves(m, a) /\ KeepsPointers(m, a)
      BY ProcessVsrKeeps DEF Path
    <2> HIDE DEF a
    <2>2. RegistersOK(n) /\ Leaves(a, n) /\ KeepsPointers(a, n)
      BY <2>1, ProcessVsrKeeps DEF Path
    <2>3. Rendered(m, l) = n
      BY <1>1 DEF Rendered, a
    <2> HIDE DEF n
    <2> QED BY <2>1, <2>2, <2>3, Twice
  <1>2. CASE ~DisplayFileLine(m, l)
    BY <1>2 DEF Rendered, Leaves, KeepsPointers
  <1> QED BY <1>1, <1>2

-----------------------------------------------------------------------------
(* The lines of a field.                                                   *)

\* A multiple of M that is nearer to zero than M is zero.
LEMMA SmallMultiple ==
  ASSUME NEW M \in Nat, 0 < M, NEW d \in Int, -M < d * M, d * M < M PROVE d = 0
  <1>1. CASE d >= 1
    <2>1. (d - 1) * M >= 0
      BY <1>1, Z3
    <2>2. (d - 1) * M = d * M - M
      BY Z3
    <2> QED BY <2>1, <2>2
  <1>2. CASE d <= -1
    <2>1. (-d - 1) * M >= 0
      BY <1>2, Z3
    <2>2. (-d - 1) * M = -(d * M) - M
      BY Z3
    <2> QED BY <2>1, <2>2
  <1> QED BY <1>1, <1>2

\* Wrapping as one goes is wrapping once.
LEMMA WrapOnce ==
  ASSUME NEW M \in Nat, 0 < M, NEW a \in Nat, NEW s \in Nat
  PROVE  ((a % M) + s) % M = (a + s) % M
  <1> DEFINE r1 == a % M
             k1 == a \div M
             b == r1 + s
             r2 == b % M
             k2 == b \div M
             r3 == (a + s) % M
             k3 == (a + s) \div M
  <1>1. a = k1 * M + r1 /\ k1 \in Int /\ r1 \in 0..(M - 1)
    BY Z3
  <1>2. b \in Nat
    BY <1>1
  <1> HIDE DEF b
  <1>3. b = k2 * M + r2 /\ k2 \in Int /\ r2 \in 0..(M - 1)
    BY <1>2, Z3
  <1>4. a + s = k3 * M + r3 /\ k3 \in Int /\ r3 \in 0..(M - 1)
    BY Z3
  <1>5. b = r1 + s
    BY DEF b
  <1> HIDE DEF r1, k1, r2, k2, r3, k3
  <1>6. k1 * M + k2 * M - k3 * M = (k1 + k2 - k3) * M /\ k1 * M \in Int /\ k2 * M \in Int /\ k3 * M \in Int
    BY <1>1, <1>3, <1>4, Z3
  <1> DEFINE d == k1 + k2 - k3
  <1>7. d * M = r3 - r2 /\ d \in Int
    BY <1>1, <1>3, <1>4, <1>5, <1>6
  <1> HIDE DEF d
  <1>8. -M < d * M /\ d * M < M
    BY <1>3, <1>4, <1>7
  <1>9. d = 0
    BY <1>7, <1>8, SmallMultiple
  <1>10. r2 = r3
    BY <1>3, <1>4, <1>7, <1>9
  <1> QED BY <1>10 DEF r1, r2, r3, b
\* The display file is an interval of lines, and not an empty one.
LEMMA DisplayLines ==
  ASSUME NEW m
  PROVE  /\ FirstLine(m) \in Nat /\ LastLine(m) \in Nat
         /\ IcaLines <= FirstLine(m) /\ FirstLine(m) <= LastLine(m) /\ LastLine(m) <= TotalLines - 1
         /\ \A l \in Int : DisplayFileLine(m, l) <=> (FirstLine(m) <= l /\ l <= LastLine(m))
  <1>1. CASE Masked(m)
    <2>1. FirstLine(m) = IcaLines + MaskLines /\ LastLine(m) = TotalLines - 1 - MaskLines
      BY <1>1 DEF FirstLine, LastLine, Margin
    <2>2. \A l : DisplayFileLine(m, l) <=>
                    (l \in Active /\ l \in (IcaLines + MaskLines)..(TotalLines - MaskLines - 1))
      BY <1>1 DEF DisplayFileLine
    <2> QED BY <2>1, <2>2, Geometry DEF Active
  <1>2. CASE ~Masked(m)
    <2>1. FirstLine(m) = IcaLines /\ LastLine(m) = TotalLines - 1
      BY <1>2, Geometry DEF FirstLine, LastLine, Margin
    <2>2. \A l : DisplayFileLine(m, l) <=> l \in Active
      BY <1>2 DEF DisplayFileLine
    <2> QED BY <2>1, <2>2, Geometry DEF Active
  <1> QED BY <1>1, <1>2

\* The lines after which the slots are run are those that another follows.
LEMMA SlotLines ==
  ASSUME NEW m, NEW l \in Nat, 0 < l
  PROVE  /\ AdvanceDca(m, l) => SlotsAt(m, l) = SlotsAt(m, l - 1) + 1
         /\ ~AdvanceDca(m, l) => SlotsAt(m, l) = SlotsAt(m, l - 1)
         /\ l < IcaLines => SlotsAt(m, l) = 1 /\ SlotsAt(m, l - 1) = 1
         /\ SlotsAt(m, 0) = 1 /\ SlotsAt(m, l - 1) \in Nat
  <1> DEFINE F == FirstLine(m)
             L == LastLine(m)
  <1>1. /\ F \in Nat /\ L \in Nat /\ IcaLines <= F /\ F <= L
        /\ \A k \in Int : DisplayFileLine(m, k) <=> (F <= k /\ k <= L)
    BY DisplayLines
  <1>2. AdvanceDca(m, l) <=> (F <= l /\ l + 1 <= L)
    BY <1>1 DEF AdvanceDca
  <1>3. \A k \in Int : SlotsAt(m, k) = IF k < F THEN 1 ELSE IF k < L THEN k - F + 2 ELSE L - F + 1
    BY DEF SlotsAt
  <1> HIDE DEF F, L
  <1>4. /\ SlotsAt(m, l) = IF l < F THEN 1 ELSE IF l < L THEN l - F + 2 ELSE L - F + 1
        /\ SlotsAt(m, l - 1) = IF l - 1 < F THEN 1 ELSE IF l - 1 < L THEN l - 1 - F + 2 ELSE L - F + 1
        /\ SlotsAt(m, 0) = IF 0 < F THEN 1 ELSE IF 0 < L THEN 0 - F + 2 ELSE L - F + 1
    BY <1>3
  <1> QED BY <1>1, <1>2, <1>4, Geometry

\* The geometry is that of DCR1 and ST.
LEMMA SameGeometry ==
  ASSUME NEW m, NEW n, n.dcr = m.dcr, n.st = m.st
  PROVE  /\ \A l : DisplayFileLine(n, l) = DisplayFileLine(m, l)
         /\ \A l : AdvanceDca(n, l) = AdvanceDca(m, l)
         /\ \A l : SlotsAt(n, l) = SlotsAt(m, l)
         /\ \A l, ph : Drawn(n, l, ph) = Drawn(m, l, ph)
         /\ \A p : DcaEnabled(n, p) = DcaEnabled(m, p)
  <1>1. Masked(n) = Masked(m)
    BY Zenon DEF Masked, Compatibility
  <1>2. \A l : DisplayFileLine(n, l) = DisplayFileLine(m, l)
    BY <1>1, Zenon DEF DisplayFileLine
  <1>3. \A l : AdvanceDca(n, l) = AdvanceDca(m, l)
    BY <1>2, Zenon DEF AdvanceDca
  <1>4. \A l : SlotsAt(n, l) = SlotsAt(m, l)
    BY <1>1, Zenon DEF SlotsAt, FirstLine, LastLine, Margin
  <1>5. \A l, ph : Drawn(n, l, ph) = Drawn(m, l, ph)
    BY <1>2, Zenon DEF Drawn
  <1>6. \A p : DcaEnabled(n, p) = DcaEnabled(m, p)
    BY Zenon DEF DcaEnabled
  <1> QED BY <1>2, <1>3, <1>4, <1>5, <1>6

\* A pointer so many slots on, and one slot more.
LEMMA OneMoreSlot ==
  ASSUME NEW a \in PixelAddress, NEW k \in Nat
  PROVE  (((a + Slot * k) % MemoryTop) + Slot) % MemoryTop = (a + Slot * (k + 1)) % MemoryTop
  <1>1. Slot * k \in Nat /\ Slot * (k + 1) = Slot * k + Slot /\ Slot \in Nat
    BY Geometry, Z3
  <1>2. a + Slot * k \in Nat /\ MemoryTop \in Nat /\ 0 < MemoryTop
    BY <1>1, Geometry DEF PixelAddress
  <1>3. (((a + Slot * k) % MemoryTop) + Slot) % MemoryTop = ((a + Slot * k) + Slot) % MemoryTop
    BY <1>1, <1>2, WrapOnce
  <1>4. (a + Slot * k) + Slot = a + Slot * (k + 1)
    BY <1>1 DEF PixelAddress
  <1> QED BY <1>3, <1>4

\* The rows of the two phases are different rows of the picture.
LEMMA RowsApart ==
  ASSUME NEW l \in Active, NEW k \in Active, NEW u \in {0, 1}, NEW v \in {0, 1}
  PROVE  /\ RowOf(l, u) \in Row /\ RowOf(l, u) \in Int
         /\ RowOf(l, u) = RowOf(k, v) => l = k /\ u = v
  BY Geometry DEF RowOf, Row, Active

-----------------------------------------------------------------------------
(* The registers the guest and the display write.                          *)

\* The pin follows what was written of the status and the masks.
LEMMA Refreshed ==
  ASSUME NEW m, RegistersOK(m), NEW k, DOMAIN k = McdFields,
         \A f \in McdFields \ {"it", "di", "st", "int"} : k[f] = m[f]
  PROVE  LET n == RefreshIntLine(k) IN
         RegistersOK(n) /\ KeepsPointers(m, n) /\ n.dcr = m.dcr /\ n.pa = m.pa /\ n.st = k.st
  <1> DEFINE n == RefreshIntLine(k)
  <1>1. /\ DOMAIN n = McdFields /\ n.int = IntCause(k)
        /\ \A f \in McdFields \ {"int"} : n[f] = k[f]
    BY DEF RefreshIntLine, McdFields
  <1> HIDE DEF n
  <1>2. n.it = k.it /\ n.di = k.di /\ n.st = k.st
    BY <1>1 DEF McdFields
  <1>3. n.int = IntCause(n)
    BY <1>1, <1>2, CauseOf
  <1>4. /\ n.pa = m.pa /\ n.dcr = m.dcr /\ n.vsr = m.vsr /\ n.dcp = m.dcp /\ n.dca = m.dca
        /\ n.matte = m.matte /\ n.spans = m.spans /\ n.cursor = m.cursor
    BY <1>1 DEF McdFields
  <1>5. RegistersOK(n) /\ KeepsPointers(m, n) /\ n.dcr = m.dcr /\ n.pa = m.pa /\ n.st = k.st
    BY <1>1, <1>2, <1>3, <1>4 DEF RegistersOK, KeepsPointers
  <1> QED BY <1>5 DEF n

\* The flag of the display area and the parity.
LEMMA FlagFields ==
  ASSUME NEW m, RegistersOK(m)
  PROVE  /\ \A v : LET n == [m EXCEPT !.da = v] IN
                   RegistersOK(n) /\ KeepsPointers(m, n) /\ n.dcr = m.dcr /\ n.st = m.st /\ n.pa = m.pa
         /\ \A v \in {0, 1} : LET n == [m EXCEPT !.pa = v] IN
                   RegistersOK(n) /\ KeepsPointers(m, n) /\ n.dcr = m.dcr /\ n.st = m.st /\ n.pa = v
  <1>1. DOMAIN m = McdFields
    BY DEF RegistersOK
  <1>2. ASSUME NEW v
        PROVE  LET n == [m EXCEPT !.da = v] IN
               RegistersOK(n) /\ KeepsPointers(m, n) /\ n.dcr = m.dcr /\ n.st = m.st /\ n.pa = m.pa
    <2> DEFINE n == [m EXCEPT !.da = v]
    <2>1. DOMAIN n = McdFields /\ \A f \in McdFields \ {"da"} : n[f] = m[f]
      BY <1>1
    <2> HIDE DEF n
    <2>2. /\ n.pa = m.pa /\ n.st = m.st /\ n.dcr = m.dcr /\ n.vsr = m.vsr /\ n.dcp = m.dcp /\ n.dca = m.dca
          /\ n.matte = m.matte /\ n.spans = m.spans /\ n.cursor = m.cursor
          /\ n.it = m.it /\ n.di = m.di /\ n.int = m.int
      BY <2>1 DEF McdFields
    <2>3. IntCause(n) = IntCause(m)
      BY <2>2, CauseOf
    <2>4. RegistersOK(n) /\ KeepsPointers(m, n) /\ n.dcr = m.dcr /\ n.st = m.st /\ n.pa = m.pa
      BY <2>1, <2>2, <2>3 DEF RegistersOK, KeepsPointers
    <2> QED BY <2>4 DEF n
  <1>3. ASSUME NEW v \in {0, 1}
        PROVE  LET n == [m EXCEPT !.pa = v] IN
               RegistersOK(n) /\ KeepsPointers(m, n) /\ n.dcr = m.dcr /\ n.st = m.st /\ n.pa = v
    <2> DEFINE n == [m EXCEPT !.pa = v]
    <2>1. DOMAIN n = McdFields /\ (\A f \in McdFields \ {"pa"} : n[f] = m[f]) /\ n.pa = v
      BY <1>1 DEF McdFields
    <2> HIDE DEF n
    <2>2. /\ n.st = m.st /\ n.dcr = m.dcr /\ n.vsr = m.vsr /\ n.dcp = m.dcp /\ n.dca = m.dca
          /\ n.matte = m.matte /\ n.spans = m.spans /\ n.cursor = m.cursor
          /\ n.it = m.it /\ n.di = m.di /\ n.int = m.int
      BY <2>1 DEF McdFields
    <2>3. IntCause(n) = IntCause(m)
      BY <2>2, CauseOf
    <2>4. RegistersOK(n) /\ KeepsPointers(m, n) /\ n.dcr = m.dcr /\ n.st = m.st /\ n.pa = v
      BY <2>1, <2>2, <2>3 DEF RegistersOK, KeepsPointers
    <2> QED BY <2>4 DEF n
  <1> QED BY <1>2, <1>3

\* A new control register.
LEMMA DcrField ==
  ASSUME NEW m, RegistersOK(m), NEW p \in Path, NEW v \in Bits
  PROVE  RegistersOK([m EXCEPT !.dcr[p] = v])
  <1> DEFINE n == [m EXCEPT !.dcr[p] = v]
  <1>1. DOMAIN m = McdFields
    BY DEF RegistersOK
  <1>2. /\ DOMAIN n = McdFields /\ (\A f \in McdFields \ {"dcr"} : n[f] = m[f])
        /\ n.dcr = [m.dcr EXCEPT ![p] = v]
    BY <1>1 DEF McdFields
  <1> HIDE DEF n
  <1>3. /\ n.pa = m.pa /\ n.vsr = m.vsr /\ n.dcp = m.dcp /\ n.dca = m.dca
        /\ n.matte = m.matte /\ n.spans = m.spans /\ n.cursor = m.cursor
        /\ n.it = m.it /\ n.di = m.di /\ n.int = m.int
    BY <1>2 DEF McdFields
  <1>4. IntCause(n) = IntCause(m)
    BY <1>3, CauseOf
  <1>5. n.dcr \in [Path -> Bits]
    BY <1>2 DEF RegistersOK
  <1>6. RegistersOK(n)
    BY <1>2, <1>3, <1>4, <1>5 DEF RegistersOK
  <1> QED BY <1>6 DEF n

\* The registers at power on.
LEMMA PowerOK ==
  ASSUME NEW m, DOMAIN m = McdFields PROVE RegistersOK(Power(m))
  <1> DEFINE n == Power(m)
  <1>1. /\ DOMAIN n = McdFields /\ n.pa = 0 /\ n.int = FALSE /\ n.it = [p \in Path |-> FALSE]
        /\ n.dcr = [p \in Path |-> [de |-> FALSE, cf |-> FALSE, fd |-> FALSE, sm |-> FALSE,
                                    ica |-> FALSE, dca |-> FALSE]]
        /\ n.vsr = [p \in Path |-> 0] /\ n.dcp = [p \in Path |-> 0] /\ n.dca = [p \in Path |-> 0]
        /\ n.cursor = [on |-> 0, off |-> 0]
        /\ n.matte = [k \in MatteIndex |-> [x |-> 0, op |-> 0, mf |-> 0, wf |-> 0]]
        /\ n.spans = [x \in 0..(Wide - 1) |-> [wf |-> [p \in Path |-> 0], mf |-> [p \in Path |-> FALSE]]]
    BY DEF Power, McdFields
  <1> HIDE DEF n
  <1>2. n.int = IntCause(n)
    <2>1. ~IntCause(n)
      BY <1>1 DEF IntCause
    <2>2. IntCause(n) \in BOOLEAN
      BY Zenon DEF IntCause
    <2> QED BY <1>1, <2>1, <2>2
  <1>3. n.dcr \in [Path -> Bits]
    BY <1>1 DEF Bits
  <1>4. 0 \in PixelAddress
    BY Geometry DEF PixelAddress
  <1>5. n.vsr \in [Path -> PixelAddress] /\ n.dcp \in [Path -> PixelAddress] /\ n.dca \in [Path -> PixelAddress]
    BY <1>1, <1>4
  <1>6. n.cursor \in Cursor /\ n.matte \in [MatteIndex -> Matte]
    BY <1>1 DEF Cursor, Matte, Path
  <1>7. ASSUME NEW x \in 0..(Wide - 1) PROVE n.spans[x].mf \in [Path -> BOOLEAN]
    <2> DEFINE off == [p \in Path |-> FALSE]
               zero == [p \in Path |-> 0]
               spans == [y \in 0..(Wide - 1) |-> [wf |-> zero, mf |-> off]]
    <2>1. off \in [Path -> BOOLEAN]
      OBVIOUS
    <2>2. n.spans = spans
      BY <1>1
    <2> HIDE DEF off, zero
    <2>3. spans[x].mf = off
      OBVIOUS
    <2> HIDE DEF spans
    <2> QED BY <2>1, <2>2, <2>3
  <1>8. RegistersOK(n)
    BY <1>1, <1>2, <1>3, <1>5, <1>6, <1>7 DEF RegistersOK
  <1> QED BY <1>8 DEF n

\* The blinking of the cursor stays within the units of its shape.
LEMMA BlinkedTyped ==
  ASSUME NEW m, m.cursor \in Cursor, blink.active \in BOOLEAN, blink.time \in 0..(7 * BlinkUnit)
  PROVE  Blinked(m).active \in BOOLEAN /\ Blinked(m).time \in 0..(7 * BlinkUnit)
  <1> DEFINE time == blink.time + 1
             off == ~blink.active /\ time >= m.cursor.on * BlinkUnit
             t == IF off THEN 0 ELSE time
             hidden == blink.active \/ off
             on == hidden /\ t >= m.cursor.off * BlinkUnit
  <1>1. Blinked(m) = [time |-> IF on THEN 0 ELSE t, active |-> hidden /\ ~on]
    BY DEF Blinked
  <1>2. (hidden /\ ~on) \in BOOLEAN
    BY Zenon
  <1>3. \A k \in 0..7 : k * BlinkUnit <= 7 * BlinkUnit /\ k * BlinkUnit \in Nat
    BY Geometry, Z3
  <1>4. /\ m.cursor.on * BlinkUnit <= 7 * BlinkUnit /\ m.cursor.on * BlinkUnit \in Nat
        /\ m.cursor.off * BlinkUnit <= 7 * BlinkUnit /\ m.cursor.off * BlinkUnit \in Nat
        /\ 7 * BlinkUnit \in Nat
    BY <1>3, Geometry DEF Cursor
  <1> DEFINE x == m.cursor.on * BlinkUnit
             y == m.cursor.off * BlinkUnit
             z == 7 * BlinkUnit
  <1>5. time \in Nat
    BY <1>4
  <1>6. (IF on THEN 0 ELSE t) \in 0..z
    <2> HIDE DEF x, y, z, time
    <2>1. CASE off
      <3>1. t = 0
        BY <2>1
      <3> QED BY <1>4, <3>1 DEF z
    <2>2. CASE ~off /\ ~blink.active
      <3>1. t = time /\ time < x
        BY <1>4, <1>5, <2>2 DEF x
      <3> QED BY <1>4, <1>5, <3>1 DEF x, z
    <2>3. CASE ~off /\ blink.active
      <3>1. t = time /\ (on \/ time < y)
        BY <1>4, <1>5, <2>3 DEF y
      <3> QED BY <1>4, <1>5, <3>1 DEF y, z
    <2> QED BY <2>1, <2>2, <2>3
  <1> QED BY <1>1, <1>2, <1>6

-----------------------------------------------------------------------------
(* The steps.                                                              *)

\* Nothing the invariant reads has moved but the status.
LEMMA StatusOnly ==
  ASSUME McdIInv, RegistersOK(mcd'), KeepsPointers(mcd, mcd'),
         mcd'.dcr = mcd.dcr, mcd'.st = mcd.st, mcd'.pa = mcd.pa,
         UNCHANGED <<memory, line, blink, rows, shown, field>>
  PROVE  McdIInv'
  <1>1. /\ RegistersOK(mcd) /\ DisplayType /\ SlotsFetched /\ RowsDrawn /\ Published
    BY DEF McdIInv
  <1>2. /\ \A l : SlotsAt(mcd', l) = SlotsAt(mcd, l)
        /\ \A l, ph : Drawn(mcd', l, ph) = Drawn(mcd, l, ph)
        /\ \A p : DcaEnabled(mcd', p) = DcaEnabled(mcd, p)
    BY SameGeometry
  <1>3. DisplayType' /\ Published'
    BY <1>1 DEF DisplayType, Published
  <1>4. Phase' = Phase
    BY DEF Phase
  <1>5. SlotsFetched'
    BY <1>1, <1>2 DEF SlotsFetched, KeepsPointers, Linked
  <1>6. RowsDrawn'
    BY <1>1, <1>2, <1>4 DEF RowsDrawn, RowOf
  <1> QED BY <1>3, <1>5, <1>6 DEF McdIInv

\* Once the field is disturbed nothing is claimed of it.
LEMMA DisturbedKeeps ==
  ASSUME McdIInv, Disturbed, RegistersOK(mcd'), memory' \in Image, UNCHANGED <<line, blink, rows, shown>>
  PROVE  McdIInv'
  <1>1. field \in FieldType /\ DisplayType /\ Published
    BY DEF McdIInv, DisplayType
  <1>2. field' \in FieldType /\ field'.calm = FALSE
    BY <1>1 DEF Disturbed, FieldType
  <1>3. DisplayType' /\ Published'
    BY <1>1, <1>2 DEF DisplayType, Published
  <1> QED BY <1>2, <1>3 DEF McdIInv, SlotsFetched, RowsDrawn

\* The guest's registers.
LEMMA GuestKeeps ==
  ASSUME McdIInv,
         \/ ReadCsr2
         \/ \E p \in Path, di \in BOOLEAN, st \in BOOLEAN : WriteCsr(p, di, st)
         \/ \E p \in Path, value \in Bits : WriteDcr(p, value)
         \/ \E p \in Path, which \in {"vsr", "dca"}, value \in PixelAddress : WritePointer(p, which, value)
         \/ \E program \in Image : Rewrite(program)
  PROVE  McdIInv'
  <1>1. RegistersOK(mcd) /\ memory \in Image /\ DOMAIN mcd = McdFields
    BY DEF McdIInv, DisplayType, RegistersOK
  <1>2. CASE ReadCsr2
    <2> DEFINE k == [mcd EXCEPT !.it = [p \in Path |-> FALSE]]
    <2>1. DOMAIN k = McdFields /\ \A f \in McdFields \ {"it", "di", "st", "int"} : k[f] = mcd[f]
      BY <1>1
    <2>2. k.st = mcd.st
      BY <1>1 DEF McdFields
    <2>3. mcd' = RefreshIntLine(k)
      BY <1>2 DEF ReadCsr2
    <2> HIDE DEF k
    <2>4. /\ RegistersOK(mcd') /\ KeepsPointers(mcd, mcd') /\ mcd'.dcr = mcd.dcr /\ mcd'.pa = mcd.pa
          /\ mcd'.st = mcd.st
      BY <1>1, <2>1, <2>2, <2>3, Refreshed
    <2> QED BY <1>2, <2>4, StatusOnly DEF ReadCsr2
  <1>3. ASSUME NEW p \in Path, NEW di \in BOOLEAN, NEW st \in BOOLEAN, WriteCsr(p, di, st) PROVE McdIInv'
    <2> DEFINE k == [mcd EXCEPT !.di[p] = di, !.st = IF p = 0 THEN st ELSE @]
    <2>1. DOMAIN k = McdFields /\ \A f \in McdFields \ {"it", "di", "st", "int"} : k[f] = mcd[f]
      BY <1>1
    <2>2. mcd' = RefreshIntLine(k)
      BY <1>3 DEF WriteCsr
    <2> HIDE DEF k
    <2>3. RegistersOK(mcd')
      BY <1>1, <2>1, <2>2, Refreshed
    <2> QED BY <1>1, <1>3, <2>3, DisturbedKeeps DEF WriteCsr
  <1>4. ASSUME NEW p \in Path, NEW value \in Bits, WriteDcr(p, value) PROVE McdIInv'
    <2>1. RegistersOK(mcd')
      BY <1>1, <1>4, DcrField DEF WriteDcr
    <2> QED BY <1>1, <1>4, <2>1, DisturbedKeeps DEF WriteDcr
  <1>5. ASSUME NEW p \in Path, NEW which \in {"vsr", "dca"}, NEW value \in PixelAddress,
               WritePointer(p, which, value)
        PROVE  McdIInv'
    <2>1. RegistersOK([mcd EXCEPT !.vsr[p] = value]) /\ RegistersOK([mcd EXCEPT !.dca[p] = value])
      BY <1>1, VsrOnly, DcaOnly
    <2>2. RegistersOK(mcd')
      BY <1>5, <2>1 DEF WritePointer
    <2> QED BY <1>1, <1>5, <2>2, DisturbedKeeps DEF WritePointer
  <1>6. ASSUME NEW program \in Image, Rewrite(program) PROVE McdIInv'
    <2>1. RegistersOK(mcd')
      BY <1>1, <1>6 DEF Rewrite, RegistersOK, IntCause
    <2> QED BY <1>6, <2>1, DisturbedKeeps DEF Rewrite
  <1> QED BY <1>2, <1>3, <1>4, <1>5, <1>6

\* Power on and reset.
LEMMA ResetKeeps ==
  ASSUME mcd' = Power(mcd), DOMAIN mcd = McdFields, memory' \in Image, line' = 0,
         blink' = [time |-> 0, active |-> FALSE],
         rows' = [r \in Row |-> Undrawn], shown' = rows', field' = [entry |-> 0, calm |-> FALSE, steady |-> 0]
  PROVE  McdIInv'
  <1>1. RegistersOK(Power(mcd))
    BY PowerOK
  <1>2. RegistersOK(mcd')
    BY <1>1
  <1>3. DisplayType' /\ Published'
    BY Geometry DEF DisplayType, Published, FieldType
  <1> QED BY <1>2, <1>3 DEF McdIInv, SlotsFetched, RowsDrawn

\* A field begins: both paths fetch their first slot, and the rows of the field
\* before are those of the other phase.
LEMMA FieldBeginsKeeps ==
  ASSUME McdIInv, FieldBegins PROVE McdIInv'
  <1>1. RegistersOK(mcd) /\ DisplayType /\ SlotsFetched /\ RowsDrawn /\ Published
    BY DEF McdIInv
  <1>2. /\ line = TotalLines - 1 /\ line' = 0 /\ mcd' = FieldTables([mcd EXCEPT !.da = FALSE])
        /\ blink' = Blinked(mcd') /\ field' = FieldStart(IF field.calm THEN 1 ELSE 0)
        /\ UNCHANGED <<memory, rows, shown>>
    BY DEF FieldBegins
  <1> DEFINE m == [mcd EXCEPT !.da = FALSE]
  <1>3. RegistersOK(m) /\ m.dcr = mcd.dcr /\ m.st = mcd.st /\ m.pa = mcd.pa
    BY <1>1, FlagFields
  <1> HIDE DEF m
  <1>4. memory \in Image
    BY <1>1 DEF DisplayType
  <1>5. mcd' = FieldTables(m)
    BY <1>2 DEF m
  <1>6. /\ RegistersOK(mcd') /\ Leaves(m, mcd')
        /\ \A p \in Path : (DcaEnabled(mcd', p) /\ ~Linked(p)) =>
              mcd'.dca[p] = (mcd'.dcp[p] + Slot) % MemoryTop
    BY <1>3, <1>4, <1>5, FieldTablesKeep
  <1>7. mcd'.dcr = mcd.dcr /\ mcd'.st = mcd.st /\ mcd'.pa = mcd.pa
    BY <1>3, <1>6 DEF Leaves
  <1>8. /\ \A l, ph : Drawn(mcd', l, ph) = Drawn(mcd, l, ph)
    BY <1>7, SameGeometry
  <1>9. mcd'.cursor \in Cursor /\ mcd'.pa \in {0, 1} /\ mcd'.dcp \in [Path -> PixelAddress]
    BY <1>6 DEF RegistersOK
  <1>10. blink'.active \in BOOLEAN /\ blink'.time \in 0..(7 * BlinkUnit)
    BY <1>1, <1>2, <1>9, BlinkedTyped DEF DisplayType
  <1>11. field' = [entry |-> IcaEntry(mcd'), calm |-> TRUE, steady |-> IF field.calm THEN 1 ELSE 0]
    BY <1>2 DEF FieldStart
  <1>12. IcaEntry(mcd') \in {0, 1} /\ (mcd'.dcr[0].sm => IcaEntry(mcd') = 1 - mcd'.pa)
    BY <1>9 DEF IcaEntry
  <1>13. field' \in FieldType
    BY <1>11, <1>12 DEF FieldType
  <1>14. DisplayType'
    BY <1>1, <1>2, <1>10, <1>13, Geometry DEF DisplayType
  <1>15. 0 # TotalLines - 1
    BY Geometry
  <1>16. Published'
    BY <1>2, <1>15 DEF Published
  <1>17. SlotsFetched'
    <2>1. SlotsAt(mcd', 0) = 1
      <3>1. IcaLines <= FirstLine(mcd') /\ FirstLine(mcd') \in Nat
        BY DisplayLines
      <3> QED BY <3>1, Geometry DEF SlotsAt
    <2>2. Slot * 1 = Slot
      BY Geometry
    <2>3. \A p : Linked(p)' = Linked(p)
      BY <1>2 DEF Linked
    <2>4. ASSUME NEW p \in Path, DcaEnabled(mcd', p), ~Linked(p)'
          PROVE  mcd'.dca[p] = (mcd'.dcp[p] + Slot * SlotsAt(mcd', line')) % MemoryTop
      BY <1>2, <1>6, <2>1, <2>2, <2>3, <2>4
    <2> QED BY <2>4 DEF SlotsFetched
  <1>18. RowsDrawn'
    <2> SUFFICES ASSUME mcd'.dcr[0].de, mcd'.dcr[0].sm
                 PROVE  /\ field'.entry = 1 - Phase'
                        /\ \A l \in Active : l <= line' => rows'[RowOf(l, Phase')] = Drawn(mcd', l, Phase')
                        /\ field'.steady = 1 =>
                              \A l \in Active : rows'[RowOf(l, 1 - Phase')] = Drawn(mcd', l, 1 - Phase')
      BY DEF RowsDrawn, RowOf
    <2>1. Phase' = mcd.pa /\ Phase = 1 - mcd.pa /\ mcd.pa \in {0, 1}
      BY <1>2, <1>7, <1>9, <1>15 DEF Phase
    <2>2. field'.entry = 1 - Phase'
      BY <1>7, <1>11, <1>12, <2>1
    <2>3. \A l \in Active : ~(l <= line')
      BY <1>2, Geometry DEF Active
    <2>4. ASSUME field'.steady = 1, NEW l \in Active
          PROVE  rows'[RowOf(l, 1 - Phase')] = Drawn(mcd', l, 1 - Phase')
      <3>1. field.calm
        BY <1>11, <2>4
      <3>2. l <= line
        BY <1>2, Geometry DEF Active
      <3>3. rows[RowOf(l, Phase)] = Drawn(mcd, l, Phase)
        BY <1>1, <1>7, <3>1, <3>2 DEF RowsDrawn
      <3>4. 1 - Phase' = Phase
        BY <2>1
      <3> QED BY <1>2, <1>8, <3>3, <3>4
    <2> QED BY <2>2, <2>3, <2>4
  <1> QED BY <1>6, <1>14, <1>16, <1>17, <1>18 DEF McdIInv

\* A line before the picture.
LEMMA BlankLineKeeps ==
  ASSUME McdIInv, BlankLine PROVE McdIInv'
  <1>1. RegistersOK(mcd) /\ DisplayType /\ SlotsFetched /\ RowsDrawn /\ Published
    BY DEF McdIInv
  <1>2. line + 1 < IcaLines /\ line' = line + 1 /\ UNCHANGED <<mcd, memory, blink, rows, shown, field>>
    BY DEF BlankLine
  <1>3. line \in 0..(TotalLines - 1)
    BY <1>1 DEF DisplayType
  <1>4. line # TotalLines - 1 /\ line' # TotalLines - 1 /\ line' \in 0..(TotalLines - 1)
    BY <1>2, <1>3, Geometry
  <1>5. RegistersOK(mcd') /\ DisplayType' /\ Published'
    <2>1. RegistersOK(mcd')
      BY <1>1, <1>2 DEF RegistersOK, IntCause
    <2> QED BY <1>1, <1>2, <1>4, <2>1 DEF DisplayType, Published
  <1>6. SlotsAt(mcd, line') = SlotsAt(mcd, line)
    <2>1. line' \in Nat /\ 0 < line' /\ line' - 1 = line /\ line' < IcaLines
      BY <1>2, <1>3
    <2>2. SlotsAt(mcd, line') = 1 /\ SlotsAt(mcd, line' - 1) = 1
      BY <2>1, SlotLines
    <2> QED BY <2>1, <2>2
  <1>7. SlotsFetched'
    BY <1>1, <1>2, <1>6 DEF SlotsFetched, Linked
  <1>8. Phase' = Phase
    BY <1>2, <1>4 DEF Phase
  <1>9. \A l \in Active : ~(l <= line')
    BY <1>2, <1>3, Geometry DEF Active
  <1>10. RowsDrawn'
    BY <1>1, <1>2, <1>8, <1>9 DEF RowsDrawn, RowOf
  <1> QED BY <1>5, <1>7, <1>10 DEF McdIInv

\* A line of the picture: it takes a slot of both paths, or of neither, and
\* fills the row of its phase.
LEMMA ActiveLineKeeps ==
  ASSUME McdIInv, ActiveLine PROVE McdIInv'
  <1> DEFINE l == line + 1
             last == l = TotalLines - 1
             drawn == IF DisplayFileLine(mcd, l) THEN field.entry ELSE Black
             m == [mcd EXCEPT !.da = TRUE]
             x == IF m.dcr[0].de THEN Rendered(m, l) ELSE m
             after == LineTables(x, l)
  <1>1. RegistersOK(mcd) /\ DisplayType /\ SlotsFetched /\ RowsDrawn /\ Published
    BY DEF McdIInv
  <1>2. /\ l \in Active /\ line' = l
        /\ rows' = IF mcd.dcr[0].de
                   THEN [r \in Row |-> IF r \in OutputRows(mcd, l) THEN drawn ELSE rows[r]]
                   ELSE rows
        /\ shown' = IF last THEN rows' ELSE shown
        /\ mcd' = IF last THEN [after EXCEPT !.pa = 1 - @] ELSE after
        /\ UNCHANGED <<memory, blink, field>>
    BY DEF ActiveLine
  <1>3. line \in 0..(TotalLines - 1) /\ memory \in Image
    BY <1>1 DEF DisplayType
  <1>4. RegistersOK(m) /\ KeepsPointers(mcd, m) /\ m.dcr = mcd.dcr /\ m.st = mcd.st /\ m.pa = mcd.pa
    BY <1>1, FlagFields
  <1> HIDE DEF m
  <1>5. RegistersOK(x) /\ Leaves(m, x) /\ KeepsPointers(m, x)
    <2>1. RegistersOK(Rendered(m, l)) /\ Leaves(m, Rendered(m, l)) /\ KeepsPointers(m, Rendered(m, l))
      BY <1>4, RenderedKeeps
    <2> QED BY <1>4, <2>1 DEF Leaves, KeepsPointers
  <1> HIDE DEF x
  <1>6. /\ RegistersOK(after) /\ Leaves(x, after)
        /\ ~AdvanceDca(x, l) => after = x
        /\ \A p \in Path : (AdvanceDca(x, l) /\ DcaEnabled(x, p) /\ ~Linked(p)) =>
              after.dcp[p] = x.dcp[p] /\ after.dca[p] = (x.dca[p] + Slot) % MemoryTop
    BY <1>3, <1>5, LineTablesKeep
  <1> HIDE DEF after
  <1>7. after.pa = mcd.pa /\ after.dcr = mcd.dcr /\ after.st = mcd.st /\ mcd.pa \in {0, 1}
    BY <1>1, <1>4, <1>5, <1>6 DEF Leaves, RegistersOK
  <1>8. /\ RegistersOK(mcd') /\ KeepsPointers(after, mcd') /\ mcd'.dcr = mcd.dcr /\ mcd'.st = mcd.st
        /\ mcd'.pa = IF last THEN 1 - mcd.pa ELSE mcd.pa
    <2>1. CASE last
      <3> DEFINE v == 1 - mcd.pa
      <3>1. mcd' = [after EXCEPT !.pa = v] /\ v \in {0, 1}
        BY <1>2, <1>7, <2>1
      <3> HIDE DEF v
      <3>2. LET n == [after EXCEPT !.pa = v] IN
            RegistersOK(n) /\ KeepsPointers(after, n) /\ n.dcr = after.dcr /\ n.st = after.st /\ n.pa = v
        BY <1>6, <3>1, FlagFields
      <3> QED BY <1>7, <2>1, <3>1, <3>2 DEF v
    <2>2. CASE ~last
      <3>1. mcd' = after
        BY <1>2, <2>2
      <3>2. RegistersOK(mcd')
        BY <1>6, <3>1 DEF RegistersOK, IntCause
      <3> QED BY <1>7, <2>2, <3>1, <3>2 DEF KeepsPointers
    <2> QED BY <2>1, <2>2
  <1>9. /\ \A k : SlotsAt(mcd', k) = SlotsAt(mcd, k)
        /\ \A k, ph : Drawn(mcd', k, ph) = Drawn(mcd, k, ph)
        /\ \A p : DcaEnabled(mcd', p) = DcaEnabled(mcd, p)
    BY <1>8, SameGeometry
  <1>10. AdvanceDca(x, l) = AdvanceDca(mcd, l) /\ \A p : DcaEnabled(x, p) = DcaEnabled(mcd, p)
    <2>1. x.dcr = mcd.dcr /\ x.st = mcd.st
      BY <1>4, <1>5 DEF Leaves
    <2> QED BY <2>1, SameGeometry
  <1>11. l \in Nat /\ 0 < l /\ l - 1 = line /\ IcaLines <= l /\ l <= TotalLines - 1
    BY <1>2, <1>3, Geometry DEF Active
  <1>12. field \in FieldType
    BY <1>1 DEF DisplayType
  <1>13. rows' \in [Row -> {0, 1, Black, Undrawn}]
    <2>1. drawn \in {0, 1, Black}
      BY <1>12 DEF FieldType
    <2> HIDE DEF drawn, l
    <2> QED BY <1>1, <1>2, <2>1 DEF DisplayType
  <1>14. DisplayType'
    BY <1>1, <1>2, <1>11, <1>13, Geometry DEF DisplayType
  <1>15. Published'
    BY <1>2 DEF Published
  <1>16. SlotsFetched'
    <2>1. \A p : Linked(p)' = Linked(p)
      BY <1>2 DEF Linked
    <2>2. ASSUME NEW p \in Path, field.calm, DcaEnabled(mcd, p), ~Linked(p)
          PROVE  mcd'.dca[p] = (mcd'.dcp[p] + Slot * SlotsAt(mcd, l)) % MemoryTop
      <3>1. mcd.dca[p] = (mcd.dcp[p] + Slot * SlotsAt(mcd, line)) % MemoryTop
        BY <1>1, <2>2 DEF SlotsFetched
      <3>2. mcd'.dca = after.dca /\ mcd'.dcp = after.dcp /\ x.dca = mcd.dca /\ x.dcp = mcd.dcp
        BY <1>4, <1>5, <1>8 DEF KeepsPointers
      <3>3. /\ AdvanceDca(mcd, l) => SlotsAt(mcd, l) = SlotsAt(mcd, line) + 1
            /\ ~AdvanceDca(mcd, l) => SlotsAt(mcd, l) = SlotsAt(mcd, line)
            /\ SlotsAt(mcd, line) \in Nat
        <4> HIDE DEF l
        <4> QED BY <1>11, SlotLines
      <3>4. CASE ~AdvanceDca(mcd, l)
        BY <1>6, <1>10, <3>1, <3>2, <3>3, <3>4
      <3>5. CASE AdvanceDca(mcd, l)
        <4>1. after.dcp[p] = mcd.dcp[p] /\ after.dca[p] = (mcd.dca[p] + Slot) % MemoryTop
          BY <1>6, <1>10, <2>1, <2>2, <3>2, <3>5
        <4>2. mcd.dcp[p] \in PixelAddress
          BY <1>1 DEF RegistersOK
        <4>3. (((mcd.dcp[p] + Slot * SlotsAt(mcd, line)) % MemoryTop) + Slot) % MemoryTop
              = (mcd.dcp[p] + Slot * (SlotsAt(mcd, line) + 1)) % MemoryTop
          BY <3>3, <4>2, OneMoreSlot
        <4> QED BY <3>1, <3>2, <3>3, <3>5, <4>1, <4>3
      <3> QED BY <3>4, <3>5
    <2> QED BY <1>2, <1>9, <2>1, <2>2 DEF SlotsFetched
  <1>17. RowsDrawn'
    <2> SUFFICES ASSUME field.calm, mcd.dcr[0].de, mcd.dcr[0].sm
                 PROVE  /\ field.entry = 1 - Phase'
                        /\ \A k \in Active : k <= l => rows'[RowOf(k, Phase')] = Drawn(mcd, k, Phase')
                        /\ field.steady = 1 =>
                              \A k \in Active : rows'[RowOf(k, 1 - Phase')] = Drawn(mcd, k, 1 - Phase')
      BY <1>2, <1>8, <1>9 DEF RowsDrawn, RowOf
    <2>1. Phase = mcd.pa /\ Phase' = mcd.pa
      BY <1>2, <1>3, <1>7, <1>8, <1>11 DEF Phase
    <2>2. /\ field.entry = 1 - Phase
          /\ \A k \in Active : k <= line => rows[RowOf(k, Phase)] = Drawn(mcd, k, Phase)
          /\ field.steady = 1 =>
                \A k \in Active : rows[RowOf(k, 1 - Phase)] = Drawn(mcd, k, 1 - Phase)
      BY <1>1 DEF RowsDrawn
    <2>3. OutputRows(mcd, l) = {RowOf(l, mcd.pa)}
      BY DEF OutputRows, RowOf
    <2>4. \A r \in Row : rows'[r] = IF r = RowOf(l, mcd.pa) THEN drawn ELSE rows[r]
      BY <1>2, <2>3
    <2>5. drawn = Drawn(mcd, l, mcd.pa)
      BY <2>1, <2>2 DEF Drawn
    <2> HIDE DEF drawn
    <2>6. ASSUME NEW k \in Active, k <= l PROVE rows'[RowOf(k, mcd.pa)] = Drawn(mcd, k, mcd.pa)
      <3>1. RowOf(k, mcd.pa) \in Row /\ (RowOf(k, mcd.pa) = RowOf(l, mcd.pa) => k = l)
        BY <1>2, <1>7, RowsApart
      <3>2. CASE k = l
        BY <2>4, <2>5, <3>1, <3>2
      <3>3. CASE k # l
        <4>1. k <= line
          BY <1>3, <2>6, <3>3 DEF Active
        <4> QED BY <2>1, <2>2, <2>4, <3>1, <3>3, <4>1
      <3> QED BY <3>2, <3>3
    <2>7. ASSUME field.steady = 1, NEW k \in Active
          PROVE  rows'[RowOf(k, 1 - mcd.pa)] = Drawn(mcd, k, 1 - mcd.pa)
      <3>1. 1 - mcd.pa \in {0, 1} /\ 1 - mcd.pa # mcd.pa
        BY <1>7
      <3>2. RowOf(k, 1 - mcd.pa) \in Row /\ RowOf(k, 1 - mcd.pa) # RowOf(l, mcd.pa)
        BY <1>2, <1>7, <3>1, RowsApart
      <3> QED BY <2>1, <2>2, <2>4, <2>7, <3>2
    <2> QED BY <2>1, <2>2, <2>6, <2>7
  <1> QED BY <1>8, <1>14, <1>15, <1>16, <1>17 DEF McdIInv

\* Every step keeps the invariant.
LEMMA McdStep == McdIInv /\ [McdNext]_mcdVars => McdIInv'
  <1> SUFFICES ASSUME McdIInv, [McdNext]_mcdVars PROVE McdIInv'
    OBVIOUS
  <1>1. CASE UNCHANGED mcdVars
    <2>1. RegistersOK(mcd') /\ KeepsPointers(mcd, mcd') /\ mcd'.dcr = mcd.dcr /\ mcd'.st = mcd.st
          /\ mcd'.pa = mcd.pa
      BY <1>1 DEF mcdVars, McdIInv, RegistersOK, IntCause, KeepsPointers
    <2> QED BY <1>1, <2>1, StatusOnly DEF mcdVars
  <1>2. CASE FieldBegins
    BY <1>2, FieldBeginsKeeps
  <1>3. CASE BlankLine
    BY <1>3, BlankLineKeeps
  <1>4. CASE ActiveLine
    BY <1>4, ActiveLineKeeps
  <1>5. CASE ResetMcd
    <2>1. DOMAIN mcd = McdFields /\ memory \in Image
      BY DEF McdIInv, RegistersOK, DisplayType
    <2> QED BY <1>5, <2>1, ResetKeeps DEF ResetMcd
  <1>6. CASE \/ ReadCsr2
             \/ \E p \in Path, di \in BOOLEAN, st \in BOOLEAN : WriteCsr(p, di, st)
             \/ \E p \in Path, value \in Bits : WriteDcr(p, value)
             \/ \E p \in Path, which \in {"vsr", "dca"}, value \in PixelAddress : WritePointer(p, which, value)
             \/ \E program \in Image : Rewrite(program)
    BY <1>6, GuestKeeps
  <1> QED BY <1>1, <1>2, <1>3, <1>4, <1>5, <1>6 DEF McdNext, Line

\* The initial state.
LEMMA McdStart == McdInit => McdIInv
  <1> SUFFICES ASSUME McdInit PROVE McdIInv
    OBVIOUS
  <1> DEFINE z == [f \in McdFields |-> 0]
  <1>1. mcd = Power(z) /\ DOMAIN z = McdFields
    BY DEF McdInit
  <1> HIDE DEF z
  <1>2. RegistersOK(mcd)
    BY <1>1, PowerOK DEF RegistersOK, IntCause
  <1>3. DisplayType /\ Published
    BY Geometry DEF McdInit, DisplayType, Published, FieldType
  <1>4. field.calm = FALSE
    BY DEF McdInit
  <1> QED BY <1>2, <1>3, <1>4 DEF McdIInv, SlotsFetched, RowsDrawn

-----------------------------------------------------------------------------
(* What the invariant means.                                               *)

\* The lines of the display file among those up to l are an interval.
LEMMA ContentCount ==
  ASSUME NEW m, NEW l \in 0..(TotalLines - 1)
  PROVE  Cardinality({k \in IcaLines..l : DisplayFileLine(m, k)}) =
            IF l < FirstLine(m) THEN 0
            ELSE IF l < LastLine(m) THEN l - FirstLine(m) + 1 ELSE LastLine(m) - FirstLine(m) + 1
  <1> DEFINE F == FirstLine(m)
             L == LastLine(m)
             S == {k \in IcaLines..l : DisplayFileLine(m, k)}
             top == IF l < L THEN l ELSE L
  <1>1. /\ F \in Nat /\ L \in Nat /\ IcaLines <= F /\ F <= L /\ L <= TotalLines - 1
        /\ \A k \in Int : DisplayFileLine(m, k) <=> (F <= k /\ k <= L)
    BY DisplayLines
  <1> HIDE DEF F, L
  <1>2. S = F..top
    <2>1. \A k \in IcaLines..l : k \in S <=> (F <= k /\ k <= L)
      BY <1>1, Geometry
    <2>2. \A k \in F..top : k \in IcaLines..l /\ F <= k /\ k <= L
      BY <1>1, Geometry
    <2>3. \A k \in IcaLines..l : F <= k /\ k <= L => k \in F..top
      BY <1>1, Geometry
    <2> QED BY <2>1, <2>2, <2>3
  <1>3. top \in Int /\ l \in Int
    BY <1>1, Geometry
  <1>4. Cardinality(F..top) = IF F > top THEN 0 ELSE top - F + 1
    BY <1>1, <1>3, FS_Interval
  <1> HIDE DEF S
  <1>5. Cardinality(S) = IF l < F THEN 0 ELSE IF l < L THEN l - F + 1 ELSE L - F + 1
    BY <1>1, <1>2, <1>3, <1>4
  <1> QED BY <1>5 DEF S, F, L

\* One slot for every line.
LEMMA SlotsCounted == McdIInv => OneSlotPerLine
  <1> SUFFICES ASSUME McdIInv PROVE OneSlotPerLine
    OBVIOUS
  <1> DEFINE F == FirstLine(mcd)
             L == LastLine(mcd)
             slots == IF ContentSoFar(mcd) = ContentLines(mcd) THEN ContentLines(mcd)
                      ELSE ContentSoFar(mcd) + 1
  <1>1. line \in 0..(TotalLines - 1) /\ SlotsFetched
    BY DEF McdIInv, DisplayType
  <1>2. ContentSoFar(mcd) = IF line < F THEN 0 ELSE IF line < L THEN line - F + 1 ELSE L - F + 1
    BY <1>1, ContentCount DEF ContentSoFar
  <1>3. F \in Nat /\ L \in Nat /\ F <= L /\ L <= TotalLines - 1
    BY DisplayLines
  <1>4. ContentLines(mcd) = L - F + 1
    <2>1. TotalLines - 1 \in 0..(TotalLines - 1)
      BY Geometry
    <2>2. ContentLines(mcd) = IF TotalLines - 1 < F THEN 0
                              ELSE IF TotalLines - 1 < L THEN TotalLines - 1 - F + 1 ELSE L - F + 1
      BY <2>1, ContentCount DEF ContentLines, Active
    <2> QED BY <1>3, <2>2, Geometry
  <1>5. SlotsAt(mcd, line) = IF line < F THEN 1 ELSE IF line < L THEN line - F + 2 ELSE L - F + 1
    BY DEF SlotsAt
  <1> HIDE DEF F, L
  <1>6. slots = SlotsAt(mcd, line)
    BY <1>1, <1>2, <1>3, <1>4, <1>5, Geometry
  <1> HIDE DEF slots
  <1>7. \A p \in Path : (field.calm /\ DcaEnabled(mcd, p) /\ ~Linked(p)) =>
           mcd.dca[p] = (mcd.dcp[p] + Slot * slots) % MemoryTop
    BY <1>1, <1>6 DEF SlotsFetched
  <1> QED BY <1>7 DEF OneSlotPerLine, slots

\* Two fields make a picture.
LEMMA FieldsWoven == McdIInv => FieldsWeave
  <1> SUFFICES ASSUME McdIInv, line = TotalLines - 1, field.calm, field.steady >= 1,
                      mcd.dcr[0].de, mcd.dcr[0].sm, NEW r \in Row
               PROVE  shown[r] = IF DisplayFileLine(mcd, IcaLines + r \div 2) THEN 1 - (r % 2) ELSE Black
    BY DEF FieldsWeave
  <1> DEFINE l == IcaLines + r \div 2
             v == r % 2
  <1>1. l \in Active /\ v \in {0, 1} /\ r = RowOf(l, v)
    BY Geometry DEF Row, Active, RowOf
  <1>2. field.steady = 1
    BY DEF McdIInv, DisplayType, FieldType
  <1>3. l <= line
    BY <1>1, Geometry DEF Active
  <1>4. mcd.pa \in {0, 1} /\ Phase = 1 - mcd.pa
    BY DEF McdIInv, RegistersOK, Phase
  <1> HIDE DEF l, v
  <1>5. /\ rows[RowOf(l, Phase)] = Drawn(mcd, l, Phase)
        /\ rows[RowOf(l, 1 - Phase)] = Drawn(mcd, l, 1 - Phase)
    BY <1>1, <1>2, <1>3 DEF McdIInv, RowsDrawn
  <1>6. v = Phase \/ v = 1 - Phase
    BY <1>1, <1>4
  <1>7. rows[r] = Drawn(mcd, l, v)
    BY <1>1, <1>5, <1>6
  <1>8. shown = rows
    BY DEF McdIInv, Published
  <1> QED BY <1>7, <1>8 DEF Drawn, l, v

\* McdInv holds in every state the specification reaches: the pin of the
\* interrupt follows the status, the slots follow the lines of the picture and
\* two fields weave into one, whatever the programs are and however the guest
\* writes the registers between two lines (mcd212.rs:1372).
THEOREM VideoInvariant == McdSpec => []McdInv
  <1>1. McdIInv => McdInv
    <2> SUFFICES ASSUME McdIInv PROVE McdInv
      OBVIOUS
    <2>1. McdTypeOK
      BY DEF McdIInv, RegistersOK, DisplayType, McdTypeOK, PixelAddress
    <2>2. PinFollowsStatus
      BY DEF McdIInv, RegistersOK, PinFollowsStatus
    <2> QED BY <2>1, <2>2, SlotsCounted, FieldsWoven DEF McdInv
  <1> QED BY <1>1, McdStart, McdStep, PTL DEF McdSpec

-----------------------------------------------------------------------------
(* What the programs do not depend on.                                     *)

\* Two sets of registers that differ in what the display moves.
Alike(m, n) ==
    /\ DOMAIN m = McdFields /\ DOMAIN n = McdFields
    /\ \A f \in McdFields \ {"da", "vsr"} : n[f] = m[f]

\* The fields by name.
LEMMA AlikeFields ==
  ASSUME NEW m, NEW n, Alike(m, n)
  PROVE  /\ n.di = m.di /\ n.st = m.st /\ n.pa = m.pa /\ n.it = m.it /\ n.int = m.int /\ n.dcr = m.dcr
         /\ n.cm = m.cm /\ n.ddr = m.ddr /\ n.dcp = m.dcp /\ n.dca = m.dca /\ n.nm = m.nm
         /\ n.mode = m.mode /\ n.hidden = m.hidden /\ n.cursor = m.cursor /\ n.weight = m.weight
         /\ n.matte = m.matte /\ n.spans = m.spans
  BY DEF Alike, McdFields

\* A register written with the same value.
LEMMA AlikeWritten ==
  ASSUME NEW m, NEW n, Alike(m, n), NEW f \in McdFields, NEW v
  PROVE  Alike([m EXCEPT ![f] = v], [n EXCEPT ![f] = v])
  <1> DEFINE k == [m EXCEPT ![f] = v]
             l == [n EXCEPT ![f] = v]
  <1>1. DOMAIN m = McdFields /\ DOMAIN n = McdFields /\ \A g \in McdFields \ {"da", "vsr"} : n[g] = m[g]
    BY DEF Alike
  <1>2. DOMAIN k = McdFields /\ DOMAIN l = McdFields
    BY <1>1
  <1>3. ASSUME NEW g \in McdFields \ {"da", "vsr"} PROVE l[g] = k[g]
    BY <1>1, <1>3
  <1> QED BY <1>2, <1>3 DEF Alike

\* The interrupt of a command.
LEMMA AlikeRaised ==
  ASSUME NEW m, NEW n, Alike(m, n), NEW p \in Path
  PROVE  Alike(RaiseIt(m, p), RaiseIt(n, p))
  <1> DEFINE v == [m.it EXCEPT ![p] = TRUE]
             k == [m EXCEPT !["it"] = v]
             l == [n EXCEPT !["it"] = v]
  <1>1. n.it = m.it
    BY AlikeFields
  <1>2. RaiseIt(m, p) = [k EXCEPT !["int"] = IntCause(k)] /\ RaiseIt(n, p) = [l EXCEPT !["int"] = IntCause(l)]
    BY <1>1 DEF RaiseIt, RefreshIntLine
  <1>3. Alike(k, l)
    <2> HIDE DEF v
    <2> QED BY AlikeWritten DEF McdFields
  <1> HIDE DEF k, l
  <1>4. k.it = l.it /\ k.di = l.di
    BY <1>3, AlikeFields
  <1>5. IntCause(l) = IntCause(k)
    BY <1>4, CauseOf
  <1> DEFINE c == IntCause(k)
  <1>6. RaiseIt(m, p) = [k EXCEPT !["int"] = c] /\ RaiseIt(n, p) = [l EXCEPT !["int"] = c]
    BY <1>2, <1>5
  <1> HIDE DEF c
  <1>7. Alike([k EXCEPT !["int"] = c], [l EXCEPT !["int"] = c])
    BY <1>3, AlikeWritten DEF McdFields
  <1> QED BY <1>6, <1>7

\* The mattes.
LEMMA AlikeMattes ==
  ASSUME NEW m, NEW n, Alike(m, n)
  PROVE  Alike(UpdateMatteArrays(m), UpdateMatteArrays(n))
  <1> DEFINE E(nm, matte, weight, w) ==
               LET scan[x \in -1..(w - 1)] ==
                     IF x < 0 THEN [at |-> [k \in Path |-> 4 * k], wf |-> weight, mf |-> [f \in Path |-> FALSE]]
                     ELSE Apply(Apply(scan[x - 1], nm, matte, x, 0), nm, matte, x, 1)
               IN [x \in 0..(w - 1) |-> [wf |-> scan[x].wf, mf |-> scan[x].mf]]
             spans(w, new, old) == [x \in 0..(Wide - 1) |-> IF x < w THEN new[x] ELSE old[x]]
  <1>1. /\ n.st = m.st /\ n.dcr = m.dcr /\ n.nm = m.nm /\ n.weight = m.weight /\ n.matte = m.matte
        /\ n.spans = m.spans
    BY AlikeFields
  <1>2. Width(n) = Width(m)
    BY <1>1 DEF Width, Compatibility
  <1>3. Expand(m) = E(m.nm, m.matte, m.weight, Width(m)) /\ Expand(n) = E(n.nm, n.matte, n.weight, Width(n))
    BY DEF Expand
  <1> HIDE DEF E
  <1>4. Expand(n) = Expand(m)
    BY <1>1, <1>2, <1>3
  <1>5. /\ UpdateMatteArrays(m) = [m EXCEPT !["spans"] = spans(Width(m), Expand(m), m.spans)]
        /\ UpdateMatteArrays(n) = [n EXCEPT !["spans"] = spans(Width(n), Expand(n), n.spans)]
    BY DEF UpdateMatteArrays
  <1> HIDE DEF spans
  <1>6. spans(Width(n), Expand(n), n.spans) = spans(Width(m), Expand(m), m.spans)
    BY <1>1, <1>2, <1>4
  <1> DEFINE c == spans(Width(m), Expand(m), m.spans)
  <1>7. UpdateMatteArrays(m) = [m EXCEPT !["spans"] = c] /\ UpdateMatteArrays(n) = [n EXCEPT !["spans"] = c]
    BY <1>5, <1>6
  <1> HIDE DEF c
  <1>8. Alike([m EXCEPT !["spans"] = c], [n EXCEPT !["spans"] = c])
    BY AlikeWritten DEF McdFields
  <1> QED BY <1>7, <1>8

\* Two runs of a program that differ in what the display moves.
AlikeRuns(s, t) ==
    /\ {"m", "addr", "writes"} \subseteq DOMAIN s /\ DOMAIN t = DOMAIN s
    /\ Alike(s.m, t.m) /\ \A f \in DOMAIN s \ {"m"} : t[f] = s[f]

\* New registers and new writes.
LEMMA AlikeRunWritten ==
  ASSUME NEW s, NEW t, AlikeRuns(s, t), NEW m, NEW n, Alike(m, n), NEW w
  PROVE  /\ AlikeRuns([s EXCEPT !.m = m], [t EXCEPT !.m = n])
         /\ AlikeRuns([s EXCEPT !.m = m, !.writes = w], [t EXCEPT !.m = n, !.writes = w])
  BY DEF AlikeRuns

\* A register command.
LEMMA AlikeRegister ==
  ASSUME NEW s, NEW t, AlikeRuns(s, t), NEW p \in Path, NEW c \in Command, c.op = "register", NEW before
  PROVE  AlikeRuns(SetRegister(s, p, c, before), SetRegister(t, p, c, before))
  <1> DEFINE u == SetRegister(s, p, c, before)
             v == SetRegister(t, p, c, before)
             m == s.m
             n == t.m
  <1> SUFFICES AlikeRuns(u, v)
    OBVIOUS
  <1>1. c.reg \in {"icm", "transparency", "cursor", "weight", "matte"}
    BY CommandTyped
  <1>2. Alike(m, n) /\ t.writes = s.writes
    BY DEF AlikeRuns
  <1>3. CASE c.reg = "icm" /\ p = 0
    <2> DEFINE a == [m EXCEPT !["nm"] = c.nm]
               b == [n EXCEPT !["nm"] = c.nm]
               d == [a EXCEPT !["mode"] = c.mode]
               e == [b EXCEPT !["mode"] = c.mode]
    <2>1. u = [s EXCEPT !.m = d] /\ v = [t EXCEPT !.m = e]
      BY <1>3 DEF SetRegister
    <2>2. Alike(a, b)
      BY <1>2, AlikeWritten DEF McdFields
    <2> HIDE DEF a, b
    <2>3. Alike(d, e)
      BY <2>2, AlikeWritten DEF McdFields
    <2> HIDE DEF d, e, u, v
    <2> QED BY <2>1, <2>3, AlikeRunWritten
  <1>4. CASE c.reg = "transparency" /\ p = 0
    <2> DEFINE a == [m EXCEPT !["hidden"] = c.hidden]
               b == [n EXCEPT !["hidden"] = c.hidden]
    <2>1. u = [s EXCEPT !.m = a] /\ v = [t EXCEPT !.m = b]
      BY <1>4 DEF SetRegister
    <2>2. Alike(a, b)
      BY <1>2, AlikeWritten DEF McdFields
    <2> HIDE DEF a, b, u, v
    <2> QED BY <2>1, <2>2, AlikeRunWritten
  <1>5. CASE c.reg = "cursor" /\ p = 0
    <2> DEFINE a == [m EXCEPT !["cursor"] = c.cursor]
               b == [n EXCEPT !["cursor"] = c.cursor]
    <2>1. u = [s EXCEPT !.m = a] /\ v = [t EXCEPT !.m = b]
      BY <1>5 DEF SetRegister
    <2>2. Alike(a, b)
      BY <1>2, AlikeWritten DEF McdFields
    <2> HIDE DEF a, b, u, v
    <2> QED BY <2>1, <2>2, AlikeRunWritten
  <1>6. CASE c.reg \in {"icm", "transparency", "cursor"} /\ p # 0
    <2>1. u = s /\ v = t
      BY <1>6 DEF SetRegister
    <2> QED BY <2>1
  <1>7. CASE c.reg = "weight"
    <2> DEFINE w == [m.weight EXCEPT ![p] = c.wf]
               a == [m EXCEPT !["weight"] = w]
               b == [n EXCEPT !["weight"] = w]
    <2>1. u = [s EXCEPT !.m = UpdateMatteArrays(a)] /\ v = [t EXCEPT !.m = UpdateMatteArrays(b)]
      <3>1. n.weight = m.weight
        BY <1>2, AlikeFields
      <3> QED BY <1>7, <3>1 DEF SetRegister
    <2>2. Alike(a, b)
      <3> HIDE DEF w
      <3> QED BY <1>2, AlikeWritten DEF McdFields
    <2> HIDE DEF a, b
    <2>3. Alike(UpdateMatteArrays(a), UpdateMatteArrays(b))
      BY <2>2, AlikeMattes
    <2> HIDE DEF u, v
    <2> QED BY <2>1, <2>3, AlikeRunWritten
  <1>8. CASE c.reg = "matte" /\ p = 1 /\ c.index \in before
    <2>1. u = s /\ v = t
      BY <1>8 DEF SetRegister
    <2> QED BY <2>1
  <1>9. CASE c.reg = "matte" /\ ~(p = 1 /\ c.index \in before)
    <2> DEFINE w == [m.matte EXCEPT ![c.index] = c.control]
               a == [m EXCEPT !["matte"] = w]
               b == [n EXCEPT !["matte"] = w]
               r == s.writes \cup {c.index}
    <2>1. /\ u = [s EXCEPT !.m = UpdateMatteArrays(a), !.writes = r]
          /\ v = [t EXCEPT !.m = UpdateMatteArrays(b), !.writes = r]
      <3>1. n.matte = m.matte
        BY <1>2, AlikeFields
      <3> QED BY <1>2, <1>9, <3>1 DEF SetRegister
    <2>2. Alike(a, b)
      <3> HIDE DEF w
      <3> QED BY <1>2, AlikeWritten DEF McdFields
    <2> HIDE DEF a, b, r
    <2>3. Alike(UpdateMatteArrays(a), UpdateMatteArrays(b))
      BY <2>2, AlikeMattes
    <2> HIDE DEF u, v
    <2> QED BY <2>1, <2>3, AlikeRunWritten
  <1> QED BY <1>1, <1>3, <1>4, <1>5, <1>6, <1>7, <1>8, <1>9

\* A command the two areas share.
LEMMA AlikeCommon ==
  ASSUME NEW s, NEW t, AlikeRuns(s, t), NEW p \in Path, NEW before,
         NEW c \in Command, c.op \in {"nop", "interrupt", "params", "register"}
  PROVE  AlikeRuns(Common(s, p, c, before), Common(t, p, c, before))
  <1> DEFINE u == Common(s, p, c, before)
             v == Common(t, p, c, before)
             m == s.m
             n == t.m
  <1> SUFFICES AlikeRuns(u, v)
    OBVIOUS
  <1>1. Alike(m, n) /\ "m" \in DOMAIN s /\ "m" \in DOMAIN t
    BY DEF AlikeRuns
  <1>2. CASE c.op = "nop"
    <2>1. u = s /\ v = t
      BY <1>2 DEF Common
    <2> QED BY <2>1
  <1>3. CASE c.op = "interrupt"
    <2>1. u = [s EXCEPT !.m = RaiseIt(m, p)] /\ v = [t EXCEPT !.m = RaiseIt(n, p)]
      BY <1>3 DEF Common
    <2>2. Alike(RaiseIt(m, p), RaiseIt(n, p))
      BY <1>1, AlikeRaised
    <2> HIDE DEF u, v
    <2> QED BY <2>1, <2>2, AlikeRunWritten
  <1>4. CASE c.op = "params"
    <2> DEFINE w == [m.cm EXCEPT ![p] = c.bp = 1]
               z == [m.ddr EXCEPT ![p] = c.ft]
               a == [m EXCEPT !["cm"] = w]
               b == [n EXCEPT !["cm"] = w]
               d == [a EXCEPT !["ddr"] = z]
               e == [b EXCEPT !["ddr"] = z]
    <2>1. u = [s EXCEPT !.m = d] /\ v = [t EXCEPT !.m = e]
      <3>1. u = [s EXCEPT !.m.cm[p] = c.bp = 1, !.m.ddr[p] = c.ft]
            /\ v = [t EXCEPT !.m.cm[p] = c.bp = 1, !.m.ddr[p] = c.ft]
        BY <1>4 DEF Common
      <3>2. DOMAIN m = McdFields /\ DOMAIN n = McdFields /\ n.cm = m.cm /\ n.ddr = m.ddr
        BY <1>1, AlikeFields DEF Alike
      <3>3. /\ "cm" \in DOMAIN m /\ "ddr" \in DOMAIN m /\ a.ddr = m.ddr
            /\ "cm" \in DOMAIN n /\ "ddr" \in DOMAIN n /\ b.ddr = n.ddr
        BY <3>2 DEF McdFields
      <3>4. u = [s EXCEPT !.m = d]
        BY <1>1, <3>1, <3>3
      <3>5. v = [t EXCEPT !.m = e]
        BY <1>1, <3>1, <3>2, <3>3
      <3> QED BY <3>4, <3>5
    <2> HIDE DEF w, z
    <2>2. Alike(a, b)
      BY <1>1, AlikeWritten DEF McdFields
    <2> HIDE DEF a, b
    <2>3. Alike(d, e)
      BY <2>2, AlikeWritten DEF McdFields
    <2> HIDE DEF d, e, u, v
    <2> QED BY <2>1, <2>3, AlikeRunWritten
  <1>5. CASE c.op = "register"
    <2>1. u = SetRegister(s, p, c, before) /\ v = SetRegister(t, p, c, before)
      BY <1>5 DEF Common
    <2> QED BY <1>5, <2>1, AlikeRegister
  <1> QED BY <1>2, <1>3, <1>4, <1>5

\* The fields of a run.
LEMMA CommonDomain ==
  ASSUME NEW s, NEW p \in Path, NEW before,
         NEW c \in Command, c.op \in {"nop", "interrupt", "params", "register"}
  PROVE  DOMAIN Common(s, p, c, before) = DOMAIN s
  <1>1. c.op = "register" => c.reg \in {"icm", "transparency", "cursor", "weight", "matte"}
    BY CommandTyped
  <1>2. ASSUME c.op = "register" PROVE DOMAIN SetRegister(s, p, c, before) = DOMAIN s
    BY <1>1, <1>2 DEF SetRegister
  <1> QED BY <1>2 DEF Common

\* Two runs of a slot that differ in what the display moves.
AlikeSlots(s, t) ==
    AlikeRuns(s, t) /\ DOMAIN s = {"m", "addr", "count", "stopped", "linked", "writes"}

\* One command of the dynamic control area.
LEMMA AlikeDcaStep ==
  ASSUME memory \in Image, NEW s, NEW t, AlikeSlots(s, t), NEW p \in Path, NEW before
  PROVE  AlikeSlots(DcaStep(s, p, before), DcaStep(t, p, before))
  <1> DEFINE c == Fetch(p, s.addr)
             x == [s EXCEPT !.addr = @ + 1, !.count = @ + 1]
             y == [t EXCEPT !.addr = @ + 1, !.count = @ + 1]
             u == DcaStep(s, p, before)
             v == DcaStep(t, p, before)
  <1> SUFFICES AlikeSlots(u, v)
    OBVIOUS
  <1>1. /\ DOMAIN s = {"m", "addr", "count", "stopped", "linked", "writes"} /\ DOMAIN t = DOMAIN s
        /\ Alike(s.m, t.m) /\ t.addr = s.addr /\ t.count = s.count /\ t.stopped = s.stopped
        /\ t.linked = s.linked /\ t.writes = s.writes
    BY DEF AlikeSlots, AlikeRuns
  <1>2. c \in Command
    BY FetchTyped
  <1>3. CASE s.stopped
    <2>1. u = s /\ v = t
      BY <1>1, <1>3 DEF DcaStep
    <2> QED BY <2>1
  <1>4. AlikeSlots(x, y)
    <2>1. /\ DOMAIN x = DOMAIN s /\ DOMAIN y = DOMAIN s /\ x.m = s.m /\ y.m = t.m
          /\ \A f \in DOMAIN s \ {"m"} : y[f] = x[f]
      BY <1>1
    <2> HIDE DEF x, y
    <2> QED BY <1>1, <2>1 DEF AlikeSlots, AlikeRuns
  <1>5. u = IF s.stopped THEN s
            ELSE CASE c.op = "stop" -> [x EXCEPT !.stopped = TRUE]
                 [] c.op = "reload dcp" -> x
                 [] c.op = "stop dcp" -> [x EXCEPT !.m.dcp[p] = c.addr, !.m.dca[p] = c.addr,
                                                   !.stopped = TRUE, !.linked = TRUE]
                 [] c.op = "4x" -> [x EXCEPT !.m.vsr[p] = c.addr]
                 [] c.op = "5x" -> [x EXCEPT !.m.vsr[p] = c.addr, !.stopped = TRUE]
                 [] OTHER -> Common(x, p, c, before)
    BY DEF DcaStep
  <1>6. v = IF t.stopped THEN t
            ELSE CASE c.op = "stop" -> [y EXCEPT !.stopped = TRUE]
                 [] c.op = "reload dcp" -> y
                 [] c.op = "stop dcp" -> [y EXCEPT !.m.dcp[p] = c.addr, !.m.dca[p] = c.addr,
                                                   !.stopped = TRUE, !.linked = TRUE]
                 [] c.op = "4x" -> [y EXCEPT !.m.vsr[p] = c.addr]
                 [] c.op = "5x" -> [y EXCEPT !.m.vsr[p] = c.addr, !.stopped = TRUE]
                 [] OTHER -> Common(y, p, c, before)
    BY <1>1 DEF DcaStep
  <1>7. /\ DOMAIN x = {"m", "addr", "count", "stopped", "linked", "writes"} /\ DOMAIN y = DOMAIN x
        /\ Alike(x.m, y.m) /\ \A f \in DOMAIN x \ {"m"} : y[f] = x[f]
    BY <1>4 DEF AlikeSlots, AlikeRuns
  <1>8. /\ DOMAIN x.m = McdFields /\ DOMAIN y.m = McdFields /\ y.m.dcp = x.m.dcp /\ y.m.dca = x.m.dca
    BY <1>7, AlikeFields DEF Alike
  <1> HIDE DEF c, x, y, u, v
  <1>9. ASSUME ~s.stopped, c.op \in {"stop", "reload dcp"} PROVE AlikeSlots(u, v)
    <2>1. /\ DOMAIN u = DOMAIN x /\ DOMAIN v = DOMAIN x /\ u.m = x.m /\ v.m = y.m
          /\ \A f \in DOMAIN x \ {"m"} : v[f] = u[f]
      BY <1>1, <1>5, <1>6, <1>7, <1>9
    <2> QED BY <1>7, <2>1 DEF AlikeSlots, AlikeRuns
  <1>10. ASSUME ~s.stopped, c.op \in {"4x", "5x"} PROVE AlikeSlots(u, v)
    <2> DEFINE a == [x.m EXCEPT !.vsr[p] = c.addr]
               b == [y.m EXCEPT !.vsr[p] = c.addr]
    <2>1. /\ DOMAIN u = DOMAIN x /\ DOMAIN v = DOMAIN x /\ u.m = a /\ v.m = b
          /\ \A f \in DOMAIN x \ {"m"} : v[f] = u[f]
      BY <1>1, <1>5, <1>6, <1>7, <1>10
    <2>2. Alike(a, b)
      BY <1>7 DEF Alike
    <2> HIDE DEF a, b
    <2> QED BY <1>7, <2>1, <2>2 DEF AlikeSlots, AlikeRuns
  <1>11. ASSUME ~s.stopped, c.op = "stop dcp" PROVE AlikeSlots(u, v)
    <2> DEFINE w == [x.m.dcp EXCEPT ![p] = c.addr]
               z == [x.m.dca EXCEPT ![p] = c.addr]
               a == [x.m EXCEPT !["dcp"] = w]
               b == [y.m EXCEPT !["dcp"] = w]
               d == [a EXCEPT !["dca"] = z]
               e == [b EXCEPT !["dca"] = z]
    <2>1. /\ u = [x EXCEPT !.m.dcp[p] = c.addr, !.m.dca[p] = c.addr, !.stopped = TRUE, !.linked = TRUE]
          /\ v = [y EXCEPT !.m.dcp[p] = c.addr, !.m.dca[p] = c.addr, !.stopped = TRUE, !.linked = TRUE]
      BY <1>1, <1>5, <1>6, <1>11
    <2>2. /\ "dcp" \in DOMAIN x.m /\ "dca" \in DOMAIN x.m /\ a.dca = x.m.dca
          /\ "dcp" \in DOMAIN y.m /\ "dca" \in DOMAIN y.m /\ b.dca = y.m.dca
      BY <1>8 DEF McdFields
    <2>3. u.m = d /\ DOMAIN u = DOMAIN x
      BY <1>7, <2>1, <2>2
    <2>4. v.m = e /\ DOMAIN v = DOMAIN x
      BY <1>7, <1>8, <2>1, <2>2
    <2>5. \A f \in DOMAIN x \ {"m"} : v[f] = u[f]
      BY <1>7, <2>1
    <2> HIDE DEF w, z
    <2>6. Alike(a, b)
      BY <1>7, AlikeWritten DEF McdFields
    <2> HIDE DEF a, b
    <2>7. Alike(d, e)
      BY <2>6, AlikeWritten DEF McdFields
    <2> HIDE DEF d, e
    <2> QED BY <1>7, <2>3, <2>4, <2>5, <2>7 DEF AlikeSlots, AlikeRuns
  <1>12. ASSUME ~s.stopped, c.op \in {"nop", "interrupt", "params", "register"} PROVE AlikeSlots(u, v)
    <2>1. u = Common(x, p, c, before) /\ v = Common(y, p, c, before)
      BY <1>1, <1>5, <1>6, <1>12
    <2>2. AlikeRuns(u, v)
      BY <1>2, <1>4, <1>12, <2>1, AlikeCommon DEF AlikeSlots
    <2>3. DOMAIN u = DOMAIN x
      BY <1>7, <2>1, CommonDomain, <1>2, <1>12
    <2> QED BY <1>7, <2>2, <2>3 DEF AlikeSlots
  <1> QED BY <1>2, <1>3, <1>9, <1>10, <1>11, <1>12, CommandTyped

\* A slot does the same, whatever the display has moved.
LEMMA AlikeDca ==
  ASSUME memory \in Image, NEW m, NEW n, Alike(m, n), NEW p \in Path, NEW before
  PROVE  AlikeRuns(ProcessDca(m, p, before), ProcessDca(n, p, before))
  <1> DEFINE L == FetchMax(m)
             run == SlotRun(m, p, before)
             last == run[L]
             other == SlotRun(n, p, before)
             end == other[L]
             S == {k \in Nat : k <= L => AlikeSlots(run[k], other[k])}
  <1>1. FetchMax(n) = L
    BY AlikeFields DEF FetchMax
  <1>2. /\ L \in Nat
        /\ ProcessDca(m, p, before) = IF last.linked THEN last ELSE [last EXCEPT !.m.dca[p] = NextSlot(last)]
        /\ run[0] = SlotStart(m, p)
        /\ \A k \in Nat : k + 1 <= L => run[k + 1] = DcaStep(run[k], p, before)
    BY SlotRuns
  <1>3. /\ ProcessDca(n, p, before) = IF end.linked THEN end ELSE [end EXCEPT !.m.dca[p] = NextSlot(end)]
        /\ other[0] = SlotStart(n, p)
        /\ \A k \in Nat : k + 1 <= L => other[k + 1] = DcaStep(other[k], p, before)
    <2> HIDE DEF L
    <2> QED BY <1>1, SlotRuns
  <1> HIDE DEF L, run, other
  <1>4. 0 \in S
    <2>1. n.dca = m.dca
      BY AlikeFields
    <2> DEFINE u == SlotStart(m, p)
               v == SlotStart(n, p)
    <2>2. /\ DOMAIN u = {"m", "addr", "count", "stopped", "linked", "writes"} /\ DOMAIN v = DOMAIN u
          /\ u.m = m /\ v.m = n /\ v.addr = u.addr /\ v.count = u.count /\ v.stopped = u.stopped
          /\ v.linked = u.linked /\ v.writes = u.writes
      BY <2>1 DEF SlotStart
    <2>3. run[0] = u /\ other[0] = v
      BY <1>2, <1>3
    <2> HIDE DEF u, v
    <2>4. AlikeSlots(u, v)
      BY <2>2 DEF AlikeSlots, AlikeRuns
    <2> QED BY <2>3, <2>4
  <1>5. ASSUME NEW k \in Nat, k \in S PROVE k + 1 \in S
    <2> SUFFICES ASSUME k + 1 <= L PROVE AlikeSlots(run[k + 1], other[k + 1])
      OBVIOUS
    <2>1. AlikeSlots(run[k], other[k])
      BY <1>2, <1>5
    <2>2. AlikeSlots(DcaStep(run[k], p, before), DcaStep(other[k], p, before))
      BY <2>1, AlikeDcaStep
    <2> QED BY <1>2, <1>3, <2>2
  <1>6. AlikeSlots(last, end)
    <2>1. L \in S
      <3> HIDE DEF S
      <3> QED BY <1>2, <1>4, <1>5, Induct
    <2> QED BY <1>2, <2>1
  <1> HIDE DEF S, last, end
  <1>7. /\ DOMAIN last = {"m", "addr", "count", "stopped", "linked", "writes"} /\ AlikeRuns(last, end)
        /\ Alike(last.m, end.m) /\ end.linked = last.linked
        /\ "m" \in DOMAIN last /\ "m" \in DOMAIN end
    BY <1>6 DEF AlikeSlots, AlikeRuns
  <1>8. NextSlot(end) = NextSlot(last)
    BY <1>6 DEF AlikeSlots, AlikeRuns, NextSlot
  <1>9. CASE last.linked
    BY <1>2, <1>3, <1>7, <1>9
  <1>10. CASE ~last.linked
    <2> DEFINE v == [last.m.dca EXCEPT ![p] = NextSlot(last)]
               a == [last.m EXCEPT !["dca"] = v]
               b == [end.m EXCEPT !["dca"] = v]
    <2>1. end.m.dca = last.m.dca
      BY <1>7, AlikeFields
    <2>2. /\ ProcessDca(m, p, before) = [last EXCEPT !.m = a]
          /\ ProcessDca(n, p, before) = [end EXCEPT !.m = b]
      BY <1>2, <1>3, <1>7, <1>8, <1>10, <2>1
    <2> HIDE DEF v
    <2>3. Alike(a, b)
      BY <1>7, AlikeWritten DEF McdFields
    <2> HIDE DEF a, b
    <2>4. AlikeRuns([last EXCEPT !.m = a], [end EXCEPT !.m = b])
      BY <1>7, <2>3, AlikeRunWritten
    <2> QED BY <2>2, <2>4
  <1> QED BY <1>9, <1>10

\* A line on the screen moves display pointers only.
LEMMA AlikeRendered ==
  ASSUME NEW m, DOMAIN m = McdFields, NEW l
  PROVE  Alike(m, Rendered(m, l))
  <1>1. ASSUME NEW k, Alike(m, k), NEW p \in Path PROVE Alike(m, ProcessVsr(k, p))
    BY <1>1 DEF Alike, ProcessVsr
  <1>2. Alike(m, m)
    BY DEF Alike
  <1>3. Alike(m, ProcessVsr(m, 0))
    BY <1>1, <1>2 DEF Path
  <1>4. Alike(m, ProcessVsr(ProcessVsr(m, 0), 1))
    BY <1>1, <1>3 DEF Path
  <1> QED BY <1>2, <1>4 DEF Rendered

-----------------------------------------------------------------------------
(* The mattes of path A.                                                   *)

\* The matte arrays are made from the registers, which they leave alone.
LEMMA MattesLeft ==
  ASSUME NEW m, DOMAIN m = McdFields
  PROVE  DOMAIN UpdateMatteArrays(m) = McdFields /\ UpdateMatteArrays(m).matte = m.matte
  BY DEF UpdateMatteArrays, McdFields

\* The registers of a slot of path B that are path A's, from those of m.
Spared(s, m, before) ==
    /\ "m" \in DOMAIN s /\ DOMAIN s.m = McdFields
    /\ \A k \in before : s.m.matte[k] = m.matte[k]

\* A register command of path B.
LEMMA RegisterSpares ==
  ASSUME NEW s, NEW m, NEW before, Spared(s, m, before), NEW c \in Command, c.op = "register"
  PROVE  Spared(SetRegister(s, 1, c, before), m, before)
  <1> DEFINE u == SetRegister(s, 1, c, before)
             r == s.m
  <1> SUFFICES Spared(u, m, before)
    OBVIOUS
  <1>1. "m" \in DOMAIN s /\ DOMAIN r = McdFields /\ \A k \in before : r.matte[k] = m.matte[k]
    BY DEF Spared
  <1>2. c.reg \in {"icm", "transparency", "cursor", "weight", "matte"}
    BY CommandTyped
  <1>3. CASE u = s
    BY <1>3
  <1>4. CASE c.reg = "weight"
    <2> DEFINE a == [r EXCEPT !.weight[1] = c.wf]
    <2>1. u = [s EXCEPT !.m = UpdateMatteArrays(a)]
      BY <1>4 DEF SetRegister
    <2>2. DOMAIN a = McdFields /\ a.matte = r.matte
      BY <1>1 DEF McdFields
    <2> HIDE DEF a
    <2>3. DOMAIN UpdateMatteArrays(a) = McdFields /\ UpdateMatteArrays(a).matte = r.matte
      BY <2>2, MattesLeft
    <2> HIDE DEF u
    <2>4. "m" \in DOMAIN u /\ u.m = UpdateMatteArrays(a)
      BY <1>1, <2>1
    <2> QED BY <1>1, <2>3, <2>4 DEF Spared
  <1>5. CASE c.reg = "matte" /\ c.index \notin before
    <2> DEFINE a == [r EXCEPT !.matte[c.index] = c.control]
    <2>1. u = [s EXCEPT !.m = UpdateMatteArrays(a), !.writes = @ \cup {c.index}]
      BY <1>5 DEF SetRegister
    <2>2. DOMAIN a = McdFields /\ a.matte = [r.matte EXCEPT ![c.index] = c.control]
      BY <1>1 DEF McdFields
    <2> HIDE DEF a
    <2>3. DOMAIN UpdateMatteArrays(a) = McdFields /\ UpdateMatteArrays(a).matte = a.matte
      BY <2>2, MattesLeft
    <2> HIDE DEF u
    <2>4. "m" \in DOMAIN u /\ u.m = UpdateMatteArrays(a)
      BY <1>1, <2>1
    <2>5. \A k \in before : a.matte[k] = r.matte[k]
      BY <1>5, <2>2
    <2> QED BY <1>1, <2>3, <2>4, <2>5 DEF Spared
  <1>6. u = s \/ c.reg = "weight" \/ (c.reg = "matte" /\ c.index \notin before)
    BY <1>2 DEF SetRegister
  <1> QED BY <1>3, <1>4, <1>5, <1>6

\* A command of a slot of path B.
LEMMA StepSpares ==
  ASSUME memory \in Image, NEW s, NEW m, NEW before, Spared(s, m, before)
  PROVE  Spared(DcaStep(s, 1, before), m, before)
  <1> DEFINE c == Fetch(1, s.addr)
             x == [s EXCEPT !.addr = @ + 1, !.count = @ + 1]
             u == DcaStep(s, 1, before)
  <1> SUFFICES Spared(u, m, before)
    OBVIOUS
  <1>1. c \in Command
    BY FetchTyped DEF Path
  <1>2. "m" \in DOMAIN s /\ DOMAIN s.m = McdFields /\ \A k \in before : s.m.matte[k] = m.matte[k]
    BY DEF Spared
  <1>3. DOMAIN x = DOMAIN s /\ x.m = s.m
    BY <1>2
  <1>4. u = IF s.stopped THEN s
            ELSE CASE c.op = "stop" -> [x EXCEPT !.stopped = TRUE]
                 [] c.op = "reload dcp" -> x
                 [] c.op = "stop dcp" -> [x EXCEPT !.m.dcp[1] = c.addr, !.m.dca[1] = c.addr,
                                                   !.stopped = TRUE, !.linked = TRUE]
                 [] c.op = "4x" -> [x EXCEPT !.m.vsr[1] = c.addr]
                 [] c.op = "5x" -> [x EXCEPT !.m.vsr[1] = c.addr, !.stopped = TRUE]
                 [] OTHER -> Common(x, 1, c, before)
    BY DEF DcaStep
  <1> HIDE DEF c, x, u
  <1>5. ASSUME "m" \in DOMAIN u, DOMAIN u.m = McdFields, u.m.matte = s.m.matte PROVE Spared(u, m, before)
    BY <1>2, <1>5 DEF Spared
  <1>6. CASE s.stopped
    BY <1>4, <1>6
  <1>7. ASSUME ~s.stopped, c.op \in {"stop", "reload dcp"} PROVE Spared(u, m, before)
    <2>1. DOMAIN u = DOMAIN x /\ u.m = x.m
      BY <1>2, <1>3, <1>4, <1>7
    <2> QED BY <1>2, <1>3, <1>5, <2>1
  <1>8. ASSUME ~s.stopped, c.op \in {"4x", "5x"} PROVE Spared(u, m, before)
    <2>1. DOMAIN u = DOMAIN x /\ u.m = [s.m EXCEPT !.vsr[1] = c.addr]
      BY <1>2, <1>3, <1>4, <1>8
    <2>2. DOMAIN u.m = McdFields /\ u.m.matte = s.m.matte
      BY <1>2, <2>1 DEF McdFields
    <2> QED BY <1>2, <1>3, <1>5, <2>1, <2>2
  <1>9. ASSUME ~s.stopped, c.op = "stop dcp" PROVE Spared(u, m, before)
    <2> DEFINE r == s.m
    <2>1. DOMAIN u = DOMAIN x /\ u.m = [r EXCEPT !.dcp[1] = c.addr, !.dca[1] = c.addr]
      BY <1>2, <1>3, <1>4, <1>9
    <2> HIDE DEF r
    <2>2. DOMAIN r = McdFields
      BY <1>2 DEF r
    <2>3. DOMAIN u.m = McdFields /\ u.m.matte = r.matte
      BY <2>1, <2>2 DEF McdFields
    <2> QED BY <1>2, <1>3, <1>5, <2>1, <2>3 DEF r
  <1>10. ASSUME ~s.stopped, c.op \in {"nop", "interrupt", "params", "register"} PROVE Spared(u, m, before)
    <2>1. u = Common(x, 1, c, before) /\ Spared(x, m, before)
      BY <1>2, <1>3, <1>4, <1>10 DEF Spared
    <2>2. CASE c.op = "register"
      BY <1>1, <2>1, <2>2, RegisterSpares DEF Common
    <2>3. CASE c.op = "nop"
      BY <2>1, <2>3 DEF Common
    <2>4. CASE c.op = "interrupt"
      <3>1. u = [x EXCEPT !.m = RaiseIt(x.m, 1)]
        BY <2>1, <2>4 DEF Common
      <3>2. DOMAIN RaiseIt(s.m, 1) = McdFields /\ RaiseIt(s.m, 1).matte = s.m.matte
        BY <1>2 DEF RaiseIt, RefreshIntLine, McdFields
      <3>3. DOMAIN u = DOMAIN x /\ u.m = RaiseIt(s.m, 1)
        BY <1>2, <1>3, <3>1
      <3> QED BY <1>2, <1>3, <1>5, <3>2, <3>3
    <2>5. CASE c.op = "params"
      <3> DEFINE r == s.m
      <3>1. u = [x EXCEPT !.m.cm[1] = c.bp = 1, !.m.ddr[1] = c.ft]
        BY <2>1, <2>5 DEF Common
      <3>2. DOMAIN u = DOMAIN x /\ u.m = [r EXCEPT !.cm[1] = c.bp = 1, !.ddr[1] = c.ft]
        BY <1>2, <1>3, <3>1
      <3> HIDE DEF r
      <3>3. DOMAIN r = McdFields
        BY <1>2 DEF r
      <3>4. DOMAIN u.m = McdFields /\ u.m.matte = r.matte
        BY <3>2, <3>3 DEF McdFields
      <3> QED BY <1>2, <1>3, <1>5, <3>2, <3>4 DEF r
    <2> QED BY <1>10, <2>2, <2>3, <2>4, <2>5
  <1> QED BY <1>1, <1>6, <1>7, <1>8, <1>9, <1>10, CommandTyped

\* A slot of path B writes none of the matte registers path A wrote.
LEMMA SlotSpares ==
  ASSUME memory \in Image, NEW m, DOMAIN m = McdFields, NEW before
  PROVE  \A k \in before : ProcessDca(m, 1, before).m.matte[k] = m.matte[k]
  <1> DEFINE L == FetchMax(m)
             run == SlotRun(m, 1, before)
             last == run[L]
             S == {n \in Nat : n <= L => Spared(run[n], m, before)}
  <1>1. /\ L \in Nat
        /\ ProcessDca(m, 1, before) = IF last.linked THEN last ELSE [last EXCEPT !.m.dca[1] = NextSlot(last)]
        /\ run[0] = SlotStart(m, 1)
        /\ \A n \in Nat : n + 1 <= L => run[n + 1] = DcaStep(run[n], 1, before)
    BY SlotRuns
  <1> HIDE DEF L, run
  <1>2. 0 \in S
    BY <1>1 DEF Spared, SlotStart
  <1>3. ASSUME NEW n \in Nat, n \in S PROVE n + 1 \in S
    <2> SUFFICES ASSUME n + 1 <= L PROVE Spared(run[n + 1], m, before)
      OBVIOUS
    <2>1. Spared(run[n], m, before)
      BY <1>1, <1>3
    <2> QED BY <1>1, <2>1, StepSpares
  <1>4. Spared(last, m, before)
    <2>1. L \in S
      <3> HIDE DEF S
      <3> QED BY <1>1, <1>2, <1>3, Induct
    <2> QED BY <1>1, <2>1
  <1> HIDE DEF S, last
  <1>5. "m" \in DOMAIN last /\ DOMAIN last.m = McdFields /\ \A k \in before : last.m.matte[k] = m.matte[k]
    BY <1>4 DEF Spared
  <1>6. ProcessDca(m, 1, before).m.matte = last.m.matte
    <2>1. CASE last.linked
      BY <1>1, <2>1
    <2>2. CASE ~last.linked
      <3>1. ProcessDca(m, 1, before).m = [last.m EXCEPT !.dca[1] = NextSlot(last)]
        BY <1>1, <1>5, <2>2
      <3> QED BY <1>5, <3>1 DEF McdFields
    <2> QED BY <2>1, <2>2
  <1> QED BY <1>5, <1>6

\* PathAKeepsItsMattes holds of every step of the specification: on a line of
\* picture the slot of path A decides the matte registers it writes, whatever the
\* program of path B is and however far the display has got (mcd212.rs:619).
THEOREM PathAKeepsItsMattesHolds == McdSpec => PathAKeepsItsMattes
  <1> DEFINE A == (line' # line /\ line' \in Active /\ AdvanceDca(mcd, line') /\ DcaEnabled(mcd, 0)) =>
                     LET a == ProcessDca(mcd, 0, {}) IN
                     \A k \in a.writes : mcd'.matte[k] = a.m.matte[k]
  <1>1. McdIInv /\ [McdNext]_mcdVars => A
    <2> SUFFICES ASSUME McdIInv, [McdNext]_mcdVars, line' # line, line' \in Active,
                        AdvanceDca(mcd, line'), DcaEnabled(mcd, 0),
                        NEW k \in ProcessDca(mcd, 0, {}).writes
                 PROVE  mcd'.matte[k] = ProcessDca(mcd, 0, {}).m.matte[k]
      OBVIOUS
    <2>1. line' >= IcaLines /\ 0 < IcaLines
      BY Geometry DEF Active
    <2>2. ActiveLine
      <3>1. ~FieldBegins /\ ~ResetMcd
        BY <2>1, Geometry DEF FieldBegins, ResetMcd
      <3>2. ~BlankLine
        BY <2>1, Geometry DEF BlankLine, McdIInv, DisplayType
      <3>3. ~ReadCsr2 /\ ~(UNCHANGED mcdVars)
        BY DEF ReadCsr2, mcdVars
      <3>4. /\ \A p, di, st : ~WriteCsr(p, di, st)
            /\ \A p, value : ~WriteDcr(p, value)
            /\ \A p, which, value : ~WritePointer(p, which, value)
            /\ \A program : ~Rewrite(program)
        BY DEF WriteCsr, WriteDcr, WritePointer, Rewrite
      <3> QED BY <3>1, <3>2, <3>3, <3>4 DEF McdNext, Line
    <2> DEFINE l == line + 1
               m == [mcd EXCEPT !.da = TRUE]
               x == IF m.dcr[0].de THEN Rendered(m, l) ELSE m
               a == ProcessDca(mcd, 0, {})
               b == ProcessDca(x, 0, {})
               n == IF DcaEnabled(b.m, 1) THEN ProcessDca(b.m, 1, b.writes).m ELSE b.m
               after == LineTables(x, l)
    <2>3. /\ line' = l
          /\ mcd' = IF l = TotalLines - 1 THEN [after EXCEPT !.pa = 1 - @] ELSE after
      BY <2>2 DEF ActiveLine
    <2>4. RegistersOK(mcd) /\ DOMAIN mcd = McdFields /\ memory \in Image
      BY DEF McdIInv, RegistersOK, DisplayType
    <2>5. Alike(mcd, m) /\ RegistersOK(m)
      <3>1. RegistersOK(m)
        BY <2>4, FlagFields
      <3> QED BY <2>4, <3>1 DEF Alike
    <2> HIDE DEF m
    <2>6. Alike(m, x) /\ RegistersOK(x)
      <3>1. Alike(m, Rendered(m, l)) /\ RegistersOK(Rendered(m, l)) /\ Alike(m, m)
        BY <2>5, AlikeRendered, RenderedKeeps DEF RegistersOK, Alike
      <3>2. x = m \/ x = Rendered(m, l)
        OBVIOUS
      <3> HIDE DEF x
      <3> QED BY <2>5, <3>1, <3>2
    <2> HIDE DEF x, l
    <2>7. Alike(mcd, x)
      BY <2>5, <2>6 DEF Alike
    <2>8. x.dcr = mcd.dcr /\ x.st = mcd.st
      BY <2>7, AlikeFields
    <2>9. AdvanceDca(x, l) /\ DcaEnabled(x, 0)
      BY <2>3, <2>8, SameGeometry
    <2>10. AlikeRuns(a, b)
      BY <2>4, <2>7, AlikeDca DEF Path
    <2>11. RegistersOK(b.m)
      BY <2>4, <2>6, DcaKeeps DEF Path
    <2> HIDE DEF after
    <2>12. after = n
      BY <2>9 DEF after, LineTables
    <2> HIDE DEF a, b
    <2>13. k \in b.writes /\ b.m.matte = a.m.matte /\ DOMAIN b.m = McdFields
      <3>1. Alike(a.m, b.m) /\ b.writes = a.writes
        BY <2>10 DEF AlikeRuns
      <3>2. k \in a.writes
        BY DEF a
      <3> QED BY <3>1, <3>2, AlikeFields DEF Alike
    <2>14. n.matte[k] = b.m.matte[k]
      BY <2>4, <2>13, SlotSpares
    <2>15. RegistersOK(n)
      <3>1. RegistersOK(ProcessDca(b.m, 1, b.writes).m)
        BY <2>4, <2>11, DcaKeeps DEF Path
      <3> QED BY <2>11, <3>1
    <2> HIDE DEF n
    <2>16. mcd'.matte = n.matte
      BY <2>3, <2>12, <2>15 DEF RegistersOK, McdFields
    <2>17. mcd'.matte[k] = a.m.matte[k]
      BY <2>13, <2>14, <2>16
    <2> QED BY <2>17 DEF a
  <1>2. McdSpec => [][A]_mcdVars
    <2> HIDE DEF A
    <2> QED BY <1>1, McdStart, McdStep, PTL DEF McdSpec
  <1> QED BY <1>2 DEF PathAKeepsItsMattes

\* McdKept holds: what is said of the state between the lines and of what a
\* line leaves alone (mcd212.rs:510, 619).
THEOREM McdKeptHolds == McdSpec => McdKept
  <1> QED BY VideoInvariant, PathAKeepsItsMattesHolds DEF McdKept

-----------------------------------------------------------------------------
(* The layout of a disc. A loaded disc is a function of its sheet.         *)

Index == [n : {0, 1}, offset : Offsets]
File == [size : FileSizes \cup {Missing, Ragged}, tracks : Seq(Seq(Index))]

LayoutIInv ==
    /\ cue \in Seq(File)
    /\ \/ disc = Reading \/ disc = Refused
       \/ disc = Loaded /\ Loadable

LEMMA IndexTyped ==
    ASSUME NEW x \in Index
    PROVE  x.n \in {0, 1} /\ x.offset \in Nat
<1>1. x.offset \in Offsets /\ x.n \in {0, 1}
  BY DEF Index
<1> QED BY <1>1, LayoutAssumption

\* What is read of a sheet.
LEMMA FilesTyped ==
    ASSUME cue \in Seq(File)
    PROVE  /\ Len(cue) \in Nat /\ DOMAIN cue = 1..Len(cue)
           /\ \A f \in 1..Len(cue) :
                /\ cue[f].size \in FileSizes \cup {Missing, Ragged}
                /\ cue[f].tracks \in Seq(Seq(Index)) /\ Len(cue[f].tracks) \in Nat
                /\ DOMAIN cue[f].tracks = 1..Len(cue[f].tracks)
<1>1. \A f \in 1..Len(cue) : cue[f] \in File
  OBVIOUS
<1>2. ASSUME NEW f \in 1..Len(cue)
      PROVE  /\ cue[f].size \in FileSizes \cup {Missing, Ragged}
             /\ cue[f].tracks \in Seq(Seq(Index)) /\ Len(cue[f].tracks) \in Nat
             /\ DOMAIN cue[f].tracks = 1..Len(cue[f].tracks)
  <2>1. cue[f].size \in FileSizes \cup {Missing, Ragged} /\ cue[f].tracks \in Seq(Seq(Index))
    BY <1>1 DEF File
  <2> QED BY <2>1
<1> QED BY <1>2

\* The tracks, file by file.
Tracks == [f \in DOMAIN cue |-> cue[f].tracks]
Laid == [f \in DOMAIN cue |-> [t \in DOMAIN cue[f].tracks |-> Track(f, t)]]
Counts == Lengths(Tracks)
Place(f, t) == SumTo(Counts, f - 1) + t

LEMMA TracksTyped ==
    ASSUME cue \in Seq(File)
    PROVE  /\ Tracks \in Seq(Seq(Seq(Index))) /\ Len(Tracks) = Len(cue)
           /\ Counts \in Seq(Nat) /\ Len(Counts) = Len(cue)
           /\ \A f \in 1..Len(cue) : Tracks[f] = cue[f].tracks /\ Counts[f] = Len(cue[f].tracks)
<1>1. /\ Len(cue) \in Nat /\ DOMAIN cue = 1..Len(cue)
      /\ \A f \in 1..Len(cue) : cue[f].tracks \in Seq(Seq(Index))
  BY FilesTyped
<1>2. Tracks \in Seq(Seq(Seq(Index))) /\ Len(Tracks) = Len(cue)
      /\ \A f \in 1..Len(cue) : Tracks[f] = cue[f].tracks
  BY <1>1 DEF Tracks
<1>3. Counts \in Seq(Nat) /\ Len(Counts) = Len(Tracks) /\ \A f \in 1..Len(Tracks) : Counts[f] = Len(Tracks[f])
  BY <1>2, LengthsType DEF Counts
<1> QED BY <1>2, <1>3

\* All tracks of the sheet.
LEMMA AllTracksIs ==
    ASSUME cue \in Seq(File)
    PROVE  /\ AllTracks \in Seq(Seq(Index)) /\ Len(AllTracks) = Total(Counts)
           /\ \A f \in 1..Len(cue) : \A t \in 1..Len(cue[f].tracks) :
                Place(f, t) \in 1..Len(AllTracks) /\ AllTracks[Place(f, t)] = cue[f].tracks[t]
<1>1. /\ Tracks \in Seq(Seq(Seq(Index))) /\ Len(Tracks) = Len(cue)
      /\ \A f \in 1..Len(cue) : Tracks[f] = cue[f].tracks
  BY TracksTyped
<1>2. AllTracks = EndToEnd(Tracks)
  BY DEF AllTracks, Tracks
<1>3. /\ EndToEnd(Tracks) \in Seq(Seq(Index)) /\ Len(EndToEnd(Tracks)) = Total(Lengths(Tracks))
      /\ \A i \in 1..Len(Tracks) : Places(EndToEnd(Tracks), Tracks[i], SumTo(Lengths(Tracks), i - 1))
  BY <1>1, EndToEndIs
<1>4. ASSUME NEW f \in 1..Len(cue), NEW t \in 1..Len(cue[f].tracks)
      PROVE  Place(f, t) \in 1..Len(AllTracks) /\ AllTracks[Place(f, t)] = cue[f].tracks[t]
  <2>1. Places(AllTracks, cue[f].tracks, SumTo(Counts, f - 1))
    BY <1>1, <1>2, <1>3 DEF Counts
  <2> QED BY <2>1 DEF Places, Place
<1> QED BY <1>2, <1>3, <1>4 DEF Counts

\* The tracks of the disc.
LEMMA LaidIs ==
    ASSUME cue \in Seq(File)
    PROVE  /\ Len(EndToEnd(Laid)) = Total(Counts)
           /\ \A f \in 1..Len(cue) : \A t \in 1..Len(cue[f].tracks) :
                Place(f, t) \in 1..Len(EndToEnd(Laid)) /\ EndToEnd(Laid)[Place(f, t)] = Track(f, t)
<1> DEFINE S == {Track(f, t) : f \in 1..Len(cue), t \in Nat}
<1>1. /\ Len(cue) \in Nat /\ DOMAIN cue = 1..Len(cue)
      /\ \A f \in 1..Len(cue) : /\ Len(cue[f].tracks) \in Nat
                                /\ DOMAIN cue[f].tracks = 1..Len(cue[f].tracks)
  BY FilesTyped
<1>2. ASSUME NEW f \in 1..Len(cue)
      PROVE  /\ Laid[f] \in Seq(S) /\ Len(Laid[f]) = Len(cue[f].tracks)
             /\ \A t \in 1..Len(cue[f].tracks) : Laid[f][t] = Track(f, t)
  <2>1. Laid[f] = [t \in 1..Len(cue[f].tracks) |-> Track(f, t)]
    BY <1>1 DEF Laid
  <2>2. \A t \in 1..Len(cue[f].tracks) : Track(f, t) \in S
    OBVIOUS
  <2> HIDE DEF S
  <2> QED BY <1>1, <2>1, <2>2
<1> HIDE DEF S
<1>3. Laid \in Seq(Seq(S)) /\ Len(Laid) = Len(cue)
  <2>1. Laid = [f \in 1..Len(cue) |-> Laid[f]]
    BY <1>1 DEF Laid
  <2> QED BY <1>1, <1>2, <2>1
<1>4. Lengths(Laid) = Counts
  <2>1. /\ Counts \in Seq(Nat) /\ Len(Counts) = Len(cue)
        /\ \A f \in 1..Len(cue) : Counts[f] = Len(cue[f].tracks)
    BY TracksTyped
  <2>2. Lengths(Laid) \in Seq(Nat) /\ Len(Lengths(Laid)) = Len(cue)
        /\ \A f \in 1..Len(cue) : Lengths(Laid)[f] = Len(Laid[f])
    BY <1>3, LengthsType
  <2>3. \A f \in 1..Len(cue) : Lengths(Laid)[f] = Counts[f]
    BY <1>2, <2>1, <2>2
  <2> QED BY <2>1, <2>2, <2>3, SeqEqual
<1>5. /\ Len(EndToEnd(Laid)) = Total(Lengths(Laid))
      /\ \A i \in 1..Len(Laid) : Places(EndToEnd(Laid), Laid[i], SumTo(Lengths(Laid), i - 1))
  BY <1>3, EndToEndIs
<1>6. ASSUME NEW f \in 1..Len(cue), NEW t \in 1..Len(cue[f].tracks)
      PROVE  Place(f, t) \in 1..Len(EndToEnd(Laid)) /\ EndToEnd(Laid)[Place(f, t)] = Track(f, t)
  <2>1. Places(EndToEnd(Laid), Laid[f], SumTo(Counts, f - 1))
    BY <1>3, <1>4, <1>5
  <2> QED BY <1>2, <2>1 DEF Places, Place
<1> QED BY <1>4, <1>5, <1>6

\* Each number below is the place of one track.
LEMMA PlaceOf ==
    ASSUME cue \in Seq(File), NEW n \in 1..Total(Counts)
    PROVE  \E f \in 1..Len(cue) : \E t \in 1..Len(cue[f].tracks) : n = Place(f, t)
<1>1. /\ Counts \in Seq(Nat) /\ Len(Counts) = Len(cue) /\ Len(cue) \in Nat
      /\ \A f \in 1..Len(cue) : Counts[f] = Len(cue[f].tracks) /\ Len(cue[f].tracks) \in Nat
  BY TracksTyped, FilesTyped
<1>2. Total(Counts) \in Nat
  <2>1. \A i \in 0..Len(Counts) : SumTo(Counts, i) \in Nat
    BY <1>1, SumType
  <2> QED BY <1>1, <2>1 DEF Total
<1>3. PICK x \in Nat : x = n - 1 /\ x < Total(Counts)
  BY <1>2
<1>4. PICK f \in 1..Len(Counts) : SumTo(Counts, f - 1) <= x /\ x < SumTo(Counts, f)
  BY <1>1, <1>3, SumPlace
<1>5. SumTo(Counts, f) = SumTo(Counts, f - 1) + Counts[f]
  BY <1>1, SumIs
<1>6. SumTo(Counts, f - 1) \in Nat
  <2>1. f - 1 \in 0..Len(Counts)
    BY <1>1
  <2> QED BY <1>1, <2>1, SumType
<1>7. PICK at \in Nat : at = SumTo(Counts, f - 1)
  BY <1>6
<1>8. Len(cue[f].tracks) \in Nat /\ Counts[f] = Len(cue[f].tracks)
  BY <1>1
<1>9. PICK t \in 1..Len(cue[f].tracks) : n = at + t
  <2> DEFINE t == n - at
  <2>1. t \in 1..Len(cue[f].tracks) /\ n = at + t
    BY <1>3, <1>4, <1>5, <1>7, <1>8
  <2> QED BY <2>1
<1> QED BY <1>1, <1>7, <1>9 DEF Place

-----------------------------------------------------------------------------
(* A loaded disc.                                                          *)

LEMMA LoadedFiles ==
    ASSUME cue \in Seq(File), Loadable
    PROVE  /\ FileSectors \in Seq(Nat) /\ Len(FileSectors) = Len(cue) /\ Len(cue) \in Nat \ {0}
           /\ DOMAIN cue = 1..Len(cue)
           /\ \A f \in 1..Len(cue) : cue[f].size \in Nat /\ FileSectors[f] = cue[f].size
           /\ FirstFrame \in {0, Gap} /\ FirstFrame \in Nat
<1>1. /\ Len(cue) \in Nat /\ DOMAIN cue = 1..Len(cue)
      /\ \A f \in 1..Len(cue) : cue[f].size \in FileSizes \cup {Missing, Ragged}
  BY FilesTyped
<1>2. \A f \in 1..Len(cue) : cue[f].size \in Nat
  BY <1>1, LayoutAssumption DEF Loadable
<1>3. FileSectors \in Seq(Nat) /\ Len(FileSectors) = Len(cue)
      /\ \A f \in 1..Len(cue) : FileSectors[f] = cue[f].size
  BY <1>1, <1>2 DEF FileSectors
<1>4. Len(cue) # 0
  <2> SUFFICES ASSUME Len(cue) = 0 PROVE FALSE
    OBVIOUS
  <2>1. Counts \in Seq(Nat) /\ Len(Counts) = 0
    BY TracksTyped
  <2>2. Total(Counts) = 0
    BY <2>1, SumIs DEF Total
  <2>3. AllTracks \in Seq(Seq(Index)) /\ Len(AllTracks) = 0
    BY <2>2, AllTracksIs
  <2>4. AllTracks = <<>>
    BY <2>3
  <2> QED BY <2>4 DEF Loadable
<1>5. FirstFrame \in {0, Gap} /\ FirstFrame \in Nat
  BY LayoutAssumption DEF FirstFrame
<1> QED BY <1>1, <1>2, <1>3, <1>4, <1>5

\* Where files start, and the end of the last.
LEMMA Starts ==
    ASSUME cue \in Seq(File), Loadable
    PROVE  /\ \A f \in 1..(Len(cue) + 1) : FileStart(f) \in Nat /\ FirstFrame <= FileStart(f)
           /\ FileStart(1) = FirstFrame /\ FileStart(Len(cue) + 1) = FirstFrame + Total(FileSectors)
           /\ Total(FileSectors) \in Nat
           /\ \A f \in 1..Len(cue) : FileStart(f + 1) = FileStart(f) + cue[f].size
<1>1. /\ FileSectors \in Seq(Nat) /\ Len(FileSectors) = Len(cue) /\ Len(cue) \in Nat \ {0}
      /\ \A f \in 1..Len(cue) : cue[f].size \in Nat /\ FileSectors[f] = cue[f].size
      /\ FirstFrame \in Nat
  BY LoadedFiles
<1>2. \A n \in 0..Len(cue) : SumTo(FileSectors, n) \in Nat
  BY <1>1, SumType
<1>3. SumTo(FileSectors, 0) = 0
      /\ \A n \in 1..Len(cue) : SumTo(FileSectors, n) = SumTo(FileSectors, n - 1) + FileSectors[n]
  BY <1>1, SumIs
<1>4. ASSUME NEW f \in 1..(Len(cue) + 1) PROVE FileStart(f) \in Nat /\ FirstFrame <= FileStart(f)
  <2>1. f - 1 \in 0..Len(cue)
    BY <1>1
  <2>2. SumTo(FileSectors, f - 1) \in Nat
    BY <1>2, <2>1
  <2> QED BY <1>1, <2>2 DEF FileStart
<1>5. ASSUME NEW f \in 1..Len(cue) PROVE FileStart(f + 1) = FileStart(f) + cue[f].size
  <2>1. PICK g \in 1..(Len(cue) + 1) : g = f + 1
    BY <1>1
  <2>2. g - 1 = f /\ f - 1 \in 0..Len(cue) /\ f \in 0..Len(cue)
    BY <1>1, <2>1
  <2>3. SumTo(FileSectors, f) = SumTo(FileSectors, f - 1) + cue[f].size
    BY <1>1, <1>3
  <2>4. SumTo(FileSectors, f) \in Nat /\ SumTo(FileSectors, f - 1) \in Nat
    BY <1>2, <2>2
  <2>5. FileStart(g) = FirstFrame + SumTo(FileSectors, f)
    BY <2>2 DEF FileStart
  <2>6. FileStart(f) = FirstFrame + SumTo(FileSectors, f - 1)
    BY DEF FileStart
  <2> QED BY <1>1, <2>1, <2>3, <2>4, <2>5, <2>6
<1>6. FileStart(1) = FirstFrame
  <2>1. FileStart(1) = FirstFrame + SumTo(FileSectors, 0)
    BY DEF FileStart
  <2> QED BY <1>1, <1>3, <2>1
<1>7. FileStart(Len(cue) + 1) = FirstFrame + Total(FileSectors)
  <2>1. PICK g \in 1..(Len(cue) + 1) : g = Len(cue) + 1
    BY <1>1
  <2>2. g - 1 = Len(cue)
    BY <1>1, <2>1
  <2>3. FileStart(g) = FirstFrame + SumTo(FileSectors, Len(cue))
    BY <2>2 DEF FileStart
  <2> QED BY <1>1, <2>1, <2>3 DEF Total
<1>8. Total(FileSectors) \in Nat
  BY <1>1, <1>2 DEF Total
<1> QED BY <1>4, <1>5, <1>6, <1>7, <1>8

Inside(f, a) == FileStart(f) <= a /\ a < FileStart(f) + cue[f].size

\* A stored frame is of one file.
LEMMA FileOf ==
    ASSUME cue \in Seq(File), Loadable, NEW a \in Nat, FirstFrame <= a, a < FileStart(Len(cue) + 1)
    PROVE  \E f \in 1..Len(cue) : Inside(f, a) /\ \A g \in 1..Len(cue) : Inside(g, a) => g = f
<1>1. /\ FileSectors \in Seq(Nat) /\ Len(FileSectors) = Len(cue) /\ Len(cue) \in Nat \ {0}
      /\ \A f \in 1..Len(cue) : cue[f].size \in Nat /\ FileSectors[f] = cue[f].size
      /\ FirstFrame \in Nat
  BY LoadedFiles
<1>2. FileStart(Len(cue) + 1) = FirstFrame + Total(FileSectors) /\ Total(FileSectors) \in Nat
  BY Starts
<1>3. PICK x \in Nat : x = a - FirstFrame
  BY <1>1
<1>4. x < Total(FileSectors)
  BY <1>1, <1>2, <1>3
<1>5. ASSUME NEW f \in 1..Len(cue)
      PROVE  Inside(f, a) <=> SumTo(FileSectors, f - 1) <= x /\ x < SumTo(FileSectors, f)
  <2>1. SumTo(FileSectors, f) = SumTo(FileSectors, f - 1) + cue[f].size
    BY <1>1, SumIs
  <2>2. f - 1 \in 0..Len(cue) /\ f \in 0..Len(cue)
    BY <1>1
  <2>3. SumTo(FileSectors, f - 1) \in Nat
    BY <1>1, <2>2, SumType
  <2>4. FileStart(f) = FirstFrame + SumTo(FileSectors, f - 1)
    BY DEF FileStart
  <2>5. cue[f].size \in Nat
    BY <1>1
  <2> QED BY <1>1, <1>3, <2>1, <2>3, <2>4, <2>5 DEF Inside
<1>6. PICK f \in 1..Len(FileSectors) :
        /\ SumTo(FileSectors, f - 1) <= x /\ x < SumTo(FileSectors, f)
        /\ \A j \in 1..Len(FileSectors) : SumTo(FileSectors, j - 1) <= x /\ x < SumTo(FileSectors, j) => j = f
  BY <1>1, <1>4, SumPlace
<1> QED BY <1>1, <1>5, <1>6

LEMMA InsideStored ==
    ASSUME cue \in Seq(File), Loadable, NEW a \in Nat, NEW f \in 1..Len(cue), Inside(f, a)
    PROVE  FirstFrame <= a /\ a < FileStart(Len(cue) + 1)
<1>1. /\ FileSectors \in Seq(Nat) /\ Len(FileSectors) = Len(cue) /\ Len(cue) \in Nat \ {0}
      /\ \A g \in 1..Len(cue) : cue[g].size \in Nat /\ FileSectors[g] = cue[g].size
      /\ FirstFrame \in Nat
  BY LoadedFiles
<1>2. FileStart(Len(cue) + 1) = FirstFrame + Total(FileSectors) /\ Total(FileSectors) \in Nat
      /\ FileStart(f) \in Nat /\ FirstFrame <= FileStart(f)
  BY <1>1, Starts
<1>3. SumTo(FileSectors, f) = SumTo(FileSectors, f - 1) + cue[f].size
  <2>1. f \in 1..Len(FileSectors) /\ FileSectors[f] = cue[f].size
    BY <1>1
  <2>2. SumTo(FileSectors, f) = SumTo(FileSectors, f - 1) + FileSectors[f]
    BY <1>1, <2>1, SumIs
  <2> QED BY <2>1, <2>2
<1>4. f \in 0..Len(cue) /\ Len(cue) \in 0..Len(cue) /\ f <= Len(cue) /\ f - 1 \in 0..Len(cue)
  BY <1>1
<1>5. SumTo(FileSectors, f) <= Total(FileSectors) /\ SumTo(FileSectors, f) \in Nat
      /\ SumTo(FileSectors, f - 1) \in Nat
  BY <1>1, <1>4, SumOrder, SumType DEF Total
<1>6. FileStart(f) = FirstFrame + SumTo(FileSectors, f - 1) /\ cue[f].size \in Nat
  BY <1>1 DEF FileStart
<1>7. FileStart(f) <= a /\ a < FileStart(f) + cue[f].size
  BY DEF Inside
<1>8. FileStart(f) + cue[f].size = FirstFrame + SumTo(FileSectors, f)
  BY <1>1, <1>3, <1>5, <1>6
<1>9. FirstFrame + SumTo(FileSectors, f) <= FirstFrame + Total(FileSectors)
  BY <1>1, <1>2, <1>5
<1>10. FirstFrame <= a
  BY <1>1, <1>2, <1>7
<1>11. a < FirstFrame + Total(FileSectors)
  BY <1>1, <1>2, <1>5, <1>7, <1>8, <1>9
<1> QED BY <1>2, <1>10, <1>11

LoadedOK == cue \in Seq(File) /\ Loadable /\ disc = Loaded

LEMMA RegionsAre ==
    ASSUME LoadedOK
    PROVE  /\ disc.status = "loaded" /\ disc.leadout = FileStart(Len(cue) + 1)
           /\ DOMAIN disc.regions = 1..Len(cue)
           /\ \A f \in 1..Len(cue) : /\ disc.regions[f].start = FileStart(f)
                                     /\ \A a : InRegion(disc.regions[f], a) <=> Inside(f, a)
<1>1. /\ disc.status = "loaded" /\ disc.leadout = FileStart(Len(cue) + 1)
      /\ disc.regions = [f \in DOMAIN cue |-> [start |-> FileStart(f), sectors |-> cue[f].size]]
  BY DEF LoadedOK, Loaded
<1>2. DOMAIN cue = 1..Len(cue)
  BY FilesTyped DEF LoadedOK
<1>3. ASSUME NEW f \in 1..Len(cue)
      PROVE  disc.regions[f] = [start |-> FileStart(f), sectors |-> cue[f].size]
  BY <1>1, <1>2
<1>4. ASSUME NEW f \in 1..Len(cue)
      PROVE  disc.regions[f].start = FileStart(f) /\ \A a : InRegion(disc.regions[f], a) <=> Inside(f, a)
  <2>0. disc.regions[f] = [start |-> FileStart(f), sectors |-> cue[f].size]
    BY <1>3
  <2> DEFINE r == disc.regions[f]
  <2> HIDE DEF r
  <2>1. r.start = FileStart(f) /\ r.sectors = cue[f].size
    BY <2>0 DEF r
  <2>2. ASSUME NEW a PROVE InRegion(disc.regions[f], a) <=> Inside(f, a)
    <3>1. InRegion(disc.regions[f], a) <=> FileStart(f) <= a /\ a < FileStart(f) + cue[f].size
      BY <2>1, Zenon DEF InRegion, r
    <3> QED BY <3>1, Zenon DEF Inside
  <2> QED BY <2>1, <2>2 DEF r
<1> QED BY <1>1, <1>2, <1>4

LEMMA ReadsStored ==
    ASSUME LoadedOK, NEW a \in Nat, NEW f \in 1..Len(cue), Inside(f, a)
    PROVE  ReadSectorRaw(a) = <<f, a - FileStart(f)>>
<1> DEFINE found == {r \in DOMAIN disc.regions : InRegion(disc.regions[r], a)}
<1>1. cue \in Seq(File) /\ Loadable /\ Len(cue) \in Nat
  BY FilesTyped DEF LoadedOK
<1>2. FirstFrame <= a /\ a < FileStart(Len(cue) + 1)
  BY <1>1, InsideStored
<1>3. PICK h \in 1..Len(cue) : Inside(h, a) /\ \A g \in 1..Len(cue) : Inside(g, a) => g = h
  BY <1>1, <1>2, FileOf
<1>4. found = {g \in 1..Len(cue) : Inside(g, a)}
  BY RegionsAre
<1>5. found = {f}
  BY <1>3, <1>4
<1>6. LeastIn(found) = f /\ f # 0
  BY <1>1, <1>5, LeastAlone
<1>7. disc.leadout = FileStart(Len(cue) + 1) /\ disc.regions[f].start = FileStart(f)
  BY RegionsAre
<1>8. FileStart(Len(cue) + 1) \in Nat
  <2>1. Len(cue) + 1 \in 1..(Len(cue) + 1)
    BY <1>1
  <2> QED BY <1>1, <2>1, Starts
<1>9. ~(a >= disc.leadout) /\ ~(a < disc.leadout /\ LeastIn(found) = 0)
  BY <1>2, <1>6, <1>7, <1>8
<1> HIDE DEF found
<1>10. ReadSectorRaw(a) = CASE a >= disc.leadout -> <<>>
                           [] a < disc.leadout /\ LeastIn(found) = 0 -> <<0, 0>>
                           [] OTHER -> <<LeastIn(found), a - disc.regions[LeastIn(found)].start>>
  BY DEF ReadSectorRaw, found
<1>11. ReadSectorRaw(a) = <<LeastIn(found), a - disc.regions[LeastIn(found)].start>>
  BY <1>9, <1>10
<1> QED BY <1>6, <1>7, <1>11

LEMMA ReadsBefore ==
    ASSUME LoadedOK, NEW a \in Nat, a < FirstFrame
    PROVE  ReadSectorRaw(a) = <<0, 0>>
<1> DEFINE found == {r \in DOMAIN disc.regions : InRegion(disc.regions[r], a)}
<1>1. cue \in Seq(File) /\ Loadable /\ Len(cue) \in Nat
  BY FilesTyped DEF LoadedOK
<1>2. \A f \in 1..Len(cue) : ~Inside(f, a)
  <2> SUFFICES ASSUME NEW f \in 1..Len(cue), Inside(f, a) PROVE FALSE
    OBVIOUS
  <2>1. FirstFrame <= a /\ FirstFrame \in Nat
    BY <1>1, InsideStored, LoadedFiles
  <2> QED BY <2>1
<1>3. found = {}
  BY <1>2, RegionsAre
<1>4. LeastIn(found) = 0
  BY <1>3 DEF LeastIn
<1>5. a < disc.leadout /\ ~(a >= disc.leadout)
  <2>1. Len(cue) + 1 \in 1..(Len(cue) + 1)
    BY <1>1
  <2>2. FileStart(Len(cue) + 1) \in Nat /\ FirstFrame <= FileStart(Len(cue) + 1) /\ FirstFrame \in Nat
    BY <1>1, <2>1, Starts, LoadedFiles
  <2>3. disc.leadout = FileStart(Len(cue) + 1)
    BY RegionsAre
  <2> QED BY <2>2, <2>3
<1> HIDE DEF found
<1>6. ReadSectorRaw(a) = CASE a >= disc.leadout -> <<>>
                          [] a < disc.leadout /\ LeastIn(found) = 0 -> <<0, 0>>
                          [] OTHER -> <<LeastIn(found), a - disc.regions[LeastIn(found)].start>>
  BY DEF ReadSectorRaw, found
<1> QED BY <1>4, <1>5, <1>6

Stored == FirstFrame..(FileStart(Len(cue) + 1) - 1)

LEMMA SectorsOnceHolds ==
    ASSUME LoadedOK
    PROVE  SectorsOnce
<1> DEFINE S == Stored
           at == [a \in S |-> ReadSectorRaw(a)]
           T == {ReadSectorRaw(a) : a \in S}
           N == Total(FileSectors)
<1>1. cue \in Seq(File) /\ Loadable /\ Len(cue) \in Nat \ {0} /\ FirstFrame \in Nat
  BY LoadedFiles DEF LoadedOK
<1>2. /\ FileStart(Len(cue) + 1) = FirstFrame + N /\ N \in Nat /\ FileStart(1) = FirstFrame
      /\ \A f \in 1..Len(cue) : FileStart(f) \in Nat
  BY <1>1, Starts
<1>3. disc.leadout = FileStart(Len(cue) + 1) /\ disc.regions[1].start = FirstFrame
  BY <1>1, <1>2, RegionsAre
<1> HIDE DEF N
<1>4. S = FirstFrame..(FirstFrame + N - 1) /\ S \subseteq Nat
  BY <1>1, <1>2 DEF Stored
<1>5. IsFiniteSet(S) /\ Cardinality(S) = N
  <2>1. PICK m \in Nat, n \in Int : m = FirstFrame /\ n = FirstFrame + N - 1
    BY <1>1, <1>2
  <2>2. IsFiniteSet(m..n) /\ Cardinality(m..n) = IF m > n THEN 0 ELSE n - m + 1
    BY FS_Interval
  <2> QED BY <1>1, <1>2, <1>4, <2>1, <2>2
<1>6. ASSUME NEW a \in S
      PROVE  \E f \in 1..Len(cue) : Inside(f, a) /\ ReadSectorRaw(a) = <<f, a - FileStart(f)>>
  <2>1. a \in Nat /\ FirstFrame <= a /\ a < FileStart(Len(cue) + 1)
    BY <1>1, <1>2, <1>4
  <2>2. PICK f \in 1..Len(cue) : Inside(f, a)
    BY <1>1, <2>1, FileOf
  <2> QED BY <2>1, <2>2, ReadsStored
<1> HIDE DEF S
<1>7. ASSUME NEW a \in S, NEW b \in S, ReadSectorRaw(a) = ReadSectorRaw(b) PROVE a = b
  <2>1. PICK f \in 1..Len(cue) : ReadSectorRaw(a) = <<f, a - FileStart(f)>>
    BY <1>6
  <2>2. PICK g \in 1..Len(cue) : ReadSectorRaw(b) = <<g, b - FileStart(g)>>
    BY <1>6
  <2>3. <<f, a - FileStart(f)>> = <<g, b - FileStart(g)>>
    BY <1>7, <2>1, <2>2, Zenon
  <2>4. f = g /\ a - FileStart(f) = b - FileStart(g)
    BY <2>3, Zenon
  <2> QED BY <1>2, <1>4, <2>4
<1>8. ASSUME NEW a \in S PROVE ReadSectorRaw(a)[1] # 0
  <2>1. PICK f \in 1..Len(cue) : ReadSectorRaw(a) = <<f, a - FileStart(f)>>
    BY <1>6
  <2> QED BY <2>1
<1>9. Cardinality(T) = N
  <2>1. at \in Bijection(S, T)
    <3>1. at \in Surjection(S, T)
      BY DEF Surjection
    <3>2. at \in Injection(S, T)
      BY <1>7 DEF Injection, IsInjective
    <3> QED BY <3>1, <3>2 DEF Bijection
  <2>2. ExistsBijection(S, T)
    BY <2>1 DEF ExistsBijection
  <2> QED BY <1>5, <2>2, FS_Bijection
<1>10. ASSUME NEW a \in 0..(FirstFrame - 1) PROVE ReadSectorRaw(a) = <<0, 0>>
  <2>1. a \in Nat /\ a < FirstFrame
    BY <1>1
  <2> QED BY <2>1, ReadsBefore
<1>11. disc.regions[1].start..(disc.leadout - 1) = S
  BY <1>3 DEF S, Stored
<1> QED BY <1>3, <1>5, <1>8, <1>9, <1>10, <1>11 DEF SectorsOnce, N

-----------------------------------------------------------------------------
(* Its tracks.                                                             *)

First(f, t) == FirstOffset(cue[f].tracks[t])
Second(f, t) == StartOffset(cue[f].tracks[t])
NumTracks(f) == Len(cue[f].tracks)

LEMMA StoresFirst ==
    ASSUME cue \in Seq(File), Loadable, NEW f \in 1..Len(cue), NEW t \in 1..NumTracks(f)
    PROVE  /\ cue[f].tracks[t] \in Seq(Index) /\ cue[f].tracks[t] # <<>>
           /\ \E i \in DOMAIN cue[f].tracks[t] : cue[f].tracks[t][i].n = 1
<1>1. cue[f].tracks \in Seq(Seq(Index))
  BY FilesTyped
<1>2. cue[f].tracks[t] \in Seq(Index)
  BY <1>1 DEF NumTracks
<1>3. /\ AllTracks \in Seq(Seq(Index))
      /\ Place(f, t) \in 1..Len(AllTracks) /\ AllTracks[Place(f, t)] = cue[f].tracks[t]
  BY AllTracksIs DEF NumTracks
<1>4. Place(f, t) \in DOMAIN AllTracks
  BY <1>3
<1>5. Stores(cue[f].tracks[t], 1)
  BY <1>3, <1>4 DEF Loadable
<1> QED BY <1>2, <1>5 DEF Stores

\* The index a track starts with, and its INDEX 01.
LEMMA TrackOffsets ==
    ASSUME cue \in Seq(File), Loadable, NEW f \in 1..Len(cue), NEW t \in 1..NumTracks(f)
    PROVE  \E i \in DOMAIN cue[f].tracks[t] :
              /\ 1 \in DOMAIN cue[f].tracks[t] /\ i \in Nat \ {0}
              /\ First(f, t) = cue[f].tracks[t][1].offset /\ First(f, t) \in Nat
              /\ Second(f, t) = cue[f].tracks[t][i].offset /\ Second(f, t) \in Nat
<1> DEFINE track == cue[f].tracks[t]
           ones == {i \in DOMAIN track : track[i].n = 1}
<1>1. track \in Seq(Index) /\ track # <<>> /\ ones # {}
  BY StoresFirst
<1> HIDE DEF track
<1>2. Len(track) \in Nat \ {0} /\ DOMAIN track = 1..Len(track) /\ 1 \in DOMAIN track
  BY <1>1
<1>3. \A i \in DOMAIN track : track[i].offset \in Nat
  <2> SUFFICES ASSUME NEW i \in DOMAIN track PROVE track[i].offset \in Nat
    OBVIOUS
  <2>1. track[i] \in Index
    BY <1>1
  <2> QED BY <2>1, IndexTyped
<1>4. LeastIn(ones) \in ones
  <2>1. ones \subseteq Nat
    BY <1>2
  <2> QED BY <1>1, <2>1, LeastIs
<1>5. PICK i \in DOMAIN track : i = LeastIn(ones)
  BY <1>4
<1>6. FirstOffset(track) = track[1].offset
  BY <1>1 DEF FirstOffset
<1>7. StartOffset(track) = track[LeastIn(ones)].offset
  BY DEF StartOffset
<1> HIDE DEF ones
<1>8. track[i].offset \in Nat /\ track[1].offset \in Nat /\ i \in Nat \ {0}
  BY <1>2, <1>3
<1>9. First(f, t) = track[1].offset /\ Second(f, t) = track[i].offset
  BY <1>5, <1>6, <1>7 DEF First, Second, track
<1> QED BY <1>2, <1>8, <1>9 DEF track

\* The tracks of a file, as rips have them: a track ends where the next begins.
LEMMA TracksInOrder ==
    ASSUME cue \in Seq(File), Loadable, WellFormed, NEW f \in 1..Len(cue)
    PROVE  /\ NumTracks(f) \in Nat \ {0} /\ cue[f].size \in Nat /\ First(f, 1) = 0
           /\ \A t \in 1..NumTracks(f) :
                /\ First(f, t) \in Nat /\ Second(f, t) \in Nat
                /\ First(f, t) <= Second(f, t) /\ Second(f, t) < cue[f].size
           /\ \A t, u \in 1..NumTracks(f) : t < u => Second(f, t) < First(f, u)
           /\ \A t \in 1..NumTracks(f) :
                RegionEnd(f, t) = IF t < NumTracks(f) THEN First(f, t + 1) ELSE cue[f].size
<1> DEFINE tracks == cue[f].tracks
<1>1. /\ DOMAIN cue = 1..Len(cue) /\ NumTracks(f) \in Nat /\ DOMAIN tracks = 1..NumTracks(f)
      /\ tracks \in Seq(Seq(Index))
  BY FilesTyped DEF NumTracks
<1>2. cue[f].size \in Nat
  BY LoadedFiles
<1>3. /\ tracks # <<>> /\ tracks[1] # <<>> /\ tracks[1][1].offset = 0
      /\ \A t \in DOMAIN tracks :
          /\ \A i \in DOMAIN tracks[t] : tracks[t][i].offset < cue[f].size
          /\ \A i, j \in DOMAIN tracks[t] :
              i < j => tracks[t][i].n < tracks[t][j].n /\ tracks[t][i].offset < tracks[t][j].offset
          /\ \A u \in DOMAIN tracks : \A i \in DOMAIN tracks[t], j \in DOMAIN tracks[u] :
              t < u => tracks[t][i].offset < tracks[u][j].offset
  BY <1>1 DEF WellFormed
<1>4. NumTracks(f) # 0
  BY <1>1, <1>3 DEF NumTracks
<1> HIDE DEF tracks
<1>5. ASSUME NEW t \in 1..NumTracks(f)
      PROVE  /\ First(f, t) \in Nat /\ Second(f, t) \in Nat
             /\ First(f, t) <= Second(f, t) /\ Second(f, t) < cue[f].size
  <2>1. PICK i \in DOMAIN tracks[t] :
            /\ 1 \in DOMAIN tracks[t] /\ i \in Nat \ {0}
            /\ First(f, t) = tracks[t][1].offset /\ First(f, t) \in Nat
            /\ Second(f, t) = tracks[t][i].offset /\ Second(f, t) \in Nat
    BY TrackOffsets DEF tracks
  <2>2. t \in DOMAIN tracks
    BY <1>1
  <2>3. Second(f, t) < cue[f].size
    BY <1>3, <2>1, <2>2
  <2>4. First(f, t) <= Second(f, t)
    <3>1. CASE i = 1
      BY <2>1, <3>1
    <3>2. CASE i # 1
      <4>1. 1 < i
        BY <2>1, <3>2
      <4>2. tracks[t][1].offset < tracks[t][i].offset
        BY <1>3, <2>1, <2>2, <4>1
      <4> QED BY <2>1, <4>2
    <3> QED BY <3>1, <3>2
  <2> QED BY <2>1, <2>3, <2>4
<1>6. ASSUME NEW t \in 1..NumTracks(f), NEW u \in 1..NumTracks(f), t < u
      PROVE  Second(f, t) < First(f, u)
  <2>1. PICK i \in DOMAIN tracks[t] : Second(f, t) = tracks[t][i].offset
    BY TrackOffsets DEF tracks
  <2>2. 1 \in DOMAIN tracks[u] /\ First(f, u) = tracks[u][1].offset
    BY TrackOffsets DEF tracks
  <2>3. t \in DOMAIN tracks /\ u \in DOMAIN tracks
    BY <1>1
  <2>4. tracks[t][i].offset < tracks[u][1].offset
    BY <1>3, <1>6, <2>2, <2>3
  <2> QED BY <2>1, <2>2, <2>4
<1>7. First(f, 1) = 0
  <2>1. 1 \in 1..NumTracks(f)
    BY <1>1, <1>4
  <2>2. First(f, 1) = tracks[1][1].offset
    BY <2>1, TrackOffsets DEF tracks
  <2> QED BY <1>3, <2>2
<1>8. ASSUME NEW t \in 1..NumTracks(f)
      PROVE  RegionEnd(f, t) = IF t < NumTracks(f) THEN First(f, t + 1) ELSE cue[f].size
  <2>1. CASE t < NumTracks(f)
    <3>1. PICK u \in 1..NumTracks(f) : u = t + 1
      BY <1>1, <2>1
    <3>2. tracks[u] # <<>>
      BY StoresFirst DEF tracks
    <3>3. RegionEnd(f, t) = FirstOffset(cue[f].tracks[t + 1])
      BY <2>1, <3>1, <3>2 DEF RegionEnd, NumTracks, tracks
    <3> QED BY <2>1, <3>3 DEF First
  <2>2. CASE ~(t < NumTracks(f))
    BY <2>2 DEF RegionEnd, NumTracks
  <2> QED BY <2>1, <2>2
<1> QED BY <1>1, <1>2, <1>4, <1>5, <1>6, <1>7, <1>8

Covers(f, t, a) == FileStart(f) + First(f, t) <= a /\ a < FileStart(f) + RegionEnd(f, t)

LEMMA TracksAre ==
    ASSUME LoadedOK
    PROVE  /\ DOMAIN disc.tracks = 1..Total(Counts) /\ Total(Counts) \in Nat
           /\ Len(disc.tracks) = Len(AllTracks)
           /\ \A f \in 1..Len(cue) : \A t \in 1..NumTracks(f) :
                /\ Place(f, t) \in DOMAIN disc.tracks
                /\ disc.tracks[Place(f, t)].regionStart = FileStart(f) + First(f, t)
                /\ disc.tracks[Place(f, t)].start = FileStart(f) + Second(f, t)
                /\ \A a : InTrack(disc.tracks[Place(f, t)], a) <=> Covers(f, t, a)
<1>1. cue \in Seq(File) /\ disc.tracks = EndToEnd(Laid)
  BY DEF LoadedOK, Loaded, Laid
<1>2. /\ Len(EndToEnd(Laid)) = Total(Counts)
      /\ \A f \in 1..Len(cue) : \A t \in 1..NumTracks(f) :
           Place(f, t) \in 1..Len(EndToEnd(Laid)) /\ EndToEnd(Laid)[Place(f, t)] = Track(f, t)
  BY <1>1, LaidIs DEF NumTracks
<1>3. Len(AllTracks) = Total(Counts) /\ AllTracks \in Seq(Seq(Index))
  BY <1>1, AllTracksIs
<1>4. DOMAIN disc.tracks = 1..Len(disc.tracks)
  <2> DEFINE S == {Track(f, t) : f \in 1..Len(cue), t \in Nat}
  <2>1. /\ Len(cue) \in Nat /\ DOMAIN cue = 1..Len(cue)
        /\ \A f \in 1..Len(cue) : Len(cue[f].tracks) \in Nat /\ DOMAIN cue[f].tracks = 1..Len(cue[f].tracks)
    BY <1>1, FilesTyped
  <2>2. ASSUME NEW f \in 1..Len(cue) PROVE Laid[f] \in Seq(S)
    <3>1. Laid[f] = [t \in 1..Len(cue[f].tracks) |-> Track(f, t)]
      BY <2>1 DEF Laid
    <3>2. \A t \in 1..Len(cue[f].tracks) : Track(f, t) \in S
      OBVIOUS
    <3> HIDE DEF S
    <3> QED BY <2>1, <3>1, <3>2
  <2> HIDE DEF S
  <2>3. Laid \in Seq(Seq(S))
    <3>1. Laid = [f \in 1..Len(cue) |-> Laid[f]]
      BY <2>1 DEF Laid
    <3> QED BY <2>1, <2>2, <3>1
  <2>4. EndToEnd(Laid) \in Seq(S)
    BY <2>3, EndToEndIs
  <2> QED BY <1>1, <2>4
<1>5. ASSUME NEW f \in 1..Len(cue), NEW t \in 1..NumTracks(f)
      PROVE  /\ Place(f, t) \in DOMAIN disc.tracks
             /\ disc.tracks[Place(f, t)].regionStart = FileStart(f) + First(f, t)
             /\ disc.tracks[Place(f, t)].start = FileStart(f) + Second(f, t)
             /\ \A a : InTrack(disc.tracks[Place(f, t)], a) <=> Covers(f, t, a)
  <2> DEFINE r == disc.tracks[Place(f, t)]
  <2>1. Place(f, t) \in DOMAIN disc.tracks /\ r = Track(f, t)
    BY <1>1, <1>2, <1>4
  <2> HIDE DEF r
  <2>2. r = [regionStart |-> FileStart(f) + First(f, t), start |-> FileStart(f) + Second(f, t),
             end |-> FileStart(f) + RegionEnd(f, t)]
    BY <2>1 DEF Track, First, Second
  <2>3. /\ r.regionStart = FileStart(f) + First(f, t) /\ r.start = FileStart(f) + Second(f, t)
        /\ r.end = FileStart(f) + RegionEnd(f, t)
    BY <2>2
  <2>4. ASSUME NEW a PROVE InTrack(r, a) <=> Covers(f, t, a)
    <3>1. InTrack(r, a) <=> FileStart(f) + First(f, t) <= a /\ a < FileStart(f) + RegionEnd(f, t)
      BY <2>3, Zenon DEF InTrack
    <3> QED BY <3>1, Zenon DEF Covers
  <2> QED BY <2>1, <2>3, <2>4 DEF r
<1>6. Total(Counts) \in Nat
  BY <1>3
<1> QED BY <1>1, <1>2, <1>3, <1>4, <1>5, <1>6

LEMMA CoversOne ==
    ASSUME cue \in Seq(File), Loadable, WellFormed, NEW f \in 1..Len(cue), NEW a \in Nat
    PROVE  /\ Inside(f, a) => \E t \in 1..NumTracks(f) : Covers(f, t, a)
           /\ \A t \in 1..NumTracks(f) : Covers(f, t, a) => Inside(f, a)
           /\ \A t, u \in 1..NumTracks(f) : Covers(f, t, a) /\ Covers(f, u, a) => t = u
<1> DEFINE n == NumTracks(f)
           size == cue[f].size
           o == [t \in 1..n |-> First(f, t)]
           e == [t \in 1..n |-> RegionEnd(f, t)]
<1>1. n \in Nat \ {0} /\ size \in Nat
  BY TracksInOrder
<1>2. 1 \in 1..n /\ o[1] = 0
  BY <1>1, TracksInOrder
<1>3. \A t \in 1..n : o[t] \in Nat /\ o[t] < size
  <2> SUFFICES ASSUME NEW t \in 1..n PROVE o[t] \in Nat /\ o[t] < size
    OBVIOUS
  <2>1. First(f, t) \in Nat /\ Second(f, t) \in Nat /\ First(f, t) <= Second(f, t) /\ Second(f, t) < size
    BY TracksInOrder
  <2> QED BY <1>1, <2>1
<1>4. ASSUME NEW t \in 1..n, NEW u \in 1..n, t < u PROVE o[t] < o[u]
  <2>1. First(f, t) \in Nat /\ Second(f, t) \in Nat /\ First(f, u) \in Nat
        /\ First(f, t) <= Second(f, t) /\ Second(f, t) < First(f, u)
    BY <1>4, TracksInOrder
  <2> QED BY <2>1
<1>5. ASSUME NEW t \in 1..n PROVE e[t] = IF t < n THEN o[t + 1] ELSE size
  <2>1. RegionEnd(f, t) = IF t < NumTracks(f) THEN First(f, t + 1) ELSE cue[f].size
    BY TracksInOrder
  <2>2. t < n => t + 1 \in 1..n
    BY <1>1
  <2> QED BY <2>1, <2>2
<1>6. FileStart(f) \in Nat
  <2>1. Len(cue) \in Nat
    BY FilesTyped
  <2>2. f \in 1..(Len(cue) + 1)
    BY <2>1
  <2> QED BY <2>2, Starts
<1>7. PICK s \in Nat : s = FileStart(f)
  BY <1>6
<1>8. \A t \in 1..n : Covers(f, t, a) <=> s + o[t] <= a /\ a < s + e[t]
  BY <1>7 DEF Covers
<1>9. Inside(f, a) <=> s <= a /\ a < s + size
  BY <1>7 DEF Inside
<1> HIDE DEF n, size, o, e
<1>10. \A t \in 1..n : e[t] \in Nat /\ e[t] <= size
  <2> SUFFICES ASSUME NEW t \in 1..n PROVE e[t] \in Nat /\ e[t] <= size
    OBVIOUS
  <2>1. CASE t < n
    <3>1. PICK u \in 1..n : u = t + 1
      BY <1>1, <2>1
    <3>2. e[t] = o[u]
      BY <1>5, <2>1, <3>1
    <3> QED BY <1>1, <1>3, <3>1, <3>2
  <2>2. CASE ~(t < n)
    BY <1>1, <1>5, <2>2
  <2> QED BY <2>1, <2>2
<1>11. ASSUME Inside(f, a) PROVE \E t \in 1..n : Covers(f, t, a)
  <2> DEFINE S == {t \in 1..n : a < s + e[t]}
  <2>1. n \in S
    <3>1. e[n] = size /\ n \in 1..n
      BY <1>1, <1>5
    <3> QED BY <1>9, <1>11, <3>1
  <2>2. PICK t \in S : \A u \in S : t <= u
    <3>1. S \subseteq Nat /\ S # {}
      BY <1>1, <2>1
    <3> HIDE DEF S
    <3> QED BY <3>1, LeastOf
  <2>3. CASE t = 1
    <3>1. s + o[t] <= a
      BY <1>2, <1>9, <1>11, <2>3
    <3> QED BY <1>8, <2>2, <3>1
  <2>4. CASE t # 1
    <3>1. PICK u \in 1..n : u + 1 = t /\ u < n
      <4>1. t - 1 \in 1..n /\ (t - 1) + 1 = t /\ t - 1 < n
        BY <1>1, <2>2, <2>4
      <4> QED BY <4>1
    <3>2. u \notin S
      BY <1>1, <2>2, <3>1
    <3>3. e[u] = o[t] /\ e[u] \in Nat
      BY <1>5, <1>10, <3>1
    <3>4. s + o[t] <= a
      BY <3>2, <3>3
    <3> QED BY <1>8, <2>2, <3>4
  <2> QED BY <2>3, <2>4
<1>12. ASSUME NEW t \in 1..n, Covers(f, t, a) PROVE Inside(f, a)
  <2>1. s + o[t] <= a /\ a < s + e[t] /\ o[t] \in Nat /\ e[t] \in Nat /\ e[t] <= size
    BY <1>3, <1>8, <1>10, <1>12
  <2> QED BY <1>1, <1>9, <2>1
<1>13. ASSUME NEW t \in 1..n, NEW u \in 1..n, Covers(f, t, a), Covers(f, u, a) PROVE ~(t < u)
  <2> SUFFICES ASSUME t < u PROVE FALSE
    OBVIOUS
  <2>1. PICK v \in 1..n : v = t + 1 /\ t < n /\ v <= u
    BY <1>1
  <2>2. e[t] = o[v]
    BY <1>5, <2>1
  <2>3. o[v] <= o[u] /\ o[v] \in Nat /\ o[u] \in Nat
    <3>1. CASE v = u
      BY <1>3, <3>1
    <3>2. CASE v # u
      <4>1. v < u
        BY <1>1, <2>1, <3>2
      <4>2. o[v] < o[u]
        BY <1>4, <4>1
      <4> QED BY <1>3, <4>2
    <3> QED BY <3>1, <3>2
  <2>4. a < s + e[t] /\ s + o[u] <= a
    BY <1>8, <1>13
  <2> QED BY <2>2, <2>3, <2>4
<1>14. ASSUME NEW t \in 1..n, NEW u \in 1..n, Covers(f, t, a), Covers(f, u, a) PROVE t = u
  <2>1. ~(t < u) /\ ~(u < t)
    BY <1>13, <1>14
  <2> QED BY <1>1, <2>1
<1> QED BY <1>11, <1>12, <1>14 DEF n

\* A frame is of one track at most, a stored one of one.
LEMMA InTrackOnce ==
    ASSUME LoadedOK, WellFormed, NEW a \in Nat, NEW t \in DOMAIN disc.tracks, NEW u \in DOMAIN disc.tracks,
           InTrack(disc.tracks[t], a), InTrack(disc.tracks[u], a)
    PROVE  t = u
<1>1. cue \in Seq(File) /\ Loadable
  BY DEF LoadedOK
<1>2. t \in 1..Total(Counts) /\ u \in 1..Total(Counts)
  BY TracksAre
<1>3. PICK f \in 1..Len(cue) : \E k \in 1..NumTracks(f) : t = Place(f, k)
  BY <1>1, <1>2, PlaceOf DEF NumTracks
<1>4. PICK k \in 1..NumTracks(f) : t = Place(f, k)
  BY <1>3
<1>5. PICK g \in 1..Len(cue) : \E l \in 1..NumTracks(g) : u = Place(g, l)
  BY <1>1, <1>2, PlaceOf DEF NumTracks
<1>6. PICK l \in 1..NumTracks(g) : u = Place(g, l)
  BY <1>5
<1>7. Covers(f, k, a) /\ Covers(g, l, a)
  BY <1>4, <1>6, TracksAre
<1>8. Inside(f, a) /\ Inside(g, a)
  BY <1>1, <1>7, CoversOne
<1>9. FirstFrame <= a /\ a < FileStart(Len(cue) + 1)
  BY <1>1, <1>8, InsideStored
<1>10. f = g
  <2>1. PICK h \in 1..Len(cue) : \A i \in 1..Len(cue) : Inside(i, a) => i = h
    BY <1>1, <1>9, FileOf
  <2> QED BY <1>8, <2>1
<1>11. k = l
  BY <1>1, <1>7, <1>10, CoversOne
<1> QED BY <1>4, <1>6, <1>10, <1>11

LEMMA InTrackSome ==
    ASSUME LoadedOK, WellFormed, NEW a \in Stored
    PROVE  \E t \in DOMAIN disc.tracks : InTrack(disc.tracks[t], a)
<1>1. cue \in Seq(File) /\ Loadable /\ FirstFrame \in Nat /\ Len(cue) \in Nat
  BY LoadedFiles DEF LoadedOK
<1>2. FileStart(Len(cue) + 1) \in Nat
  <2>1. Len(cue) + 1 \in 1..(Len(cue) + 1)
    BY <1>1
  <2> QED BY <1>1, <2>1, Starts
<1>3. a \in Nat /\ FirstFrame <= a /\ a < FileStart(Len(cue) + 1)
  BY <1>1, <1>2 DEF Stored
<1>4. PICK f \in 1..Len(cue) : Inside(f, a)
  BY <1>1, <1>3, FileOf
<1>5. PICK t \in 1..NumTracks(f) : Covers(f, t, a)
  BY <1>1, <1>3, <1>4, CoversOne
<1>6. Place(f, t) \in DOMAIN disc.tracks /\ InTrack(disc.tracks[Place(f, t)], a)
  BY <1>5, TracksAre
<1> QED BY <1>6

LEMMA TracksTileHolds ==
    ASSUME LoadedOK
    PROVE  TracksTile
<1> SUFFICES ASSUME WellFormed
             PROVE  /\ \A a \in Stored :
                        Cardinality({t \in DOMAIN disc.tracks : InTrack(disc.tracks[t], a)}) = 1
                    /\ \A t \in DOMAIN disc.tracks : TrackAt(disc.tracks[t].start) = t
                    /\ ReadSectorRaw(LbaBase) = <<1, 0>>
  <2>1. cue \in Seq(File) /\ Loadable /\ Len(cue) \in Nat \ {0}
    BY LoadedFiles DEF LoadedOK
  <2>2. disc.regions[1].start = FirstFrame /\ disc.leadout = FileStart(Len(cue) + 1)
    <3>1. 1 \in 1..Len(cue)
      BY <2>1
    <3> QED BY <2>1, <3>1, RegionsAre, Starts
  <2>3. disc.regions[1].start..(disc.leadout - 1) = Stored
    BY <2>2 DEF Stored
  <2> QED BY <2>3 DEF TracksTile
<1>1. cue \in Seq(File) /\ Loadable /\ Len(cue) \in Nat \ {0} /\ FirstFrame \in Nat
      /\ FirstFrame \in {0, Gap}
  BY LoadedFiles DEF LoadedOK
<1>2. FileStart(1) = FirstFrame /\ \A f \in 1..Len(cue) : FileStart(f) \in Nat
  <2>1. \A f \in 1..Len(cue) : f \in 1..(Len(cue) + 1)
    BY <1>1
  <2> QED BY <1>1, <2>1, Starts
<1>3. FirstFrame..(FileStart(Len(cue) + 1) - 1) = Stored /\ Stored \subseteq Nat
  <2>1. Len(cue) + 1 \in 1..(Len(cue) + 1)
    BY <1>1
  <2>2. FileStart(Len(cue) + 1) \in Nat
    BY <1>1, <2>1, Starts
  <2> QED BY <1>1, <2>2 DEF Stored
<1>4. ASSUME NEW a \in Nat, NEW t \in DOMAIN disc.tracks, InTrack(disc.tracks[t], a)
      PROVE  {u \in DOMAIN disc.tracks : InTrack(disc.tracks[u], a)} = {t}
  BY <1>4, InTrackOnce
<1>5. ASSUME NEW a \in Stored
      PROVE  Cardinality({t \in DOMAIN disc.tracks : InTrack(disc.tracks[t], a)}) = 1
  <2>1. PICK t \in DOMAIN disc.tracks : InTrack(disc.tracks[t], a)
    BY InTrackSome
  <2>2. {u \in DOMAIN disc.tracks : InTrack(disc.tracks[u], a)} = {t}
    BY <1>3, <1>4, <2>1
  <2> QED BY <2>2, FS_Singleton
<1>6. ASSUME NEW t \in DOMAIN disc.tracks PROVE TrackAt(disc.tracks[t].start) = t
  <2>1. t \in 1..Total(Counts) /\ Total(Counts) \in Nat
    BY TracksAre
  <2>2. PICK f \in 1..Len(cue) : \E k \in 1..NumTracks(f) : t = Place(f, k)
    BY <1>1, <2>1, PlaceOf DEF NumTracks
  <2>3. PICK k \in 1..NumTracks(f) : t = Place(f, k)
    BY <2>2
  <2>4. disc.tracks[t].start = FileStart(f) + Second(f, k)
    BY <2>3, TracksAre
  <2>5. Covers(f, k, FileStart(f) + Second(f, k)) /\ Second(f, k) \in Nat
    <3>1. /\ First(f, k) \in Nat /\ Second(f, k) \in Nat
          /\ First(f, k) <= Second(f, k) /\ Second(f, k) < cue[f].size
          /\ cue[f].size \in Nat /\ NumTracks(f) \in Nat
          /\ RegionEnd(f, k) = IF k < NumTracks(f) THEN First(f, k + 1) ELSE cue[f].size
      BY <1>1, TracksInOrder
    <3>2. Second(f, k) < RegionEnd(f, k) /\ RegionEnd(f, k) \in Nat
      <4>1. CASE k < NumTracks(f)
        <5>1. PICK l \in 1..NumTracks(f) : l = k + 1 /\ k < l
          BY <3>1, <4>1
        <5>2. Second(f, k) < First(f, l) /\ First(f, l) \in Nat
          BY <1>1, <5>1, TracksInOrder
        <5> QED BY <3>1, <4>1, <5>1, <5>2
      <4>2. CASE ~(k < NumTracks(f))
        BY <3>1, <4>2
      <4> QED BY <4>1, <4>2
    <3>3. PICK s \in Nat : s = FileStart(f)
      BY <1>2
    <3> QED BY <3>1, <3>2, <3>3 DEF Covers
  <2>6. PICK a \in Nat : a = disc.tracks[t].start
    BY <1>2, <2>4, <2>5
  <2>7. InTrack(disc.tracks[t], a)
    BY <2>3, <2>4, <2>5, <2>6, TracksAre
  <2>8. {u \in DOMAIN disc.tracks : InTrack(disc.tracks[u], a)} = {t}
    BY <1>4, <2>7
  <2>9. t \in Nat
    BY <2>1
  <2> QED BY <2>6, <2>8, <2>9, LeastAlone DEF TrackAt
<1>7. ReadSectorRaw(LbaBase) = <<1, 0>>
  <2>1. 1 \in 1..Len(cue)
    BY <1>1
  <2>2. NumTracks(1) \in Nat \ {0} /\ First(1, 1) = 0 /\ cue[1].size \in Nat
    BY <1>1, <2>1, TracksInOrder
  <2>3. 1 \in 1..NumTracks(1)
    BY <2>2
  <2>4. cue[1].size > 0
    <3>1. Second(1, 1) \in Nat /\ Second(1, 1) < cue[1].size
      BY <1>1, <2>1, <2>3, TracksInOrder
    <3> QED BY <2>2, <3>1
  <2>5. Place(1, 1) = 1
    <3>1. Counts \in Seq(Nat)
      BY <1>1, TracksTyped
    <3>2. SumTo(Counts, 0) = 0
      BY <3>1, SumIs
    <3> QED BY <3>2 DEF Place
  <2>6. disc.tracks[Place(1, 1)].regionStart = FileStart(1) + First(1, 1)
    BY <2>1, <2>3, TracksAre
  <2>7. disc.tracks[1].regionStart = FirstFrame
    BY <1>1, <1>2, <2>2, <2>5, <2>6
  <2>8. LbaBase = FirstFrame
    BY <1>1, <2>7 DEF LbaBase
  <2>9. Inside(1, FirstFrame)
    BY <1>1, <1>2, <2>2, <2>4 DEF Inside
  <2>10. ReadSectorRaw(FirstFrame) = <<1, FirstFrame - FileStart(1)>>
    BY <1>1, <2>1, <2>9, ReadsStored
  <2>11. FirstFrame - FileStart(1) = 0
    BY <1>1, <1>2
  <2> QED BY <2>8, <2>10, <2>11
<1> QED BY <1>5, <1>6, <1>7

-----------------------------------------------------------------------------
(* The steps of the layout.                                                *)

LEMMA Unloaded ==
    ASSUME cue' \in Seq(File), disc' = Reading \/ disc' = Refused
    PROVE  LayoutIInv'
<1>1. Reading' = Reading /\ Refused' = Refused
  BY DEF Reading, Refused
<1>2. disc' = Reading' \/ disc' = Refused'
  BY <1>1
<1>3. (cue \in Seq(File))'
  BY DEF File, Index, Missing, Ragged
<1>4. (disc = Reading \/ disc = Refused)'
  BY <1>2
<1>5. (cue \in Seq(File) /\ (disc = Reading \/ disc = Refused))'
  BY <1>3, <1>4
<1> QED BY <1>5, Zenon DEF LayoutIInv

LEMMA LayoutStarts == LayoutInit => LayoutIInv
<1>1. <<>> \in Seq(File)
  OBVIOUS
<1>2. ASSUME LayoutInit PROVE LayoutIInv
  <2>1. cue \in Seq(File) /\ disc = Reading
    BY <1>1, <1>2 DEF LayoutInit
  <2> QED BY <2>1, Zenon DEF LayoutIInv
<1> QED BY <1>2

LEMMA FileLineKeeps ==
    ASSUME LayoutIInv, NEW size \in FileSizes \cup {Missing, Ragged}, NEW binary \in BOOLEAN, FileLine(size, binary)
    PROVE  LayoutIInv'
<1>1. disc = Reading /\ (cue' = Append(cue, [size |-> size, tracks |-> <<>>]) \/ cue' = cue)
      /\ (disc' = Reading \/ disc' = Refused)
  BY DEF FileLine, LineRead
<1>2. [size |-> size, tracks |-> <<>>] \in File
  BY DEF File
<1>3. cue' \in Seq(File)
  <2>1. cue \in Seq(File)
    BY DEF LayoutIInv
  <2> QED BY <1>1, <1>2, <2>1
<1> QED BY <1>1, <1>3, Unloaded

LEMMA TrackLineKeeps ==
    ASSUME LayoutIInv, NEW supported \in BOOLEAN, TrackLine(supported)
    PROVE  LayoutIInv'
<1>1. disc' = Reading \/ disc' = Refused
  BY DEF TrackLine, LineRead
<1>2. \/ cue' = cue
      \/ cue # <<>> /\ cue' = [cue EXCEPT ![Len(cue)].tracks = Append(@, <<>>)]
  <2>1. CASE cue # <<>> /\ supported
    <3>1. cue' = [cue EXCEPT ![Len(cue)].tracks = Append(@, <<>>)]
      BY <2>1, Zenon DEF TrackLine
    <3> QED BY <2>1, <3>1
  <2>2. CASE ~(cue # <<>> /\ supported)
    BY <2>2, Zenon DEF TrackLine
  <2> QED BY <2>1, <2>2
<1>3. cue \in Seq(File)
  BY DEF LayoutIInv
<1>4. ASSUME cue # <<>> PROVE [cue EXCEPT ![Len(cue)].tracks = Append(@, <<>>)] \in Seq(File)
  <2>1. PICK n \in 1..Len(cue) : n = Len(cue)
    BY <1>3, <1>4
  <2> DEFINE e == cue[n]
             new == [e EXCEPT !.tracks = Append(@, <<>>)]
  <2>2. e \in File
    BY <1>3
  <2>3. e.tracks \in Seq(Seq(Index))
    BY <2>2 DEF File
  <2>4. <<>> \in Seq(Index)
    OBVIOUS
  <2>5. Append(e.tracks, <<>>) \in Seq(Seq(Index))
    BY <2>3, <2>4
  <2>6. new \in File
    BY <2>2, <2>5 DEF File
  <2>7. [cue EXCEPT ![n].tracks = Append(@, <<>>)] = [cue EXCEPT ![n] = new]
    OBVIOUS
  <2> HIDE DEF new
  <2>8. [cue EXCEPT ![n] = new] \in Seq(File)
    BY <1>3, <2>6
  <2> QED BY <2>1, <2>7, <2>8
<1>5. cue' \in Seq(File)
  BY <1>2, <1>3, <1>4
<1> QED BY <1>1, <1>5, Unloaded

LEMMA IndexLineKeeps ==
    ASSUME LayoutIInv, NEW n \in {0, 1}, NEW offset \in Offsets, IndexLine(n, offset)
    PROVE  LayoutIInv'
<1> DEFINE x == [n |-> n, offset |-> offset]
           f == Len(cue)
           t == Len(cue[f].tracks)
<1>1. disc' = Reading \/ disc' = Refused
  BY DEF IndexLine, LineRead
<1>2. \/ cue' = cue
      \/ f # 0 /\ t # 0 /\ cue' = [cue EXCEPT ![f].tracks[t] = Append(@, x)]
  <2> DEFINE place == IF f = 0 THEN 0 ELSE t
  <2>1. IF place # 0 THEN cue' = [cue EXCEPT ![f].tracks[place] = Append(@, x)] /\ UNCHANGED disc
        ELSE disc' = Refused /\ UNCHANGED cue
    BY Zenon DEF IndexLine
  <2>2. CASE place # 0
    <3>1. f # 0 /\ place = t
      BY <2>2
    <3> HIDE DEF place
    <3>2. cue' = [cue EXCEPT ![f].tracks[place] = Append(@, x)]
      BY <2>1, <2>2, Zenon
    <3> QED BY <2>2, <3>1, <3>2, Zenon
  <2>3. CASE place = 0
    <3> HIDE DEF place
    <3> QED BY <2>1, <2>3, Zenon
  <2> QED BY <2>2, <2>3
<1>3. cue \in Seq(File)
  BY DEF LayoutIInv
<1>4. ASSUME f # 0, t # 0 PROVE [cue EXCEPT ![f].tracks[t] = Append(@, x)] \in Seq(File)
  <2>1. f \in 1..Len(cue)
    BY <1>3, <1>4
  <2> DEFINE e == cue[f]
  <2>2. e \in File
    BY <1>3, <2>1
  <2> HIDE DEF f
  <2>3. e.tracks \in Seq(Seq(Index))
    BY <2>2 DEF File
  <2>4. t \in 1..Len(e.tracks)
    BY <1>4, <2>3
  <2> HIDE DEF t
  <2> DEFINE s == e.tracks
             more == Append(s[t], x)
             news == [s EXCEPT ![t] = more]
             new == [e EXCEPT !.tracks = news]
  <2>5. s[t] \in Seq(Index)
    BY <2>3, <2>4
  <2>6. x \in Index
    BY DEF Index
  <2> HIDE DEF x
  <2>7. more \in Seq(Index)
    BY <2>5, <2>6
  <2> HIDE DEF more
  <2>8. news \in Seq(Seq(Index))
    <3> HIDE DEF s
    <3>1. s \in Seq(Seq(Index)) /\ t \in 1..Len(s)
      BY <2>3, <2>4 DEF s
    <3> QED BY <2>7, <3>1
  <2>9. new \in File
    <3> HIDE DEF news
    <3> QED BY <2>2, <2>8 DEF File
  <2>10. [cue EXCEPT ![f].tracks[t] = Append(@, x)] = [cue EXCEPT ![f] = new]
    BY DEF more
  <2> HIDE DEF new
  <2>11. [cue EXCEPT ![f] = new] \in Seq(File)
    BY <1>3, <2>1, <2>9
  <2> QED BY <2>10, <2>11
<1>5. cue' \in Seq(File)
  <2> HIDE DEF x, f, t
  <2> QED BY <1>2, <1>3, <1>4
<1> QED BY <1>1, <1>5, Unloaded

LEMMA SameSheet ==
    ASSUME cue' = cue
    PROVE  Loaded' = Loaded /\ Loadable' = Loadable
BY DEF Loaded, Loadable, AllTracks, Stores, FileStart, FirstFrame, FileSectors, Track, RegionEnd,
       FirstOffset, StartOffset

LEMMA LoadDiscKeeps ==
    ASSUME LayoutIInv, LoadDisc
    PROVE  LayoutIInv'
<1>1. /\ cue' = cue /\ cue \in Seq(File)
      /\ \/ disc' = Refused
         \/ disc' = Loaded /\ Loadable
  BY DEF LoadDisc, LayoutIInv
<1>2. Loaded' = Loaded /\ Loadable' = Loadable
  BY <1>1, SameSheet
<1> QED BY <1>1, <1>2 DEF LayoutIInv, Refused

LEMMA LayoutStays ==
    ASSUME LayoutIInv, UNCHANGED layoutVars
    PROVE  LayoutIInv'
<1>1. cue' = cue /\ disc' = disc
  BY DEF layoutVars
<1>2. Loaded' = Loaded /\ Loadable' = Loadable
  BY <1>1, SameSheet
<1> QED BY <1>1, <1>2 DEF LayoutIInv, Reading, Refused

LEMMA LayoutKeeps ==
    ASSUME LayoutIInv, [LayoutNext]_layoutVars
    PROVE  LayoutIInv'
<1>1. CASE \E size \in FileSizes \cup {Missing, Ragged}, binary \in BOOLEAN : FileLine(size, binary)
  BY <1>1, FileLineKeeps
<1>2. CASE \E supported \in BOOLEAN : TrackLine(supported)
  BY <1>2, TrackLineKeeps
<1>3. CASE \E n \in {0, 1}, offset \in Offsets : IndexLine(n, offset)
  BY <1>3, IndexLineKeeps
<1>4. CASE LoadDisc
  BY <1>4, LoadDiscKeeps
<1>5. CASE NextSheet
  <2>1. cue' \in Seq(File) /\ disc' = Reading
    BY <1>5 DEF NextSheet
  <2> QED BY <2>1, Unloaded
<1>6. CASE UNCHANGED layoutVars
  BY <1>6, LayoutStays
<1> QED BY <1>1, <1>2, <1>3, <1>4, <1>5, <1>6 DEF LayoutNext

LEMMA LayoutIs ==
    ASSUME LayoutIInv
    PROVE  LayoutInv
<1>1. \A f \in DOMAIN cue : cue[f].size \in FileSizes \cup {Missing, Ragged}
  BY FilesTyped DEF LayoutIInv
<1>2. CASE disc = Reading \/ disc = Refused
  <2>1. disc.status \in {"reading", "refused", "loaded"} /\ disc.status # "loaded"
    BY <1>2 DEF Reading, Refused
  <2> QED BY <1>1, <2>1 DEF LayoutInv, LayoutTypeOK, SectorsOnce, TracksTile
<1>3. CASE LoadedOK
  <2>1. cue \in Seq(File) /\ Loadable /\ Len(cue) \in Nat
    BY <1>3, FilesTyped DEF LoadedOK
  <2>2. FileStart(Len(cue) + 1) \in Nat
    <3>1. Len(cue) + 1 \in 1..(Len(cue) + 1)
      BY <2>1
    <3> QED BY <2>1, <3>1, Starts
  <2>3. disc.status = "loaded" /\ disc.leadout \in Nat
    BY <1>3, <2>2, RegionsAre
  <2>4. Len(disc.tracks) = Len(AllTracks)
    BY <1>3, TracksAre
  <2>5. LayoutTypeOK
    BY <1>1, <2>3, <2>4 DEF LayoutTypeOK
  <2> QED BY <1>3, <2>5, SectorsOnceHolds, TracksTileHolds DEF LayoutInv
<1> QED BY <1>2, <1>3 DEF LayoutIInv, LoadedOK

\* Every sector is read at one frame, and the tracks of a sheet as rips are made
\* tile the disc.
THEOREM LayoutCorrect == LayoutSpec => []LayoutInv
<1>1. LayoutInit => LayoutIInv
  BY LayoutStarts
<1>2. LayoutIInv /\ [LayoutNext]_layoutVars => LayoutIInv'
  BY LayoutKeeps
<1>3. LayoutIInv => LayoutInv
  BY LayoutIs
<1> QED BY <1>1, <1>2, <1>3, PTL DEF LayoutSpec

-----------------------------------------------------------------------------
(* The walk of the directories of a disc, breadth first.                   *)

Run(d) == CHOOSE f : f = [n \in 0..MaxDepth |-> IF n = 0 THEN {d.root} ELSE WithBelow(d, f[n - 1])]
Reach(d, n) == Run(d)[n]

LEMMA WithinIs == \A d, n : Within(d, n) = Reach(d, n)
  BY DEF Within, Reach, Run

LEMMA ReachIs ==
    ASSUME NEW d
    PROVE  /\ Reach(d, 0) = {d.root}
           /\ \A n \in 1..MaxDepth : Reach(d, n) = WithBelow(d, Reach(d, n - 1))
<1> DEFINE run == Run(d)
           M == MaxDepth
<1>1. M \in Nat
  BY InventoryAssumption
<1>2. run = CHOOSE f : f = [n \in 0..M |-> IF n = 0 THEN {d.root} ELSE WithBelow(d, f[n - 1])]
  BY DEF Run
<1> HIDE DEF run, M
<1>3. run = [n \in 0..M |-> IF n = 0 THEN {d.root} ELSE WithBelow(d, run[n - 1])]
  <2> DEFINE T == {k \in Nat : \E f : f = [n \in 0..k |-> IF n = 0 THEN {d.root} ELSE WithBelow(d, f[n - 1])]}
  <2>1. 0 \in T
    <3> DEFINE f == [n \in 0..0 |-> {d.root}]
    <3>1. f = [n \in 0..0 |-> IF n = 0 THEN {d.root} ELSE WithBelow(d, f[n - 1])]
      OBVIOUS
    <3> HIDE DEF f
    <3>2. \E g : g = [n \in 0..0 |-> IF n = 0 THEN {d.root} ELSE WithBelow(d, g[n - 1])]
      BY <3>1, Zenon
    <3> QED BY <3>2, Zenon
  <2>2. ASSUME NEW k \in Nat, k \in T PROVE k + 1 \in T
    <3>1. PICK e : e = [n \in 0..k |-> IF n = 0 THEN {d.root} ELSE WithBelow(d, e[n - 1])]
      BY <2>2
    <3> DEFINE h == [n \in 0..(k + 1) |-> IF n = k + 1 THEN WithBelow(d, e[k]) ELSE e[n]]
    <3>2. ASSUME NEW n \in 0..(k + 1) PROVE h[n] = IF n = 0 THEN {d.root} ELSE WithBelow(d, h[n - 1])
      <4>1. CASE n = 0
        BY <3>1, <4>1
      <4>2. CASE n = k + 1
        <5>1. n - 1 = k /\ n # 0 /\ k \in 0..(k + 1) /\ k # k + 1
          BY <4>2
        <5>2. h[k] = e[k]
          BY <5>1
        <5>3. h[n] = WithBelow(d, e[k])
          BY <4>2, Zenon
        <5> QED BY <5>1, <5>2, <5>3, Zenon
      <4>3. CASE n \in 1..k
        <5>1. n \in 0..(k + 1) /\ n - 1 \in 0..(k + 1) /\ n # k + 1 /\ n - 1 # k + 1 /\ n # 0 /\ n \in 0..k
          BY <4>3
        <5>2. h[n] = e[n] /\ h[n - 1] = e[n - 1]
          BY <5>1
        <5>3. e[n] = WithBelow(d, e[n - 1])
          BY <3>1, <5>1
        <5> QED BY <5>1, <5>2, <5>3, Zenon
      <4> QED BY <4>1, <4>2, <4>3
    <3>3. h = [n \in 0..(k + 1) |-> IF n = 0 THEN {d.root} ELSE WithBelow(d, h[n - 1])]
      BY <3>2
    <3> HIDE DEF h
    <3>4. \E f : f = [n \in 0..(k + 1) |-> IF n = 0 THEN {d.root} ELSE WithBelow(d, f[n - 1])]
      BY <3>3, Zenon
    <3>5. k + 1 \in Nat
      OBVIOUS
    <3> QED BY <3>4, <3>5, Zenon
  <2>3. M \in T
    <3> HIDE DEF T
    <3> QED BY <1>1, <2>1, <2>2, Induct
  <2> QED BY <1>2, <2>3
<1>4. run[0] = {d.root}
  BY <1>1, <1>3
<1>5. ASSUME NEW n \in 1..M PROVE run[n] = WithBelow(d, run[n - 1])
  <2>1. n \in 0..M /\ n # 0
    BY <1>1
  <2>2. run[n] = IF n = 0 THEN {d.root} ELSE WithBelow(d, run[n - 1])
    BY <1>3, <2>1, Zenon
  <2> QED BY <2>1, <2>2, Zenon
<1> QED BY <1>4, <1>5 DEF Reach, run, M

\* A directory found is found at every greater depth.
LEMMA ReachGrows ==
    ASSUME NEW d, NEW m \in 0..MaxDepth
    PROVE  \A n \in m..MaxDepth : Reach(d, m) \subseteq Reach(d, n)
<1> DEFINE T == {k \in Nat : m + k <= MaxDepth => Reach(d, m) \subseteq Reach(d, m + k)}
<1>1. MaxDepth \in Nat
  BY InventoryAssumption
<1>2. 0 \in T
  BY <1>1
<1>3. ASSUME NEW k \in Nat, k \in T PROVE k + 1 \in T
  <2> SUFFICES ASSUME m + (k + 1) <= MaxDepth PROVE Reach(d, m) \subseteq Reach(d, m + (k + 1))
    OBVIOUS
  <2>1. PICK n \in 1..MaxDepth : n = m + (k + 1) /\ n - 1 = m + k
    BY <1>1
  <2>2. Reach(d, m) \subseteq Reach(d, n - 1)
    <3>1. m + k <= MaxDepth
      BY <1>1
    <3> QED BY <1>3, <2>1, <3>1
  <2>3. Reach(d, n) = WithBelow(d, Reach(d, n - 1))
    BY ReachIs
  <2>4. Reach(d, n - 1) \subseteq Reach(d, n)
    BY <2>3 DEF WithBelow
  <2> QED BY <2>1, <2>2, <2>4
<1> HIDE DEF T
<1>4. Nat \subseteq T
  BY <1>2, <1>3, Induct
<1> USE DEF T
<1>5. ASSUME NEW n \in m..MaxDepth PROVE Reach(d, m) \subseteq Reach(d, n)
  <2>1. PICK k \in Nat : m + k = n
    <3>1. n - m \in Nat /\ m + (n - m) = n
      BY <1>1
    <3> QED BY <3>1
  <2>2. k \in T
    BY <1>4
  <2> QED BY <1>1, <2>1, <2>2
<1> QED BY <1>5

\* A directory to be read, and the queue `r` once the head of `q` is taken and
\* what it leads to is added.
Dir == [lba : Nat, depth : 0..(MaxDepth + 1)]
IsQueued(q, l) == \E i \in 1..Len(q) : q[i].lba = l
IsQueuedAt(q, l, n) == \E i \in 1..Len(q) : q[i].lba = l /\ q[i].depth = n
Moves(q, r, found) ==
    /\ q \in Seq(Dir) /\ found \in Seq(Dir) /\ r \in Seq(Dir)
    /\ Len(q) \in Nat \ {0} /\ Len(found) \in Nat /\ Len(r) = (Len(q) - 1) + Len(found)
    /\ \A i \in 1..(Len(q) - 1) : r[i] = q[i + 1]
    /\ \A i \in 1..Len(found) : r[(Len(q) - 1) + i] = found[i]

LEMMA TailMoves ==
    ASSUME NEW q \in Seq(Dir), q # <<>>
    PROVE  Moves(q, Tail(q), <<>>)
<1>1. Len(q) \in Nat \ {0} /\ Tail(q) \in Seq(Dir) /\ Len(Tail(q)) = Len(q) - 1
      /\ \A i \in 1..(Len(q) - 1) : Tail(q)[i] = q[i + 1]
  OBVIOUS
<1>2. <<>> \in Seq(Dir) /\ Len(<<>>) = 0
  OBVIOUS
<1> QED BY <1>1, <1>2 DEF Moves

LEMMA EnqueueMoves ==
    ASSUME NEW q \in Seq(Dir), q # <<>>, NEW found \in Seq(Dir)
    PROVE  Moves(q, Tail(q) \o found, found)
<1> DEFINE t == Tail(q)
           r == t \o found
<1>1. Len(q) \in Nat \ {0} /\ t \in Seq(Dir) /\ Len(t) = Len(q) - 1
      /\ \A i \in 1..(Len(q) - 1) : t[i] = q[i + 1]
  OBVIOUS
<1> HIDE DEF t
<1>2. /\ r \in Seq(Dir) /\ Len(r) = Len(t) + Len(found)
      /\ \A i \in 1..(Len(t) + Len(found)) : r[i] = IF i <= Len(t) THEN t[i] ELSE found[i - Len(t)]
  BY <1>1, ConcatProperties
<1>3. Len(found) \in Nat /\ Len(t) \in Nat
  BY <1>1
<1> HIDE DEF r
<1>4. \A i \in 1..Len(t) : r[i] = t[i]
  BY <1>2, <1>3
<1>5. ASSUME NEW i \in 1..Len(found) PROVE r[Len(t) + i] = found[i]
  <2>1. PICK k \in 1..(Len(t) + Len(found)) : k = Len(t) + i
    BY <1>3
  <2>2. ~(k <= Len(t)) /\ k - Len(t) = i
    BY <1>3, <2>1
  <2> QED BY <1>2, <2>1, <2>2
<1> HIDE DEF r
<1>6. Moves(q, r, found)
  BY <1>1, <1>2, <1>3, <1>4, <1>5 DEF Moves
<1> QED BY <1>6 DEF r, t

\* Where what is in `r` comes from, and where what was in `q` and `found` is.
LEMMA MovesFrom ==
    ASSUME NEW q, NEW r, NEW found, Moves(q, r, found), NEW i \in 1..Len(r)
    PROVE  \/ \E j \in 1..Len(q) : j = i + 1 /\ r[i] = q[j]
           \/ \E j \in 1..Len(found) : i = (Len(q) - 1) + j /\ r[i] = found[j]
<1>1. CASE i <= Len(q) - 1
  <2>1. i \in 1..(Len(q) - 1) /\ i + 1 \in 1..Len(q)
    BY <1>1 DEF Moves
  <2> QED BY <2>1 DEF Moves
<1>2. CASE ~(i <= Len(q) - 1)
  <2>1. PICK j \in 1..Len(found) : i = (Len(q) - 1) + j
    <3>1. i - (Len(q) - 1) \in 1..Len(found) /\ i = (Len(q) - 1) + (i - (Len(q) - 1))
      BY <1>2 DEF Moves
    <3> QED BY <3>1
  <2>2. r[(Len(q) - 1) + j] = found[j]
    BY DEF Moves
  <2> QED BY <2>1, <2>2
<1> QED BY <1>1, <1>2

LEMMA MovesKeeps ==
    ASSUME NEW q, NEW r, NEW found, Moves(q, r, found)
    PROVE  /\ \A j \in 1..Len(q) : j = 1 \/ \E i \in 1..Len(r) : r[i] = q[j]
           /\ \A j \in 1..Len(found) : \E i \in 1..Len(r) : r[i] = found[j]
<1>1. ASSUME NEW j \in 1..Len(q), j # 1 PROVE \E i \in 1..Len(r) : r[i] = q[j]
  <2>1. PICK i \in 1..(Len(q) - 1) : i + 1 = j
    <3>1. j - 1 \in 1..(Len(q) - 1) /\ (j - 1) + 1 = j
      BY <1>1 DEF Moves
    <3> QED BY <3>1
  <2>2. r[i] = q[i + 1] /\ i \in 1..Len(r)
    BY DEF Moves
  <2> QED BY <2>1, <2>2
<1>2. ASSUME NEW j \in 1..Len(found) PROVE \E i \in 1..Len(r) : r[i] = found[j]
  <2>1. (Len(q) - 1) + j \in 1..Len(r) /\ r[(Len(q) - 1) + j] = found[j]
    BY DEF Moves
  <2> QED BY <2>1
<1> QED BY <1>1, <1>2

\* The walk between two depths: all nearer than `n` is read, and what is at `n`
\* is read or queued before what is behind it.
Ordered(q) == \A i, j \in 1..Len(q) : i < j => q[i].depth <= q[j].depth
Layer(d, q, v, n) ==
    /\ n \in 0..MaxDepth /\ q \in Seq(Dir) /\ Ordered(q)
    /\ \A i \in 1..Len(q) : q[i].depth \in {n, n + 1}
                            /\ (q[i].depth <= MaxDepth => q[i].lba \in Reach(d, q[i].depth))
    /\ v \subseteq Reach(d, n)
    /\ \A l \in Reach(d, n) : l \in v \/ IsQueuedAt(q, l, n)
    /\ \A l \in v : \A k \in Subdirectories(d, l) : k \in v \/ IsQueued(q, k)

\* The walk past the greatest depth.
Past(d, q, v) ==
    /\ q \in Seq(Dir) /\ v = Reach(d, MaxDepth)
    /\ \A i \in 1..Len(q) : q[i].depth = MaxDepth + 1

LEMMA HeadQueued ==
    ASSUME NEW q \in Seq(Dir), q # <<>>
    PROVE  /\ 1 \in 1..Len(q) /\ Head(q) = q[1] /\ Head(q).lba \in Nat
           /\ Head(q).depth \in 0..(MaxDepth + 1)
<1>1. 1 \in 1..Len(q) /\ Head(q) = q[1] /\ q[1] \in Dir
  OBVIOUS
<1> QED BY <1>1 DEF Dir

LEMMA PastTail ==
    ASSUME NEW d, NEW q, NEW v, Past(d, q, v), q # <<>>
    PROVE  Past(d, Tail(q), v) /\ Head(q).depth = MaxDepth + 1
<1>1. q \in Seq(Dir)
  BY DEF Past
<1>2. Moves(q, Tail(q), <<>>)
  BY <1>1, TailMoves
<1>3. Len(<<>>) = 0
  OBVIOUS
<1> DEFINE r == Tail(q)
<1> HIDE DEF r
<1>4. ASSUME NEW i \in 1..Len(r) PROVE r[i].depth = MaxDepth + 1
  <2>1. \E j \in 1..Len(q) : r[i] = q[j]
    BY <1>2, <1>3, MovesFrom DEF r
  <2> QED BY <2>1 DEF Past
<1>5. r \in Seq(Dir) /\ Head(q).depth = MaxDepth + 1
  BY <1>1, <1>2, HeadQueued DEF Moves, Past, r
<1>6. Past(d, r, v)
  BY <1>4, <1>5 DEF Past
<1> QED BY <1>5, <1>6 DEF r

\* Taking the head, and adding what is below it: nothing when it was read before.
LEMMA LayerMoves ==
    ASSUME NEW d, NEW q, NEW v, NEW w, NEW n, NEW r, NEW found,
           Layer(d, q, v, n), Moves(q, r, found), Head(q).depth = n,
           w = v \cup {Head(q).lba},
           \A i \in 1..Len(found) : found[i].depth = n + 1 /\ found[i].lba \in Subdirectories(d, Head(q).lba),
           Head(q).lba \notin v => \A k \in Subdirectories(d, Head(q).lba) : IsQueued(found, k)
    PROVE  Layer(d, r, w, n)
<1>1. /\ n \in 0..MaxDepth /\ q \in Seq(Dir) /\ r \in Seq(Dir) /\ q # <<>> /\ MaxDepth \in Nat
      /\ Len(q) \in Nat \ {0} /\ Len(found) \in Nat /\ Len(r) \in Nat
  BY InventoryAssumption DEF Layer, Moves
<1>2. Head(q) = q[1] /\ 1 \in 1..Len(q)
  BY <1>1, HeadQueued
<1>3. Head(q).lba \in Reach(d, n)
  BY <1>1, <1>2 DEF Layer
<1>4. ASSUME NEW i \in 1..Len(r)
      PROVE  r[i].depth \in {n, n + 1} /\ (r[i].depth <= MaxDepth => r[i].lba \in Reach(d, r[i].depth))
  <2>1. CASE \E j \in 1..Len(q) : j = i + 1 /\ r[i] = q[j]
    BY <2>1 DEF Layer
  <2>2. CASE \E j \in 1..Len(found) : i = (Len(q) - 1) + j /\ r[i] = found[j]
    <3>1. r[i].depth = n + 1 /\ r[i].lba \in Subdirectories(d, Head(q).lba)
      BY <2>2
    <3>2. ASSUME r[i].depth <= MaxDepth PROVE r[i].lba \in Reach(d, r[i].depth)
      <4>1. PICK m \in 1..MaxDepth : m = n + 1 /\ m - 1 = n
        BY <1>1, <3>1, <3>2
      <4>2. Reach(d, m) = WithBelow(d, Reach(d, m - 1))
        BY ReachIs
      <4>3. r[i].lba \in WithBelow(d, Reach(d, n))
        BY <1>3, <3>1 DEF WithBelow
      <4> QED BY <3>1, <4>1, <4>2, <4>3
    <3> QED BY <3>1, <3>2
  <2> QED BY <2>1, <2>2, MovesFrom
<1>5. ASSUME NEW i \in 1..Len(r), NEW j \in 1..Len(r), i < j PROVE r[i].depth <= r[j].depth
  <2>1. r[i].depth \in {n, n + 1} /\ r[j].depth \in {n, n + 1}
    BY <1>4
  <2>2. CASE \E k \in 1..Len(q) : k = j + 1 /\ r[j] = q[k]
    <3>1. PICK k \in 1..Len(q) : k = j + 1 /\ r[j] = q[k]
      BY <2>2
    <3>2. PICK h \in 1..Len(q) : h = i + 1 /\ h < k
      BY <1>1, <1>5, <3>1
    <3>3. r[i] = q[h]
      <4>1. i \in 1..(Len(q) - 1)
        BY <1>1, <3>2
      <4> QED BY <3>2, <4>1 DEF Moves
    <3>4. q[h].depth <= q[k].depth
      BY <3>2 DEF Layer, Ordered
    <3> QED BY <3>1, <3>3, <3>4
  <2>3. CASE \E k \in 1..Len(found) : j = (Len(q) - 1) + k /\ r[j] = found[k]
    <3>1. r[j].depth = n + 1
      BY <2>3
    <3> QED BY <1>1, <2>1, <3>1
  <2> QED BY <2>2, <2>3, MovesFrom
<1>6. w \subseteq Reach(d, n)
  BY <1>3 DEF Layer
<1>7. ASSUME NEW l, \E j \in 1..Len(q) : q[j].lba = l, l \notin w PROVE IsQueued(r, l)
  <2>1. PICK j \in 1..Len(q) : q[j].lba = l
    BY <1>7
  <2>2. j # 1
    BY <1>2, <1>7, <2>1
  <2> QED BY <2>1, <2>2, MovesKeeps DEF IsQueued
<1>8. ASSUME NEW l \in Reach(d, n), l \notin w PROVE IsQueuedAt(r, l, n)
  <2>1. PICK j \in 1..Len(q) : q[j].lba = l /\ q[j].depth = n
    BY <1>8 DEF Layer, IsQueuedAt
  <2>2. j # 1
    BY <1>2, <1>8, <2>1
  <2> QED BY <2>1, <2>2, MovesKeeps DEF IsQueuedAt
<1>9. ASSUME NEW l \in w, NEW k \in Subdirectories(d, l), k \notin w PROVE IsQueued(r, k)
  <2>1. CASE l \in v
    <3>1. IsQueued(q, k)
      BY <1>9, <2>1 DEF Layer
    <3> QED BY <1>7, <1>9, <3>1 DEF IsQueued
  <2>2. CASE l \notin v
    <3>1. IsQueued(found, k)
      BY <1>9, <2>2
    <3> QED BY <3>1, MovesKeeps DEF IsQueued
  <2> QED BY <2>1, <2>2
<1>10. Ordered(r)
  BY <1>5 DEF Ordered
<1> QED BY <1>1, <1>4, <1>6, <1>8, <1>9, <1>10 DEF Layer

\* Once nothing at depth `n` is left all that is reachable within `n` is read.
LEMMA LayerRead ==
    ASSUME NEW d, NEW q, NEW v, NEW n, Layer(d, q, v, n),
           q = <<>> \/ Head(q).depth # n
    PROVE  v = Reach(d, n) /\ \A i \in 1..Len(q) : q[i].depth = n + 1
<1>1. n \in Nat /\ q \in Seq(Dir)
  BY InventoryAssumption DEF Layer
<1>2. ASSUME NEW i \in 1..Len(q) PROVE q[i].depth = n + 1
  <2>1. q # <<>> /\ 1 \in 1..Len(q) /\ Head(q) = q[1]
    BY <1>1
  <2>2. q[1].depth # n
    BY <2>1
  <2>3. q[1].depth \in {n, n + 1} /\ q[i].depth \in {n, n + 1}
    BY <2>1 DEF Layer
  <2>4. CASE i = 1
    BY <2>2, <2>3, <2>4
  <2>5. CASE i # 1
    <3>1. 1 < i
      BY <2>5
    <3>2. q[1].depth <= q[i].depth
      BY <2>1, <3>1 DEF Layer, Ordered
    <3> QED BY <1>1, <2>2, <2>3, <3>2
  <2> QED BY <2>4, <2>5
<1>3. ASSUME NEW l \in Reach(d, n) PROVE l \in v
  <2> SUFFICES ASSUME IsQueuedAt(q, l, n) PROVE FALSE
    BY DEF Layer
  <2>1. PICK i \in 1..Len(q) : q[i].depth = n
    BY DEF IsQueuedAt
  <2>2. n = n + 1
    BY <1>2, <2>1
  <2> QED BY <1>1, <2>2
<1>4. v \subseteq Reach(d, n)
  BY DEF Layer
<1> QED BY <1>2, <1>3, <1>4

LEMMA LayerDown ==
    ASSUME NEW d, NEW q, NEW v, NEW n, Layer(d, q, v, n), q # <<>>, Head(q).depth # n
    PROVE  Past(d, q, v) \/ \E m \in 0..MaxDepth : Layer(d, q, v, m) /\ Head(q).depth = m
<1>1. n \in Nat /\ n <= MaxDepth /\ MaxDepth \in Nat /\ q \in Seq(Dir) /\ Len(q) \in Nat
  BY InventoryAssumption DEF Layer
<1>2. v = Reach(d, n) /\ \A i \in 1..Len(q) : q[i].depth = n + 1
  BY LayerRead
<1>3. CASE n = MaxDepth
  BY <1>1, <1>2, <1>3 DEF Past
<1>4. CASE n # MaxDepth
  <2>1. PICK m \in 1..MaxDepth : m = n + 1 /\ m - 1 = n
    BY <1>1, <1>4
  <2>2. Reach(d, m) = WithBelow(d, v)
    <3>1. Reach(d, m) = WithBelow(d, Reach(d, m - 1))
      BY ReachIs
    <3> QED BY <1>2, <2>1, <3>1
  <2>3. \A i \in 1..Len(q) : q[i].depth = m
    BY <1>2, <2>1
  <2>4. ASSUME NEW i \in 1..Len(q)
        PROVE  q[i].depth \in {m, m + 1} /\ (q[i].depth <= MaxDepth => q[i].lba \in Reach(d, q[i].depth))
    <3>1. q[i].depth \in {n, n + 1} /\ (q[i].depth <= MaxDepth => q[i].lba \in Reach(d, q[i].depth))
      BY DEF Layer
    <3> QED BY <2>3, <3>1
  <2>5. v \subseteq Reach(d, m)
    BY <2>2 DEF WithBelow
  <2>6. ASSUME NEW l \in Reach(d, m), l \notin v PROVE IsQueuedAt(q, l, m)
    <3>1. PICK k \in v : l \in Subdirectories(d, k)
      BY <2>2, <2>6 DEF WithBelow
    <3>2. IsQueued(q, l)
      BY <2>6, <3>1 DEF Layer
    <3> QED BY <2>3, <3>2 DEF IsQueued, IsQueuedAt
  <2>7. /\ m \in 0..MaxDepth /\ Ordered(q)
        /\ \A l \in v : \A k \in Subdirectories(d, l) : k \in v \/ IsQueued(q, k)
    BY <2>1 DEF Layer
  <2>8. Layer(d, q, v, m)
    BY <1>1, <2>4, <2>5, <2>6, <2>7 DEF Layer
  <2>9. Head(q).depth = m
    <3>1. 1 \in 1..Len(q) /\ Head(q) = q[1]
      BY <1>1
    <3> QED BY <2>3, <3>1
  <2> QED BY <2>7, <2>8, <2>9
<1> QED BY <1>3, <1>4

\* A queue that is empty: nothing is found behind what was read.
LEMMA LayerEnds ==
    ASSUME NEW d, NEW v, NEW n, Layer(d, <<>>, v, n)
    PROVE  v = Reach(d, MaxDepth)
<1> DEFINE T == {k \in Nat : n + k <= MaxDepth => Reach(d, n + k) = v}
<1>1. n \in Nat /\ n <= MaxDepth /\ MaxDepth \in Nat /\ Len(<<>>) = 0
  BY InventoryAssumption DEF Layer
<1>2. v = Reach(d, n)
  BY LayerRead
<1>3. WithBelow(d, v) = v
  <2>1. \A l \in v : \A k \in Subdirectories(d, l) : k \in v
    BY <1>1 DEF Layer, IsQueued
  <2> QED BY <2>1 DEF WithBelow
<1>4. 0 \in T
  BY <1>1, <1>2
<1>5. ASSUME NEW k \in Nat, k \in T PROVE k + 1 \in T
  <2> SUFFICES ASSUME n + (k + 1) <= MaxDepth PROVE Reach(d, n + (k + 1)) = v
    OBVIOUS
  <2>1. PICK m \in 1..MaxDepth : m = n + (k + 1) /\ m - 1 = n + k
    BY <1>1
  <2>2. Reach(d, m) = WithBelow(d, Reach(d, m - 1))
    BY ReachIs
  <2>3. Reach(d, m - 1) = v
    <3>1. n + k <= MaxDepth
      BY <1>1
    <3> QED BY <1>5, <2>1, <3>1
  <2> QED BY <1>3, <2>1, <2>2, <2>3
<1> HIDE DEF T
<1>6. Nat \subseteq T
  BY <1>4, <1>5, Induct
<1>7. PICK k \in Nat : n + k = MaxDepth
  <2>1. MaxDepth - n \in Nat /\ n + (MaxDepth - n) = MaxDepth
    BY <1>1
  <2> QED BY <2>1
<1>8. k \in T
  BY <1>6
<1> QED BY <1>1, <1>7, <1>8 DEF T

-----------------------------------------------------------------------------
(* A walk is between two depths, or past the greatest.                     *)

Walks(d, q, v) == Past(d, q, v) \/ \E n \in 0..MaxDepth : Layer(d, q, v, n)

LEMMA WalkStarts ==
    ASSUME NEW d, d.root \in Nat
    PROVE  Walks(d, <<[lba |-> d.root, depth |-> 0]>>, {})
<1> DEFINE dir == [lba |-> d.root, depth |-> 0]
           q == <<dir>>
<1>1. MaxDepth \in Nat
  BY InventoryAssumption
<1>2. dir \in Dir /\ dir.lba = d.root /\ dir.depth = 0
  BY <1>1 DEF Dir
<1> HIDE DEF dir
<1>3. q \in Seq(Dir) /\ Len(q) = 1 /\ q[1] = dir
  BY <1>2
<1> HIDE DEF q
<1>4. Reach(d, 0) = {d.root}
  BY ReachIs
<1>5. Ordered(q) /\ \A i \in 1..Len(q) : i = 1
  BY <1>3 DEF Ordered
<1>6. \A l \in Reach(d, 0) : IsQueuedAt(q, l, 0)
  BY <1>2, <1>3, <1>4 DEF IsQueuedAt
<1>7. ASSUME NEW i \in 1..Len(q)
      PROVE  q[i].depth \in {0, 0 + 1} /\ (q[i].depth <= MaxDepth => q[i].lba \in Reach(d, q[i].depth))
  BY <1>2, <1>3, <1>4, <1>5
<1>8. Layer(d, q, {}, 0)
  BY <1>1, <1>3, <1>5, <1>6, <1>7 DEF Layer
<1>9. Walks(d, q, {})
  BY <1>1, <1>8 DEF Walks
<1> QED BY <1>9 DEF q, dir

\* A directory that is not read leaves the rest of the walk.
LEMMA WalkSkips ==
    ASSUME NEW d, NEW q, NEW v, Walks(d, q, v), q # <<>>,
           Head(q).depth > MaxDepth \/ Head(q).lba \in v
    PROVE  Walks(d, Tail(q), v)
<1>1. CASE Past(d, q, v)
  BY <1>1, PastTail DEF Walks
<1>2. CASE \E n \in 0..MaxDepth : Layer(d, q, v, n) /\ Head(q).depth = n
  <2>1. PICK n \in 0..MaxDepth : Layer(d, q, v, n) /\ Head(q).depth = n
    BY <1>2
  <2>2. Head(q).lba \in v
    BY <2>1, InventoryAssumption
  <2>3. v = v \cup {Head(q).lba}
    BY <2>2
  <2>4. Moves(q, Tail(q), <<>>) /\ Len(<<>>) = 0
    BY <2>1, TailMoves DEF Layer
  <2> DEFINE r == Tail(q)
             none == <<>>
  <2>5. \A i \in 1..Len(none) : none[i].depth = n + 1 /\ none[i].lba \in Subdirectories(d, Head(q).lba)
    BY <2>4
  <2> HIDE DEF r, none
  <2>6. Moves(q, r, none)
    BY <2>4 DEF r, none
  <2>7. Layer(d, r, v, n)
    BY <2>1, <2>2, <2>3, <2>5, <2>6, LayerMoves
  <2> QED BY <2>7 DEF Walks, r
<1>3. CASE \E n \in 0..MaxDepth : Layer(d, q, v, n) /\ Head(q).depth # n
  BY <1>1, <1>2, <1>3, LayerDown
<1> QED BY <1>1, <1>2, <1>3 DEF Walks

\* One that is read is found at its depth, and what is in it is queued.
LEMMA WalkVisits ==
    ASSUME NEW d, NEW q, NEW v, Walks(d, q, v), q # <<>>, NEW found \in Seq(Dir),
           Head(q).depth <= MaxDepth,
           \A i \in 1..Len(found) : /\ found[i].depth = Head(q).depth + 1
                                    /\ found[i].lba \in Subdirectories(d, Head(q).lba),
           \A k \in Subdirectories(d, Head(q).lba) : IsQueued(found, k)
    PROVE  /\ Walks(d, Tail(q) \o found, v \cup {Head(q).lba})
           /\ Head(q).lba \in Reach(d, MaxDepth)
<1>1. ~Past(d, q, v)
  <2> SUFFICES ASSUME Past(d, q, v) PROVE FALSE
    OBVIOUS
  <2>1. Head(q).depth = MaxDepth + 1
    BY PastTail
  <2> QED BY <2>1, InventoryAssumption
<1>2. PICK n \in 0..MaxDepth : Layer(d, q, v, n) /\ Head(q).depth = n
  BY <1>1, LayerDown DEF Walks
<1>3. q \in Seq(Dir)
  BY <1>2 DEF Layer
<1> DEFINE r == Tail(q) \o found
           w == v \cup {Head(q).lba}
<1>4. Moves(q, r, found)
  BY <1>3, EnqueueMoves
<1> HIDE DEF r
<1>5. Layer(d, r, w, n)
  BY <1>2, <1>4, LayerMoves
<1>6. Head(q).lba \in Reach(d, n)
  BY <1>2, <1>3, HeadQueued DEF Layer
<1>7. Reach(d, n) \subseteq Reach(d, MaxDepth)
  <2>1. MaxDepth \in n..MaxDepth
    BY InventoryAssumption
  <2> QED BY <2>1, ReachGrows
<1> QED BY <1>5, <1>6, <1>7 DEF Walks, r

LEMMA WalkEnded ==
    ASSUME NEW d, NEW v, Walks(d, <<>>, v)
    PROVE  v = Reach(d, MaxDepth)
BY LayerEnds DEF Walks, Past

-----------------------------------------------------------------------------
(* What was read is what is listed.                                        *)

\* Where a list, or directories, have an entry.
PlacesIn(s, e) == {i \in DOMAIN s : s[i] = e}
RowsWith(d, dirs, e) == {p \in Rows(d, dirs) : RowAt(d, p) = e}

LEMMA CardApart ==
    ASSUME NEW A, NEW B, IsFiniteSet(A), IsFiniteSet(B), A \cap B = {}
    PROVE  IsFiniteSet(A \cup B) /\ Cardinality(A \cup B) = Cardinality(A) + Cardinality(B)
<1>1. IsFiniteSet(A \cup B)
      /\ Cardinality(A \cup B) = Cardinality(A) + Cardinality(B) - Cardinality(A \cap B)
  BY FS_Union
<1>2. Cardinality(A \cap B) = 0
  <2>1. A \cap B = {}
    OBVIOUS
  <2> QED BY <2>1, FS_EmptySet, Zenon
<1>3. Cardinality(A) \in Nat /\ Cardinality(B) \in Nat
  BY FS_CardinalityType
<1> QED BY <1>1, <1>2, <1>3

LEMMA ListingTyped ==
    ASSUME NEW d, IsVolume(d), NEW l \in DOMAIN d.dirs
    PROVE  /\ d.dirs[l] \in Seq(DirectoryEntry) /\ Len(d.dirs[l]) \in Nat
           /\ DOMAIN d.dirs[l] = 1..Len(d.dirs[l]) /\ IsFiniteSet(DOMAIN d.dirs[l])
           /\ Cardinality(DOMAIN d.dirs[l]) = Len(d.dirs[l])
<1>1. d.dirs[l] \in Seq(DirectoryEntry)
  BY DEF IsVolume
<1>2. Len(d.dirs[l]) \in Nat /\ DOMAIN d.dirs[l] = 1..Len(d.dirs[l])
  BY <1>1
<1>3. IsFiniteSet(1..Len(d.dirs[l])) /\ Cardinality(1..Len(d.dirs[l])) = Len(d.dirs[l])
  <2>1. PICK n \in Nat : n = Len(d.dirs[l])
    BY <1>2
  <2>2. IsFiniteSet(1..n) /\ Cardinality(1..n) = n
    BY FS_Interval
  <2> QED BY <2>1, <2>2
<1> QED BY <1>1, <1>2, <1>3

LEMMA RowsFinite ==
    ASSUME NEW d, IsVolume(d), NEW dirs, dirs \subseteq DOMAIN d.dirs
    PROVE  IsFiniteSet(dirs) /\ IsFiniteSet(Rows(d, dirs))
<1> DEFINE RowsOn(l) == {l} \X DOMAIN d.dirs[l]
           T == {RowsOn(l) : l \in dirs}
           f == [l \in dirs |-> RowsOn(l)]
<1>1. IsFiniteSet(dirs)
  <2>1. IsFiniteSet(DOMAIN d.dirs)
    BY DEF IsVolume
  <2> QED BY <2>1, FS_Subset
<1>2. f \in Surjection(dirs, T)
  BY DEF Surjection
<1> HIDE DEF f
<1>3. IsFiniteSet(T)
  <2> HIDE DEF T
  <2> QED BY <1>1, <1>2, FS_Surjection
<1>4. ASSUME NEW l \in dirs PROVE IsFiniteSet(RowsOn(l))
  <2>1. IsFiniteSet(DOMAIN d.dirs[l])
    BY ListingTyped
  <2>2. IsFiniteSet({l})
    BY FS_Singleton
  <2> QED BY <2>1, <2>2, FS_Product
<1>5. \A R \in T : IsFiniteSet(R)
  BY <1>4
<1>6. Rows(d, dirs) = UNION T
  BY DEF Rows
<1>7. IsFiniteSet(UNION T)
  <2> HIDE DEF T
  <2> QED BY <1>3, <1>5, FS_UNION
<1> QED BY <1>1, <1>6, <1>7

LEMMA RowsAdd ==
    ASSUME NEW d, IsVolume(d), NEW dirs, dirs \subseteq DOMAIN d.dirs, NEW l \in DOMAIN d.dirs, l \notin dirs
    PROVE  /\ Cardinality(Rows(d, dirs \cup {l})) = Cardinality(Rows(d, dirs)) + Len(d.dirs[l])
           /\ \A e : Cardinality(RowsWith(d, dirs \cup {l}, e))
                        = Cardinality(RowsWith(d, dirs, e)) + Cardinality(PlacesIn(d.dirs[l], e))
<1> DEFINE s == d.dirs[l]
           A == Rows(d, dirs)
           B == {l} \X DOMAIN s
<1>1. Rows(d, dirs \cup {l}) = A \cup B
  BY DEF Rows
<1>2. IsFiniteSet(A) /\ IsFiniteSet(DOMAIN s) /\ Cardinality(DOMAIN s) = Len(s) /\ Len(s) \in Nat
  BY RowsFinite, ListingTyped
<1>3. \A p \in A : p[1] \in dirs
  BY DEF Rows
<1>4. \A p \in B : p[1] = l
  OBVIOUS
<1>5. A \cap B = {}
  BY <1>3, <1>4
<1>6. ASSUME NEW K, K \subseteq DOMAIN s
      PROVE  IsFiniteSet({l} \X K) /\ Cardinality({l} \X K) = Cardinality(K)
  <2>1. IsFiniteSet({l}) /\ Cardinality({l}) = 1
    BY FS_Singleton
  <2>2. IsFiniteSet(K) /\ Cardinality(K) \in Nat
    BY <1>2, <1>6, FS_Subset, FS_CardinalityType
  <2>3. IsFiniteSet({l} \X K) /\ Cardinality({l} \X K) = Cardinality({l}) * Cardinality(K)
    BY <2>1, <2>2, FS_Product
  <2> QED BY <2>1, <2>2, <2>3
<1>7. IsFiniteSet(B) /\ Cardinality(B) = Len(s)
  BY <1>2, <1>6
<1>8. ASSUME NEW e
      PROVE  Cardinality(RowsWith(d, dirs \cup {l}, e))
                = Cardinality(RowsWith(d, dirs, e)) + Cardinality(PlacesIn(s, e))
  <2> DEFINE C == RowsWith(d, dirs, e)
             K == PlacesIn(s, e)
             D == {l} \X K
  <2>1. C \subseteq A /\ K \subseteq DOMAIN s
    BY DEF RowsWith, PlacesIn
  <2>2. D \subseteq B
    BY <2>1
  <2>3. IsFiniteSet(C)
    BY <1>2, <2>1, FS_Subset
  <2>4. IsFiniteSet(D) /\ Cardinality(D) = Cardinality(K)
    BY <1>6, <2>1
  <2>5. C \cap D = {}
    BY <1>5, <2>1, <2>2
  <2>6. D = {p \in B : RowAt(d, p) = e}
    BY DEF PlacesIn, RowAt
  <2>7. RowsWith(d, dirs \cup {l}, e) = C \cup D
    BY <1>1, <2>6 DEF RowsWith
  <2> QED BY <2>3, <2>4, <2>5, <2>7, CardApart
<1>9. Cardinality(A \cup B) = Cardinality(A) + Cardinality(B)
  BY <1>2, <1>5, <1>7, CardApart
<1> QED BY <1>1, <1>7, <1>8, <1>9

LEMMA EntriesAdd ==
    ASSUME NEW s \in Seq(DirectoryEntry), NEW t \in Seq(DirectoryEntry)
    PROVE  \A e : Cardinality(PlacesIn(s \o t, e)) = Cardinality(PlacesIn(s, e)) + Cardinality(PlacesIn(t, e))
<1> DEFINE r == s \o t
           L == Len(s)
<1>1. /\ r \in Seq(DirectoryEntry) /\ Len(r) = L + Len(t)
      /\ \A i \in 1..(L + Len(t)) : r[i] = IF i <= L THEN s[i] ELSE t[i - L]
  BY ConcatProperties
<1>2. L \in Nat /\ Len(t) \in Nat /\ DOMAIN s = 1..L /\ DOMAIN t = 1..Len(t)
  OBVIOUS
<1> HIDE DEF r, L
<1>3. DOMAIN r = 1..(L + Len(t))
  BY <1>1
<1>4. IsFiniteSet(DOMAIN s) /\ IsFiniteSet(DOMAIN t)
  BY <1>2, FS_Interval
<1>5. ASSUME NEW e
      PROVE  Cardinality(PlacesIn(r, e)) = Cardinality(PlacesIn(s, e)) + Cardinality(PlacesIn(t, e))
  <2> DEFINE A == PlacesIn(s, e)
             K == PlacesIn(t, e)
             B == {L + i : i \in K}
             f == [i \in K |-> L + i]
  <2>1. A \subseteq 1..L /\ K \subseteq 1..Len(t)
    BY <1>2 DEF PlacesIn
  <2>2. IsFiniteSet(A) /\ IsFiniteSet(K)
    BY <1>2, <1>4, <2>1, FS_Subset
  <2>3. IsFiniteSet(B) /\ Cardinality(B) = Cardinality(K)
    <3>1. \A i \in K : i \in Nat
      BY <1>2, <2>1
    <3>2. f \in Surjection(K, B)
      BY DEF Surjection
    <3>3. f \in Injection(K, B)
      <4> HIDE DEF K
      <4> QED BY <1>2, <3>1, <3>2 DEF Injection, IsInjective, Surjection
    <3> HIDE DEF f, B
    <3> QED BY <2>2, <3>2, <3>3, FS_Surjection
  <2>4. A \cap B = {}
    <3> SUFFICES ASSUME NEW i \in K, L + i \in 1..L PROVE FALSE
      BY <2>1
    <3>1. i \in 1..Len(t)
      BY <2>1
    <3> QED BY <1>2, <3>1
  <2>5. PlacesIn(r, e) = A \cup B
    <3>1. ASSUME NEW i \in PlacesIn(r, e) PROVE i \in A \cup B
      <4>1. i \in 1..(L + Len(t)) /\ r[i] = e
        BY <1>3, <3>1 DEF PlacesIn
      <4>2. CASE i <= L
        <5>1. i \in 1..L /\ s[i] = e
          BY <1>1, <1>2, <4>1, <4>2
        <5> QED BY <1>2, <5>1 DEF PlacesIn
      <4>3. CASE ~(i <= L)
        <5>1. i - L \in 1..Len(t) /\ t[i - L] = e /\ i = L + (i - L)
          BY <1>1, <1>2, <4>1, <4>3
        <5>2. i - L \in K
          BY <1>2, <5>1 DEF PlacesIn
        <5> QED BY <5>1, <5>2
      <4> QED BY <4>2, <4>3
    <3>2. ASSUME NEW i \in A PROVE i \in PlacesIn(r, e)
      <4>1. i \in 1..L /\ s[i] = e
        BY <1>2 DEF PlacesIn
      <4>2. i \in 1..(L + Len(t)) /\ r[i] = s[i]
        BY <1>1, <1>2, <4>1
      <4> QED BY <1>3, <4>1, <4>2 DEF PlacesIn
    <3>3. ASSUME NEW k \in K PROVE L + k \in PlacesIn(r, e)
      <4>1. k \in 1..Len(t) /\ t[k] = e
        BY <1>2 DEF PlacesIn
      <4>2. PICK i \in 1..(L + Len(t)) : i = L + k /\ ~(i <= L) /\ i - L = k
        BY <1>2, <4>1
      <4>3. r[i] = t[k]
        BY <1>1, <4>2
      <4> QED BY <1>3, <4>1, <4>2, <4>3 DEF PlacesIn
    <3> QED BY <3>1, <3>2, <3>3
  <2> HIDE DEF A, B, K
  <2>6. Cardinality(A \cup B) = Cardinality(A) + Cardinality(B)
    BY <2>2, <2>3, <2>4, CardApart
  <2> QED BY <2>3, <2>5, <2>6 DEF A, K
<1> QED BY <1>5 DEF r

LEMMA RunIsSeq ==
    ASSUME NEW S, NEW n \in Nat, NEW s \in [1..n -> S]
    PROVE  s \in Seq(S) /\ Len(s) = n
OBVIOUS

\* What is found in a directory.
Finds(d, l, depth, got, below, found) ==
    /\ got = IF l \in DOMAIN d.dirs THEN d.dirs[l] ELSE <<>>
    /\ below = Retained(got, {i \in DOMAIN got : got[i].dir})
    /\ found = [i \in DOMAIN below |-> [lba |-> below[i].lba, depth |-> depth + 1]]

LEMMA FoundIs ==
    ASSUME NEW d, IsVolume(d), NEW l, NEW depth \in 0..MaxDepth, NEW got, NEW below, NEW found,
           Finds(d, l, depth, got, below, found)
    PROVE  /\ got \in Seq(DirectoryEntry) /\ found \in Seq(Dir) /\ Len(found) <= Len(got)
           /\ \A i \in 1..Len(found) : found[i].depth = depth + 1 /\ found[i].lba \in Subdirectories(d, l)
           /\ \A k \in Subdirectories(d, l) : IsQueued(found, k)
<1> DEFINE dirRows == {i \in DOMAIN got : got[i].dir}
<1>1. /\ got = IF l \in DOMAIN d.dirs THEN d.dirs[l] ELSE <<>>
      /\ below = Retained(got, dirRows)
      /\ \A i \in DOMAIN below : found[i] = [lba |-> below[i].lba, depth |-> depth + 1]
      /\ DOMAIN found = DOMAIN below /\ found = [i \in DOMAIN found |-> found[i]]
  BY DEF Finds
<1>2. got \in Seq(DirectoryEntry)
  <2>1. CASE l \in DOMAIN d.dirs
    BY <1>1, <2>1, ListingTyped
  <2>2. CASE l \notin DOMAIN d.dirs
    BY <1>1, <2>2
  <2> QED BY <2>1, <2>2
<1>3. dirRows \subseteq DOMAIN got /\ below = Retained(got, dirRows)
  BY <1>1
<1>4. Subdirectories(d, l) = {got[i].lba : i \in dirRows}
  <2>1. CASE l \in DOMAIN d.dirs
    BY <1>1, <2>1 DEF Subdirectories
  <2>2. CASE l \notin DOMAIN d.dirs
    <3>1. Subdirectories(d, l) = {} /\ DOMAIN got = {}
      BY <1>1, <2>2 DEF Subdirectories
    <3> QED BY <3>1
  <2> QED BY <2>1, <2>2
<1> HIDE DEF dirRows
<1>5. below \in Seq(DirectoryEntry) /\ Len(below) <= Len(got)
  <2>1. Retained(got, dirRows) \in Seq(DirectoryEntry) /\ Len(Retained(got, dirRows)) <= Len(got)
    BY <1>2, <1>3, RetainedIs
  <2> QED BY <1>3, <2>1, Zenon
<1>6. \A i \in DOMAIN below : \E k \in dirRows : below[i] = got[k]
  <2>1. RetainsAll(got, dirRows)
    BY <1>2, <1>3, RetainedAll
  <2>2. \A i \in DOMAIN Retained(got, dirRows) : \E k \in dirRows : Retained(got, dirRows)[i] = got[k]
    BY <2>1 DEF RetainsAll
  <2> QED BY <1>3, <2>2, Zenon
<1>7. \A k \in dirRows : \E i \in DOMAIN below : below[i] = got[k]
  <2>1. RetainsAll(got, dirRows)
    BY <1>2, <1>3, RetainedAll
  <2>2. \A k \in dirRows : \E i \in DOMAIN Retained(got, dirRows) : Retained(got, dirRows)[i] = got[k]
    BY <2>1 DEF RetainsAll
  <2> QED BY <1>3, <2>2, Zenon
<1>8. Len(below) \in Nat /\ DOMAIN below = 1..Len(below)
  BY <1>5
<1>9. ASSUME NEW i \in 1..Len(below)
      PROVE  found[i] \in Dir /\ found[i].depth = depth + 1 /\ found[i].lba = below[i].lba
  <2> DEFINE dir == [lba |-> below[i].lba, depth |-> depth + 1]
  <2>1. found[i] = dir
    BY <1>1, <1>8
  <2>2. dir.depth = depth + 1 /\ dir.lba = below[i].lba
    OBVIOUS
  <2>3. below[i].lba \in Nat
    <3>1. below[i] \in DirectoryEntry
      BY <1>5
    <3> QED BY <3>1 DEF DirectoryEntry
  <2>4. depth + 1 \in 0..(MaxDepth + 1)
    BY InventoryAssumption
  <2>5. dir \in Dir
    BY <2>3, <2>4 DEF Dir
  <2> HIDE DEF dir
  <2> QED BY <2>1, <2>2, <2>5
<1>10. found \in Seq(Dir) /\ Len(found) = Len(below)
  <2>1. PICK n \in Nat : n = Len(below)
    BY <1>8
  <2>2. found \in [1..n -> Dir]
    BY <1>1, <1>8, <1>9, <2>1
  <2>3. found \in Seq(Dir) /\ Len(found) = n
    BY <2>2, RunIsSeq, Zenon
  <2> QED BY <2>1, <2>3
<1>11. ASSUME NEW i \in 1..Len(found) PROVE found[i].lba \in Subdirectories(d, l)
  <2>1. i \in DOMAIN below /\ found[i].lba = below[i].lba
    BY <1>8, <1>9, <1>10
  <2>2. PICK k \in dirRows : below[i] = got[k]
    BY <1>6, <2>1
  <2> QED BY <1>4, <2>1, <2>2
<1>12. ASSUME NEW k \in Subdirectories(d, l) PROVE IsQueued(found, k)
  <2>1. PICK j \in dirRows : got[j].lba = k
    BY <1>4
  <2>2. PICK i \in 1..Len(below) : below[i] = got[j]
    BY <1>7, <1>8
  <2>3. found[i].lba = k
    BY <1>9, <2>1, <2>2
  <2>4. i \in 1..Len(found)
    BY <1>10
  <2> QED BY <2>3, <2>4 DEF IsQueued
<1> QED BY <1>2, <1>5, <1>9, <1>10, <1>11, <1>12

-----------------------------------------------------------------------------
(* The invariant of an inventory.                                          *)

Later == {"scan", "classify", "navigation", "done"}
\* The directories of those that can be read.
ReadOf(d, v) == v \cap DOMAIN d.dirs
Bounded(d, q, v) == Cardinality(v) + Len(q) <= 1 + Cardinality(Rows(d, ReadOf(d, v)))
Counted(d, v, s) == \A e : Cardinality(PlacesIn(s, e)) = Cardinality(RowsWith(d, ReadOf(d, v), e))

Kind == {"cdi", "iso"}
HasRoot(v) == Labelled(v) /\ cd.volumes[v].rooted
\* A volume that is done with: all of it was read, or there was nothing to read.
Listed(v) ==
    IF HasRoot(v)
    THEN /\ Counted(cd.volumes[v], Reach(cd.volumes[v], MaxDepth), entries[v])
         /\ v = "cdi" => Reach(cd.volumes[v], MaxDepth) \subseteq DOMAIN cd.volumes[v].dirs
    ELSE entries[v] = <<>> /\ (v = "iso" => ~Labelled(v))
DoneWith(v) == phase \in Later \/ (v = "cdi" /\ volume = "iso")
\* What an inspection fails for.
Missed ==
    \/ HasRoot("cdi") /\ \E l \in Reach(cd.volumes["cdi"], MaxDepth) : l \notin DOMAIN cd.volumes["cdi"].dirs
    \/ Labelled("iso") /\ ~cd.volumes["iso"].rooted

WalkTyped ==
    /\ cd \in Discs /\ phase \in Phases /\ volume \in Kind
    /\ queue \in Seq(Dir) /\ visited \in SUBSET Nat /\ IsFiniteSet(visited)
    /\ entries \in [Kind -> Seq(DirectoryEntry)]
\* A walk of the volume.
Walking(kind, d, q, v, list) ==
    /\ Walks(d, q, v) /\ Bounded(d, q, v) /\ Counted(d, v, list)
    /\ kind = "cdi" => v \subseteq DOMAIN d.dirs
WalkIs ==
    /\ phase = "volume" => queue = <<>> /\ visited = {} /\ entries[volume] = <<>>
    /\ phase \in {"volume", "walk"} /\ volume = "cdi" => entries["iso"] = <<>>
    /\ phase = "walk" => HasRoot(volume) /\ Walking(volume, Volume, queue, visited, entries[volume])
    /\ \A v \in Kind : DoneWith(v) => Listed(v)
    /\ phase = "failed" => Missed
WalkIInv == WalkTyped /\ WalkIs

\* What is labelled is a volume.
LEMMA VolumeIs ==
    ASSUME cd \in Discs, NEW v, Labelled(v)
    PROVE  IsVolume(cd.volumes[v])
BY InventoryAssumption DEF IsDisc, Labelled

\* Nothing is read of a disc yet.
LEMMA NothingRead ==
    ASSUME NEW d, IsVolume(d)
    PROVE  /\ Cardinality(Rows(d, ReadOf(d, {}))) = 0 /\ Cardinality({}) = 0
           /\ Counted(d, {}, <<>>)
<1>1. Rows(d, ReadOf(d, {})) = {}
  BY DEF Rows, ReadOf
<1>2. Cardinality({}) = 0
  BY FS_EmptySet
<1>3. ASSUME NEW e PROVE PlacesIn(<<>>, e) = {} /\ RowsWith(d, ReadOf(d, {}), e) = {}
  BY <1>1 DEF PlacesIn, RowsWith
<1> QED BY <1>1, <1>2, <1>3 DEF Counted

\* One more is: once it is read, or found to be unreadable.
LEMMA ReadOneMore ==
    ASSUME NEW d, IsVolume(d), NEW v, IsFiniteSet(v), NEW l, l \notin v, NEW s \in Seq(DirectoryEntry),
           Counted(d, v, s), NEW got, NEW q \in Seq(Dir), q # <<>>, NEW found \in Seq(Dir),
           got = IF l \in DOMAIN d.dirs THEN d.dirs[l] ELSE <<>>, Len(found) <= Len(got),
           Bounded(d, q, v)
    PROVE  /\ IsFiniteSet(v \cup {l})
           /\ Counted(d, v \cup {l}, s \o got) /\ Bounded(d, Tail(q) \o found, v \cup {l})
<1> DEFINE w == v \cup {l}
           r == Tail(q) \o found
           A == ReadOf(d, v)
           B == ReadOf(d, w)
<1>1. IsFiniteSet(w) /\ Cardinality(w) = Cardinality(v) + 1 /\ Cardinality(v) \in Nat
  BY FS_AddElement, FS_CardinalityType
<1>2. Len(r) = (Len(q) - 1) + Len(found) /\ Len(q) \in Nat /\ Len(found) \in Nat
  <2>1. Moves(q, r, found)
    BY EnqueueMoves
  <2> QED BY <2>1 DEF Moves
<1>3. A \subseteq DOMAIN d.dirs
  BY DEF ReadOf
<1>4. Cardinality(Rows(d, A)) \in Nat
  BY <1>3, RowsFinite, FS_CardinalityType
<1>5. CASE l \in DOMAIN d.dirs
  <2>1. B = A \cup {l} /\ l \notin A
    BY <1>5 DEF ReadOf
  <2>2. got = d.dirs[l] /\ got \in Seq(DirectoryEntry)
    BY <1>5, ListingTyped
  <2> HIDE DEF A, B, w, r
  <2>3. Cardinality(Rows(d, B)) = Cardinality(Rows(d, A)) + Len(got)
        /\ \A e : Cardinality(RowsWith(d, B, e)) = Cardinality(RowsWith(d, A, e)) + Cardinality(PlacesIn(got, e))
    <3>1. Cardinality(Rows(d, A \cup {l})) = Cardinality(Rows(d, A)) + Len(d.dirs[l])
          /\ \A e : Cardinality(RowsWith(d, A \cup {l}, e))
                        = Cardinality(RowsWith(d, A, e)) + Cardinality(PlacesIn(d.dirs[l], e))
      BY <1>3, <1>5, <2>1, RowsAdd
    <3> QED BY <2>1, <2>2, <3>1, Zenon
  <2>4. \A e : Cardinality(PlacesIn(s \o got, e)) = Cardinality(PlacesIn(s, e)) + Cardinality(PlacesIn(got, e))
    BY <2>2, EntriesAdd
  <2>5. \A e : Cardinality(PlacesIn(s, e)) = Cardinality(RowsWith(d, A, e))
    BY DEF Counted, A
  <2>6. Counted(d, w, s \o got)
    BY <2>3, <2>4, <2>5 DEF Counted, B
  <2>7. Cardinality(v) + Len(q) <= 1 + Cardinality(Rows(d, A))
    BY DEF Bounded, A
  <2>8. Len(got) \in Nat
    BY <2>2
  <2>9. Bounded(d, r, w)
    BY <1>1, <1>2, <1>4, <2>3, <2>7, <2>8 DEF Bounded, B
  <2> QED BY <1>1, <2>6, <2>9 DEF w, r
<1>6. CASE l \notin DOMAIN d.dirs
  <2>1. B = A
    BY <1>6 DEF ReadOf
  <2>2. got = <<>> /\ Len(got) = 0 /\ s \o got = s
    BY <1>6, ConcatEmptySeq
  <2> HIDE DEF A, B, w, r
  <2>3. Counted(d, w, s \o got)
    <3>1. \A e : Cardinality(PlacesIn(s, e)) = Cardinality(RowsWith(d, A, e))
      BY DEF Counted, A
    <3> QED BY <2>1, <2>2, <3>1 DEF Counted, B
  <2>4. Cardinality(v) + Len(q) <= 1 + Cardinality(Rows(d, A))
    BY DEF Bounded, A
  <2>5. Bounded(d, r, w)
    BY <1>1, <1>2, <1>4, <2>1, <2>2, <2>4 DEF Bounded, B
  <2> QED BY <1>1, <2>3, <2>5 DEF w, r
<1> QED BY <1>5, <1>6

LEMMA WalkDirectoryKeeps ==
    ASSUME WalkIInv, WalkDirectory
    PROVE  WalkIInv'
<1> DEFINE d == Volume
           list == entries[volume]
           h == Head(queue)
           got == IF h.lba \in DOMAIN d.dirs THEN d.dirs[h.lba] ELSE <<>>
           below == Retained(got, {i \in DOMAIN got : got[i].dir})
           found == [i \in DOMAIN below |-> [lba |-> below[i].lba, depth |-> h.depth + 1]]
<1>1. /\ phase = "walk" /\ queue # <<>> /\ cd' = cd /\ volume' = volume
      /\ cd \in Discs /\ volume \in Kind /\ queue \in Seq(Dir) /\ visited \in SUBSET Nat
      /\ IsFiniteSet(visited) /\ entries \in [Kind -> Seq(DirectoryEntry)]
      /\ HasRoot(volume) /\ (volume = "cdi" => entries["iso"] = <<>>)
      /\ Walks(d, queue, visited) /\ Bounded(d, queue, visited) /\ Counted(d, visited, list)
      /\ volume = "cdi" => visited \subseteq DOMAIN d.dirs
      /\ \A v \in Kind : DoneWith(v) => Listed(v)
  BY DEF WalkDirectory, WalkIInv, WalkTyped, WalkIs, Walking
<1>2. h.lba \in Nat /\ h.depth \in 0..(MaxDepth + 1) /\ list \in Seq(DirectoryEntry)
  BY <1>1, HeadQueued
<1>3. IsVolume(d) /\ d = cd.volumes[volume] /\ HasRoot(volume)
  BY <1>1, VolumeIs DEF HasRoot, Volume, WalkIInv, WalkIs
<1>4. d' = d
  BY <1>1 DEF Volume
<1> HIDE DEF d
<1>5. CASE Skipped(h)
  <2>1. queue' = Tail(queue) /\ phase' = phase /\ visited' = visited /\ entries' = entries
    BY <1>5 DEF WalkDirectory
  <2>2. queue' \in Seq(Dir) /\ Len(queue') = Len(queue) - 1 /\ Len(queue) \in Nat
    BY <1>1, <2>1
  <2>3. Walks(d, queue', visited)
    BY <1>1, <1>5, <2>1, WalkSkips DEF Skipped
  <2>4. Cardinality(visited) \in Nat /\ Cardinality(Rows(d, ReadOf(d, visited))) \in Nat
    <3>1. ReadOf(d, visited) \subseteq DOMAIN d.dirs
      BY DEF ReadOf
    <3> QED BY <1>1, <1>3, <3>1, RowsFinite, FS_CardinalityType
  <2>5. Bounded(d, queue', visited)
    BY <1>1, <2>2, <2>4 DEF Bounded
  <2>6. WalkTyped'
    BY <1>1, <2>1, <2>2 DEF WalkTyped, Phases
  <2>7. Walking(volume', d, queue', visited', entries'[volume'])
    BY <1>1, <2>1, <2>3, <2>5 DEF Walking
  <2>8. \A v \in Kind : (DoneWith(v) => Listed(v))'
    BY <1>1, <2>1 DEF DoneWith, Listed, HasRoot, Labelled
  <2>9. HasRoot(volume)'
    BY <1>1, <1>3 DEF HasRoot, Labelled
  <2>10. WalkIs'
    BY <1>1, <1>4, <2>1, <2>7, <2>8, <2>9 DEF WalkIs, d
  <2> QED BY <2>6, <2>10 DEF WalkIInv
<1>6. CASE ~Skipped(h)
  <2>1. h.depth \in 0..MaxDepth /\ h.depth <= MaxDepth /\ h.lba \notin visited
    BY <1>2, <1>6, InventoryAssumption DEF Skipped
  <2>2. /\ visited' = visited \cup {h.lba} /\ entries' = [entries EXCEPT ![volume] = @ \o got]
        /\ queue' = Tail(queue) \o found
        /\ phase' = IF h.lba \notin DOMAIN d.dirs /\ volume = "cdi" THEN "failed" ELSE phase
    BY <1>6 DEF WalkDirectory, Enqueue, d
  <2>3. /\ got \in Seq(DirectoryEntry) /\ found \in Seq(Dir) /\ Len(found) <= Len(got)
        /\ \A i \in 1..Len(found) : found[i].depth = h.depth + 1 /\ found[i].lba \in Subdirectories(d, h.lba)
        /\ \A k \in Subdirectories(d, h.lba) : IsQueued(found, k)
    <3>1. Finds(d, h.lba, h.depth, got, below, found)
      BY Zenon DEF Finds
    <3> HIDE DEF got, below, found, h
    <3>2. /\ got \in Seq(DirectoryEntry) /\ found \in Seq(Dir) /\ Len(found) <= Len(got)
          /\ \A i \in 1..Len(found) : found[i].depth = h.depth + 1 /\ found[i].lba \in Subdirectories(d, h.lba)
          /\ \A k \in Subdirectories(d, h.lba) : IsQueued(found, k)
      <4> HIDE DEF Finds
      <4>1. IsVolume(d) /\ h.depth \in 0..MaxDepth
        BY <1>3, <2>1
      <4> QED BY <3>1, <4>1, FoundIs, Zenon
    <3> QED BY <3>2
  <2>4. got = IF h.lba \in DOMAIN d.dirs THEN d.dirs[h.lba] ELSE <<>>
    OBVIOUS
  <2> HIDE DEF got, below, found
  <2>5. /\ Walks(d, queue', visited') /\ h.lba \in Reach(d, MaxDepth)
    BY <1>1, <2>1, <2>2, <2>3, WalkVisits
  <2>6. /\ entries'[volume] = list \o got /\ entries' \in [Kind -> Seq(DirectoryEntry)]
        /\ \A v \in Kind \ {volume} : entries'[v] = entries[v]
    <3>1. list \o got \in Seq(DirectoryEntry)
      BY <1>2, <2>3
    <3> QED BY <1>1, <2>2, <3>1
  <2>7. /\ IsFiniteSet(visited') /\ Counted(d, visited', entries'[volume]) /\ Bounded(d, queue', visited')
    <3> HIDE DEF list
    <3>1. /\ IsFiniteSet(visited \cup {h.lba}) /\ Counted(d, visited \cup {h.lba}, list \o got)
          /\ Bounded(d, Tail(queue) \o found, visited \cup {h.lba})
      BY <1>1, <1>2, <1>3, <2>1, <2>3, <2>4, ReadOneMore
    <3> QED BY <2>2, <2>6, <3>1
  <2>8. queue' \in Seq(Dir) /\ visited' \in SUBSET Nat
    <3>1. Moves(queue, queue', found)
      BY <1>1, <2>2, <2>3, EnqueueMoves
    <3> QED BY <1>1, <1>2, <2>2, <3>1 DEF Moves
  <2>9. phase' \in {"walk", "failed"} /\ (phase' = "failed" => Missed')
    <3>1. ASSUME h.lba \notin DOMAIN d.dirs, volume = "cdi" PROVE Missed
      BY <1>3, <2>5, <3>1 DEF Missed
    <3>2. Missed' = Missed
      BY <1>1 DEF Missed, HasRoot, Labelled
    <3> QED BY <1>1, <2>2, <3>1, <3>2
  <2>10. phase' # "failed" /\ volume = "cdi" => visited' \subseteq DOMAIN d.dirs
    BY <1>1, <2>2
  <2>11. WalkTyped'
    BY <1>1, <2>6, <2>7, <2>8, <2>9 DEF WalkTyped, Phases
  <2>12. phase' = "walk" => Walking(volume', d, queue', visited', entries'[volume'])
    BY <1>1, <2>5, <2>7, <2>10 DEF Walking
  <2>13. ASSUME NEW v \in Kind, DoneWith(v)' PROVE Listed(v)'
    <3>1. DoneWith(v) /\ v # volume
      BY <1>1, <2>9, <2>13 DEF DoneWith, Later
    <3> QED BY <1>1, <2>6, <3>1 DEF Listed, HasRoot, Labelled
  <2>14. HasRoot(volume)'
    BY <1>1, <1>3 DEF HasRoot, Labelled
  <2>15. volume' = "cdi" => entries'["iso"] = <<>>
    BY <1>1, <2>6 DEF Kind
  <2>16. WalkIs'
    BY <1>4, <2>9, <2>12, <2>13, <2>14, <2>15 DEF WalkIs, d
  <2> QED BY <2>11, <2>16 DEF WalkIInv
<1> QED BY <1>5, <1>6

\* The rest of an inspection leaves the walk as it ended.
LEMMA WalkStays ==
    ASSUME WalkIInv, UNCHANGED <<cd, volume, queue, visited, entries>>,
           phase' = phase \/ (phase \in Later /\ phase' \in Later)
    PROVE  WalkIInv'
<1>1. cd' = cd /\ volume' = volume /\ queue' = queue /\ visited' = visited /\ entries' = entries
  OBVIOUS
<1>2. WalkTyped'
  BY <1>1 DEF WalkIInv, WalkTyped, Phases, Later
<1>3. WalkIs'
  BY <1>1 DEF WalkIInv, WalkIs, Later, DoneWith, Listed, HasRoot, Labelled, Missed, Volume, Walking
<1> QED BY <1>2, <1>3 DEF WalkIInv

LEMMA WalkAtFirst ==
    ASSUME cd \in Discs, phase = "volume", volume = "cdi", queue = <<>>, visited = {}, entries = NothingFound
    PROVE  WalkIInv
<1>1. queue \in Seq(Dir) /\ <<>> \in Seq(DirectoryEntry)
  OBVIOUS
<1>2. entries \in [Kind -> Seq(DirectoryEntry)] /\ entries["cdi"] = <<>> /\ entries["iso"] = <<>>
  BY <1>1 DEF NothingFound, Kind
<1>3. IsFiniteSet(visited) /\ visited \in SUBSET Nat
  BY FS_EmptySet
<1>4. WalkTyped
  BY <1>1, <1>2, <1>3 DEF WalkTyped, Phases, Kind
<1>5. WalkIs
  BY <1>2 DEF WalkIs, Later, DoneWith
<1> QED BY <1>4, <1>5 DEF WalkIInv

LEMMA WalkAnew ==
    ASSUME cd' \in Discs, phase' = "volume", volume' = "cdi", queue' = <<>>, visited' = {},
           entries' = NothingFound
    PROVE  WalkIInv'
<1>1. queue' \in Seq(Dir) /\ <<>> \in Seq(DirectoryEntry)
  OBVIOUS
<1>2. entries' \in [Kind -> Seq(DirectoryEntry)] /\ entries'["cdi"] = <<>> /\ entries'["iso"] = <<>>
  BY <1>1 DEF NothingFound, Kind
<1>3. IsFiniteSet(visited') /\ visited' \in SUBSET Nat
  BY FS_EmptySet
<1>4. WalkTyped'
  BY <1>1, <1>2, <1>3 DEF WalkTyped, Phases, Kind
<1>5. WalkIs'
  BY <1>2 DEF WalkIs, Later, DoneWith
<1> QED BY <1>4, <1>5 DEF WalkIInv

\* A volume is done with, and the next comes, or the files.
LEMMA NextVolumeKeeps ==
    ASSUME WalkIInv, phase \in {"volume", "walk"}, Listed(volume), NextVolume, UNCHANGED <<cd, entries>>
    PROVE  WalkIInv'
<1>1. /\ cd' = cd /\ entries' = entries /\ volume' = "iso" /\ queue' = <<>> /\ visited' = {}
      /\ volume = "cdi" => phase' = "volume"
      /\ volume = "iso" => phase' = "scan"
  BY DEF NextVolume, AfterVolume
<1>2. /\ cd \in Discs /\ volume \in Kind /\ entries \in [Kind -> Seq(DirectoryEntry)]
      /\ volume = "cdi" => entries["iso"] = <<>>
      /\ volume = "iso" => Listed("cdi")
  BY DEF WalkIInv, WalkTyped, WalkIs, DoneWith, Kind
<1>3. queue' \in Seq(Dir) /\ IsFiniteSet(visited') /\ visited' \in SUBSET Nat
  BY <1>1, FS_EmptySet
<1>4. WalkTyped'
  BY <1>1, <1>2, <1>3 DEF WalkTyped, Phases, Kind
<1>5. \A v : Listed(v)' <=> Listed(v)
  BY <1>1 DEF Listed, HasRoot, Labelled
<1>6. \A v \in Kind : DoneWith(v)' => Listed(v)'
  <2>1. CASE volume = "cdi"
    BY <1>1, <1>5, <2>1 DEF DoneWith, Later, Kind
  <2>2. CASE volume = "iso"
    BY <1>1, <1>2, <1>5, <2>2 DEF DoneWith, Later, Kind
  <2> QED BY <1>2, <2>1, <2>2 DEF Kind
<1>7. WalkIs'
  <2>1. volume = "cdi" => entries'["iso"] = <<>>
    BY <1>1, <1>2
  <2>2. phase' \in {"volume", "scan"} /\ (phase' = "volume" => volume = "cdi")
    BY <1>1, <1>2 DEF Kind
  <2> QED BY <1>1, <1>6, <2>1, <2>2 DEF WalkIs
<1> QED BY <1>4, <1>7 DEF WalkIInv

LEMMA InspectVolumeKeeps ==
    ASSUME WalkIInv, InspectVolume
    PROVE  WalkIInv'
<1>1. /\ cd \in Discs /\ volume \in Kind /\ phase = "volume" /\ queue = <<>> /\ visited = {}
      /\ entries[volume] = <<>>
  BY DEF WalkIInv, WalkTyped, WalkIs, InspectVolume
<1>2. cd' = cd /\ entries' = entries
  BY DEF InspectVolume
<1>3. CASE ~Labelled(volume) /\ NextVolume
  <2>1. Listed(volume)
    BY <1>1, <1>3 DEF Listed, HasRoot
  <2> QED BY <1>1, <1>2, <1>3, <2>1, NextVolumeKeeps
<1>4. CASE Labelled(volume) /\ ~Volume.rooted /\ volume = "cdi" /\ NextVolume
  <2>1. Listed(volume)
    BY <1>1, <1>4 DEF Listed, HasRoot, Volume
  <2> QED BY <1>1, <1>2, <1>4, <2>1, NextVolumeKeeps
<1>5. CASE /\ Labelled(volume) /\ ~Volume.rooted /\ volume = "iso"
           /\ phase' = "failed" /\ UNCHANGED <<volume, queue, visited>>
  <2>1. Missed'
    BY <1>2, <1>5 DEF Missed, Labelled, Volume
  <2>2. WalkTyped'
    BY <1>2, <1>5 DEF WalkIInv, WalkTyped, Phases
  <2>3. \A v \in Kind : (DoneWith(v) => Listed(v))'
    BY <1>1, <1>2, <1>5 DEF WalkIInv, WalkIs, DoneWith, Later, Listed, HasRoot, Labelled
  <2>4. WalkIs'
    BY <1>5, <2>1, <2>3 DEF WalkIs
  <2> QED BY <2>2, <2>4 DEF WalkIInv
<1>6. CASE /\ Labelled(volume) /\ Volume.rooted /\ phase' = "walk"
           /\ queue' = <<[lba |-> Volume.root, depth |-> 0]>> /\ UNCHANGED <<volume, visited>>
  <2> DEFINE d == Volume
             dir == [lba |-> d.root, depth |-> 0]
  <2>1. IsVolume(d) /\ d' = d
    BY <1>1, <1>2, <1>6, VolumeIs DEF Volume
  <2> HIDE DEF d
  <2>2. d.root \in Nat
    BY <2>1 DEF IsVolume
  <2>3. queue' = <<dir>>
    BY <1>6 DEF d
  <2>4. queue' \in Seq(Dir) /\ Len(queue') = 1
    <3>1. dir \in Dir
      BY <2>2, InventoryAssumption DEF Dir
    <3> HIDE DEF dir
    <3> QED BY <2>3, <3>1
  <2>5. Walks(d, queue', {})
    BY <2>2, <2>3, WalkStarts
  <2>6. WalkTyped'
    BY <1>1, <1>2, <1>6, <2>4, FS_EmptySet DEF WalkIInv, WalkTyped, Phases
  <2>7. Bounded(d, queue', {}) /\ Counted(d, {}, <<>>)
    BY <2>1, <2>4, NothingRead DEF Bounded
  <2>8. Walking(volume', d, queue', visited', entries'[volume'])
    BY <1>1, <1>2, <1>6, <2>5, <2>7 DEF Walking
  <2>9. \A v \in Kind : (DoneWith(v) => Listed(v))'
    BY <1>1, <1>2, <1>6 DEF WalkIInv, WalkIs, DoneWith, Later, Listed, HasRoot, Labelled
  <2>10. HasRoot(volume)'
    BY <1>2, <1>6 DEF HasRoot, Labelled, Volume
  <2>11. volume' = "cdi" => entries'["iso"] = <<>>
    BY <1>1, <1>2, <1>6 DEF WalkIInv, WalkIs
  <2>12. WalkIs'
    BY <1>6, <2>1, <2>8, <2>9, <2>10, <2>11 DEF WalkIs, d
  <2> QED BY <2>6, <2>12 DEF WalkIInv
<1> QED BY <1>3, <1>4, <1>5, <1>6 DEF InspectVolume

LEMMA EndWalkKeeps ==
    ASSUME WalkIInv, EndWalk
    PROVE  WalkIInv'
<1>1. /\ phase = "walk" /\ queue = <<>> /\ NextVolume /\ UNCHANGED <<cd, entries>>
  BY DEF EndWalk
<1>2. HasRoot(volume) /\ Walking(volume, Volume, queue, visited, entries[volume])
  BY <1>1 DEF WalkIInv, WalkIs
<1>3. visited = Reach(Volume, MaxDepth)
  BY <1>1, <1>2, WalkEnded DEF Walking
<1>4. Listed(volume)
  BY <1>2, <1>3 DEF Listed, Walking, Volume
<1> QED BY <1>1, <1>4, NextVolumeKeeps

LEMMA WalkKeeps ==
    ASSUME WalkIInv, [InventoryNext]_inventoryVars
    PROVE  WalkIInv'
<1>1. CASE InspectVolume
  BY <1>1, InspectVolumeKeeps
<1>2. CASE WalkDirectory
  BY <1>2, WalkDirectoryKeeps
<1>3. CASE EndWalk
  BY <1>3, EndWalkKeeps
<1>4. CASE ScanFiles \/ Classify \/ Navigate
  <2>1. UNCHANGED <<cd, volume, queue, visited, entries>>
    BY <1>4 DEF ScanFiles, Classify, Navigate
  <2>2. phase' = phase \/ (phase \in Later /\ phase' \in Later)
    <3>1. CASE ScanFiles
      BY <3>1 DEF ScanFiles, Later
    <3>2. CASE Classify
      <4>1. phase = "classify" /\ phase' \in {"navigation", "done"}
        BY <3>2 DEF Classify
      <4> QED BY <4>1 DEF Later
    <3>3. CASE Navigate
      BY <3>3 DEF Navigate, SkipList, BrokenList, ReadList, EndNavigation, Later
    <3> QED BY <1>4, <3>1, <3>2, <3>3
  <2> QED BY <2>1, <2>2, WalkStays
<1>5. CASE \E d \in Discs : InspectAgain(d)
  <2>1. /\ cd' \in Discs /\ phase' = "volume" /\ volume' = "cdi" /\ queue' = <<>> /\ visited' = {}
        /\ entries' = NothingFound
    BY <1>5 DEF InspectAgain
  <2> QED BY <2>1, WalkAnew
<1>6. CASE UNCHANGED inventoryVars
  BY <1>6, WalkStays DEF inventoryVars
<1> QED BY <1>1, <1>2, <1>3, <1>4, <1>5, <1>6 DEF InventoryNext, Inspect

\* A list that has each row as often as it is read has all and no others.
LEMMA CountedLists ==
    ASSUME NEW d, NEW list, Counted(d, Reach(d, MaxDepth), list)
    PROVE  ListsVolume(list, d)
<1>1. Within(d, MaxDepth) \cap DOMAIN d.dirs = ReadOf(d, Reach(d, MaxDepth))
  BY WithinIs DEF ReadOf
<1> DEFINE there == Rows(d, ReadOf(d, Reach(d, MaxDepth)))
<1>2. ASSUME NEW e
      PROVE  Cardinality({j \in DOMAIN list : list[j] = e}) = Cardinality({p \in there : RowAt(d, p) = e})
  <2>1. {j \in DOMAIN list : list[j] = e} = PlacesIn(list, e)
    BY DEF PlacesIn
  <2>2. {p \in there : RowAt(d, p) = e} = RowsWith(d, ReadOf(d, Reach(d, MaxDepth)), e)
    BY DEF RowsWith
  <2> QED BY <2>1, <2>2 DEF Counted
<1> QED BY <1>1, <1>2 DEF ListsVolume

LEMMA WalkAnswers ==
    ASSUME WalkIInv
    PROVE  WalkEnds /\ ListsWhatIsThere
<1>1. /\ cd \in Discs /\ WalkIs /\ volume \in Kind /\ queue \in Seq(Dir) /\ IsFiniteSet(visited)
  BY DEF WalkIInv, WalkTyped
<1>2. WalkEnds
  <2> SUFFICES ASSUME phase = "walk"
               PROVE  Cardinality(visited) + Len(queue) <= 1 + Cardinality(Rows(Volume, DOMAIN Volume.dirs))
    BY DEF WalkEnds
  <2> DEFINE d == Volume
             A == Rows(d, visited \cap DOMAIN d.dirs)
             B == Rows(d, DOMAIN d.dirs)
  <2>0. IsVolume(d) /\ Bounded(d, queue, visited)
    BY <1>1, VolumeIs DEF WalkIs, HasRoot, Walking, Volume
  <2> HIDE DEF d
  <2>1. A \subseteq B
    BY DEF Rows
  <2>2. IsFiniteSet(B)
    BY <2>0, RowsFinite
  <2>3. IsFiniteSet(A) /\ Cardinality(A) <= Cardinality(B)
    BY <2>1, <2>2, FS_Subset
  <2>4. Cardinality(A) \in Nat /\ Cardinality(B) \in Nat /\ Cardinality(visited) \in Nat /\ Len(queue) \in Nat
    BY <1>1, <2>2, <2>3, FS_CardinalityType
  <2>5. Cardinality(visited) + Len(queue) <= 1 + Cardinality(A)
    BY <2>0 DEF Bounded, ReadOf
  <2> HIDE DEF A, B
  <2>6. Cardinality(visited) + Len(queue) <= 1 + Cardinality(B)
    BY <2>3, <2>4, <2>5
  <2> QED BY <2>6 DEF B, d
<1>3. \A v : Within(cd.volumes[v], MaxDepth) = Reach(cd.volumes[v], MaxDepth)
  BY WithinIs
<1>4. ASSUME NEW v \in {"cdi", "iso"}, phase \in Later
      PROVE  IF Labelled(v) /\ cd.volumes[v].rooted THEN ListsVolume(entries[v], cd.volumes[v])
                                                    ELSE entries[v] = <<>>
  <2>1. Listed(v)
    BY <1>1, <1>4 DEF WalkIs, DoneWith, Kind
  <2> QED BY <2>1, CountedLists DEF Listed, HasRoot
<1> DEFINE Fails == \/ Labelled("cdi") /\ cd.volumes["cdi"].rooted /\ LacksSome(cd.volumes["cdi"])
                    \/ Labelled("iso") /\ ~cd.volumes["iso"].rooted
<1>5. phase = "failed" => Fails
  BY <1>1, <1>3 DEF WalkIs, Missed, HasRoot, LacksSome
<1>6. phase = "done" => ~Fails
  <2> SUFFICES ASSUME phase = "done" PROVE ~Fails
    OBVIOUS
  <2>1. Listed("cdi") /\ Listed("iso")
    BY <1>1 DEF WalkIs, DoneWith, Kind, Later
  <2> QED BY <1>3, <2>1 DEF Listed, HasRoot, LacksSome
<1>7. ListsWhatIsThere
  BY <1>4, <1>5, <1>6 DEF ListsWhatIsThere, Later
<1> QED BY <1>2, <1>7

-----------------------------------------------------------------------------
(* The lists a Video CD is navigated by: those of the first numbers.       *)

Usable(d, i) ==
    /\ d.lot[i] # Unused
    /\ LET at == d.lot[i] * d.multiplier IN
       (IF at \in DOMAIN d.psd THEN d.psd[at] ELSE [kind |-> "none", id |-> 0]).kind # "none"
UsableTo(d, n) == {i \in 1..n : Usable(d, i)}

NavIs(d, at, ls) ==
    /\ Len(ls.seen) \in Nat /\ Len(ls.seen) <= d.maximum /\ Len(ls.seen) <= Len(d.lot)
    /\ OrderOf(ls.listed, UsableTo(d, Len(ls.seen)))
    /\ Len(ls.seen) # 0 => d.multiplier # 0 /\ at \in {"navigation", "done"}
    /\ at = "done" /\ Len(ls.seen) # 0 => Len(ls.seen) + 1 > d.maximum \/ Len(ls.seen) + 1 > Len(d.lot)

NavIInv ==
    /\ cd \in Discs /\ dvc \in BOOLEAN
    /\ profile \in {"photo-cd", "video-cd", "native-cdi", "cd-rom-xa-bridge", "unknown"}
    /\ lists.seen \in Seq({"unused", "broken", "read"})
    /\ NavIs(cd, phase, lists)

\* A list of a set in order, and one number more.
LEMMA OrderKept ==
    ASSUME NEW n \in Nat, NEW S, S \subseteq 1..n, NEW list, OrderOf(list, S)
    PROVE  OrderOf(Append(list, n + 1), S \cup {n + 1})
<1> DEFINE m == n + 1
           T == S \cup {m}
           more == Append(list, m)
           L == Len(list)
<1>1. /\ list \in Seq(S) /\ L \in Nat /\ DOMAIN list = 1..L /\ \A i \in 1..L : list[i] \in S
      /\ \A i, j \in 1..L : i < j => list[i] < list[j]
      /\ \A s \in S : \E i \in 1..L : list[i] = s
  <2>1. list \in Seq(S)
    BY DEF OrderOf
  <2>2. L \in Nat /\ DOMAIN list = 1..L /\ \A i \in 1..L : list[i] \in S
    BY <2>1
  <2>3. \A i, j \in 1..L : i < j => list[i] < list[j]
    BY <2>2 DEF OrderOf, Increasing
  <2>4. \A s \in S : \E i \in 1..L : list[i] = s
    BY <2>2 DEF OrderOf
  <2> QED BY <2>1, <2>2, <2>3, <2>4
<1>2. m \in Nat /\ \A s \in S : s < m /\ s \in Nat
  OBVIOUS
<1>3. list \in Seq(T)
  <2>1. L \in Nat /\ list \in [1..L -> T]
    BY <1>1
  <2> QED BY <2>1
<1> HIDE DEF m
<1>4. /\ more \in Seq(T) /\ Len(more) = L + 1 /\ more[L + 1] = m
      /\ \A i \in 1..L : more[i] = list[i]
  BY <1>1, <1>3, AppendProperties
<1> HIDE DEF more
<1>5. DOMAIN more = 1..(L + 1)
  BY <1>1, <1>4
<1>6. ASSUME NEW i \in 1..(L + 1), NEW j \in 1..(L + 1), i < j PROVE more[i] < more[j]
  <2>1. i \in 1..L /\ more[i] = list[i] /\ list[i] \in S
    BY <1>1, <1>4, <1>6
  <2>2. CASE j \in 1..L
    BY <1>1, <1>4, <1>6, <2>1, <2>2
  <2>3. CASE j = L + 1
    BY <1>2, <1>4, <2>1, <2>3
  <2> QED BY <1>1, <2>2, <2>3
<1>7. ASSUME NEW s \in T PROVE \E i \in 1..(L + 1) : more[i] = s
  <2>1. CASE s \in S
    <3>1. PICK i \in 1..L : list[i] = s
      BY <1>1, <2>1
    <3> QED BY <1>1, <1>4, <3>1
  <2>2. CASE s = m
    BY <1>1, <1>4, <2>2
  <2> QED BY <2>1, <2>2
<1>8. OrderOf(more, T)
  BY <1>4, <1>5, <1>6, <1>7 DEF OrderOf, Increasing
<1> QED BY <1>8 DEF more, m

LEMMA UsableOneMore ==
    ASSUME NEW d, NEW n \in Nat
    PROVE  UsableTo(d, n + 1) = IF Usable(d, n + 1) THEN UsableTo(d, n) \cup {n + 1} ELSE UsableTo(d, n)
<1>1. 1..(n + 1) = (1..n) \cup {n + 1}
  OBVIOUS
<1> QED BY <1>1 DEF UsableTo

\* One list more is seen.
LEMMA NavSees ==
    ASSUME NEW d \in Discs, NEW n \in Nat, NEW list, OrderOf(list, UsableTo(d, n))
    PROVE  /\ Usable(d, n + 1) => OrderOf(Append(list, n + 1), UsableTo(d, n + 1))
           /\ ~Usable(d, n + 1) => OrderOf(list, UsableTo(d, n + 1))
<1>1. UsableTo(d, n) \subseteq 1..n
  BY DEF UsableTo
<1>2. OrderOf(Append(list, n + 1), UsableTo(d, n) \cup {n + 1})
  BY <1>1, OrderKept
<1> QED BY <1>2, UsableOneMore

LEMMA SeeKeeps ==
    ASSUME NavIInv, Navigates, NEW what \in {"unused", "broken", "read"},
           See(what, Usable(cd, NextId)), cd' = cd, phase' = phase, dvc' = dvc, profile' = profile
    PROVE  NavIInv'
<1> DEFINE n == Len(lists.seen)
<1>1. /\ n \in Nat /\ n + 1 <= cd.maximum /\ n + 1 <= Len(cd.lot) /\ cd.multiplier # 0
      /\ phase = "navigation" /\ NextId = n + 1
      /\ OrderOf(lists.listed, UsableTo(cd, n)) /\ lists.seen \in Seq({"unused", "broken", "read"})
  BY DEF NavIInv, NavIs, Navigates, NextId
<1>2. /\ lists'.seen = Append(lists.seen, what)
      /\ lists'.listed = IF Usable(cd, n + 1) THEN Append(lists.listed, n + 1) ELSE lists.listed
  BY <1>1 DEF See
<1>3. lists'.seen \in Seq({"unused", "broken", "read"}) /\ Len(lists'.seen) = n + 1
  BY <1>1, <1>2
<1>4. cd \in Discs
  BY DEF NavIInv
<1> HIDE DEF n
<1>5. OrderOf(lists'.listed, UsableTo(cd, n + 1))
  BY <1>1, <1>2, <1>4, NavSees
<1>6. NavIs(cd, phase, lists')
  BY <1>1, <1>3, <1>5 DEF NavIs
<1> QED BY <1>3, <1>6 DEF NavIInv

LEMMA NavigateKeeps ==
    ASSUME NavIInv, Navigate
    PROVE  NavIInv'
<1>1. cd' = cd /\ dvc' = dvc /\ profile' = profile
  BY DEF Navigate
<1>2. Usable(cd, NextId) <=> cd.lot[NextId] # Unused /\ ListAt(NextId).kind # "none"
  BY DEF Usable, ListAt
<1>3. CASE SkipList
  <2>1. Navigates /\ See("unused", FALSE) /\ phase' = phase /\ ~Usable(cd, NextId)
    BY <1>2, <1>3 DEF SkipList
  <2>2. See("unused", Usable(cd, NextId))
    BY <2>1 DEF See
  <2> QED BY <1>1, <2>1, <2>2, SeeKeeps
<1>4. CASE BrokenList
  <2>1. Navigates /\ See("broken", FALSE) /\ phase' = phase /\ ~Usable(cd, NextId)
    BY <1>2, <1>4 DEF BrokenList
  <2>2. See("broken", Usable(cd, NextId))
    BY <2>1 DEF See
  <2> QED BY <1>1, <2>1, <2>2, SeeKeeps
<1>5. CASE ReadList
  <2>1. Navigates /\ See("read", TRUE) /\ phase' = phase /\ Usable(cd, NextId)
    BY <1>2, <1>5 DEF ReadList
  <2>2. See("read", Usable(cd, NextId))
    BY <2>1 DEF See
  <2> QED BY <1>1, <2>1, <2>2, SeeKeeps
<1>6. CASE EndNavigation
  <2>1. phase = "navigation" /\ ~Navigates /\ phase' = "done" /\ lists' = lists
    BY <1>6 DEF EndNavigation
  <2>2. NavIs(cd, phase, lists) /\ cd \in Discs
    BY DEF NavIInv
  <2>3. cd.maximum \in Nat /\ Len(cd.lot) \in Nat
    <3>1. cd.maximum \in Nat /\ cd.lot \in Seq(Nat)
      BY <2>2, InventoryAssumption DEF IsDisc
    <3> QED BY <3>1
  <2>4. NavIs(cd, "done", lists)
    BY <2>1, <2>2, <2>3 DEF NavIs, Navigates, NextId
  <2> QED BY <1>1, <2>1, <2>4 DEF NavIInv
<1> QED BY <1>3, <1>4, <1>5, <1>6 DEF Navigate

\* Nothing is seen yet.
LEMMA NavEmpty ==
    ASSUME NEW d \in Discs, NEW at, NEW ls, ls = [seen |-> <<>>, listed |-> <<>>]
    PROVE  NavIs(d, at, ls) /\ ls.seen \in Seq({"unused", "broken", "read"})
<1>1. ls.seen = <<>> /\ ls.listed = <<>>
  OBVIOUS
<1>2. Len(ls.seen) = 0 /\ ls.seen \in Seq({"unused", "broken", "read"})
  BY <1>1
<1>3. d.maximum \in Nat /\ Len(d.lot) \in Nat
  <2>1. d.maximum \in Nat /\ d.lot \in Seq(Nat)
    BY InventoryAssumption DEF IsDisc
  <2> QED BY <2>1
<1>4. UsableTo(d, 0) = {}
  BY DEF UsableTo
<1>5. OrderOf(<<>>, {})
  BY DEF OrderOf, Increasing
<1>6. OrderOf(ls.listed, UsableTo(d, Len(ls.seen)))
  BY <1>1, <1>2, <1>4, <1>5
<1> QED BY <1>2, <1>3, <1>6 DEF NavIs

LEMMA NavKeeps ==
    ASSUME NavIInv, [InventoryNext]_inventoryVars
    PROVE  NavIInv'
<1> DEFINE Profiles == {"photo-cd", "video-cd", "native-cdi", "cd-rom-xa-bridge", "unknown"}
<1>0. /\ cd \in Discs /\ dvc \in BOOLEAN /\ profile \in Profiles /\ NavIs(cd, phase, lists)
      /\ lists.seen \in Seq({"unused", "broken", "read"})
  BY DEF NavIInv
<1>1. CASE InspectVolume \/ WalkDirectory \/ EndWalk \/ ScanFiles \/ Classify
  <2>1. cd' = cd /\ lists' = lists /\ phase \notin {"navigation", "done"}
    BY <1>1 DEF InspectVolume, WalkDirectory, EndWalk, ScanFiles, Classify
  <2>2. NavIs(cd, phase', lists)
    BY <1>0, <2>1 DEF NavIs
  <2>3. dvc' \in BOOLEAN
    <3>1. CASE ScanFiles
      BY <3>1 DEF ScanFiles
    <3>2. CASE ~ScanFiles
      <4>1. dvc' = dvc
        BY <1>1, <3>2 DEF InspectVolume, WalkDirectory, EndWalk, Classify
      <4> QED BY <1>0, <4>1
    <3> QED BY <3>1, <3>2
  <2>4. profile' \in Profiles
    <3>1. CASE Classify
      BY <3>1 DEF Classify
    <3>2. CASE ~Classify
      <4>1. profile' = profile
        BY <1>1, <3>2 DEF InspectVolume, WalkDirectory, EndWalk, ScanFiles
      <4> QED BY <1>0, <4>1
    <3> QED BY <3>1, <3>2
  <2> QED BY <1>0, <2>1, <2>2, <2>3, <2>4 DEF NavIInv
<1>2. CASE Navigate
  BY <1>2, NavigateKeeps
<1>3. CASE \E d \in Discs : InspectAgain(d)
  <2>1. cd' \in Discs /\ dvc' = FALSE /\ profile' = "unknown" /\ lists' = [seen |-> <<>>, listed |-> <<>>]
    BY <1>3 DEF InspectAgain
  <2>2. NavIs(cd', phase', lists') /\ lists'.seen \in Seq({"unused", "broken", "read"})
    BY <2>1, NavEmpty
  <2> QED BY <2>1, <2>2 DEF NavIInv
<1>4. CASE UNCHANGED inventoryVars
  <2>1. cd' = cd /\ dvc' = dvc /\ profile' = profile /\ lists' = lists /\ phase' = phase
    BY <1>4 DEF inventoryVars
  <2> QED BY <1>0, <2>1 DEF NavIInv
<1> QED BY <1>1, <1>2, <1>3, <1>4 DEF InventoryNext, Inspect

LEMMA NavAnswers ==
    ASSUME NavIInv
    PROVE  ListsNavigable
<1> DEFINE n == Len(lists.seen)
           S == {i \in DOMAIN cd.lot : i <= cd.maximum /\ cd.lot[i] # Unused /\ ListAt(i).kind # "none"}
<1> SUFFICES ASSUME phase = "done", lists.seen # <<>> PROVE lists.listed = Ascending(S)
  BY DEF ListsNavigable
<1>1. cd \in Discs /\ NavIs(cd, phase, lists) /\ lists.seen \in Seq({"unused", "broken", "read"})
  BY DEF NavIInv
<1>2. n # 0 /\ n \in Nat
  BY <1>1
<1>3. cd.maximum \in Nat /\ cd.lot \in Seq(Nat) /\ Len(cd.lot) \in Nat /\ DOMAIN cd.lot = 1..Len(cd.lot)
  <2>1. cd.maximum \in Nat /\ cd.lot \in Seq(Nat)
    BY <1>1, InventoryAssumption DEF IsDisc
  <2> QED BY <2>1
<1>4. /\ n <= cd.maximum /\ n <= Len(cd.lot) /\ OrderOf(lists.listed, UsableTo(cd, n))
      /\ n + 1 > cd.maximum \/ n + 1 > Len(cd.lot)
  BY <1>1, <1>2 DEF NavIs
<1> HIDE DEF n
<1>5. \A i \in DOMAIN cd.lot : i <= cd.maximum <=> i \in 1..n
  BY <1>2, <1>3, <1>4
<1>6. 1..n \subseteq DOMAIN cd.lot
  BY <1>2, <1>3, <1>4
<1>7. \A i : Usable(cd, i) <=> cd.lot[i] # Unused /\ ListAt(i).kind # "none"
  BY DEF Usable, ListAt
<1>8. UsableTo(cd, n) = S
  BY <1>5, <1>6, <1>7 DEF UsableTo
<1>9. S \subseteq Nat /\ IsFiniteSet(S)
  <2>1. IsFiniteSet(1..n)
    BY <1>2, FS_Interval
  <2>2. UsableTo(cd, n) \subseteq 1..n
    BY DEF UsableTo
  <2>3. IsFiniteSet(UsableTo(cd, n))
    BY <2>1, <2>2, FS_Subset
  <2> HIDE DEF S
  <2> QED BY <1>2, <1>8, <2>2, <2>3
<1> HIDE DEF S
<1>10. OrderOf(lists.listed, S)
  BY <1>4, <1>8
<1> QED BY <1>9, <1>10, ListedOnce

-----------------------------------------------------------------------------
InventoryIInv == WalkIInv /\ NavIInv

LEMMA InventoryStarts ==
    ASSUME InventoryInit
    PROVE  InventoryIInv
<1>1. cd \in Discs /\ dvc = FALSE /\ profile = "unknown" /\ lists = [seen |-> <<>>, listed |-> <<>>]
  BY DEF InventoryInit
<1>2. NavIs(cd, phase, lists) /\ lists.seen \in Seq({"unused", "broken", "read"})
  BY <1>1, NavEmpty
<1>3. NavIInv
  BY <1>1, <1>2 DEF NavIInv
<1>4. WalkIInv
  BY WalkAtFirst DEF InventoryInit
<1> QED BY <1>3, <1>4 DEF InventoryIInv

LEMMA InventoryIs ==
    ASSUME InventoryIInv
    PROVE  InventoryInv
<1>1. WalkIInv /\ NavIInv
  BY DEF InventoryIInv
<1>2. \A i \in DOMAIN queue : queue[i].depth \in 0..(MaxDepth + 1)
  <2>1. queue \in Seq(Dir)
    BY <1>1 DEF WalkIInv, WalkTyped
  <2>2. \A i \in DOMAIN queue : queue[i] \in Dir
    BY <2>1
  <2> QED BY <2>2 DEF Dir
<1>3. InventoryTypeOK
  <2>1. IsDisc(cd)
    BY <1>1, InventoryAssumption DEF NavIInv
  <2> QED BY <1>1, <1>2, <2>1 DEF InventoryTypeOK, WalkIInv, WalkTyped, NavIInv, Kind
<1> QED BY <1>1, <1>3, WalkAnswers, NavAnswers DEF InventoryInv

\* The walks of directories end and list each entry within the depth limit once,
\* there is no inventory exactly when a directory of the CD-i volume is missing or
\* the root record of the ISO volume is invalid, and every list that can be read
\* is listed, whatever disc it is (inventory.rs:338, 450, 467, 520, 829).
THEOREM InventoryCorrect == InventorySpec => []InventoryInv
<1>1. InventoryInit => InventoryIInv
  BY InventoryStarts
<1>2. InventoryIInv /\ [InventoryNext]_inventoryVars => InventoryIInv'
  <2> SUFFICES ASSUME InventoryIInv, [InventoryNext]_inventoryVars PROVE InventoryIInv'
    OBVIOUS
  <2>1. WalkIInv' /\ NavIInv'
    BY WalkKeeps, NavKeeps DEF InventoryIInv
  <2> QED BY <2>1 DEF InventoryIInv
<1>3. InventoryIInv => InventoryInv
  BY InventoryIs
<1> QED BY <1>1, <1>2, <1>3, PTL DEF InventorySpec

\* Where the sectors of a disc are, and what is found on it.
THEOREM DiscImagesCorrect == LayoutSpec /\ InventorySpec => []DiscInv
<1>1. LayoutInv /\ InventoryInv => DiscInv
  BY DEF DiscInv
<1> QED BY <1>1, LayoutCorrect, InventoryCorrect, PTL
=============================================================================
