----------------------------- MODULE CpuProofs -----------------------------
(***************************************************************************)
(* Theorems about the SCC68070: exceptions, operands and arithmetic.       *)
(*                                                                         *)
(* Exception processing of the SCC68070, proved for every program whose    *)
(* words CodeAssumption, MainAssumption and HandlerAssumption describe:    *)
(* however deep exceptions nest, Main executes its instructions in order   *)
(* and each of them once. The frames on the supervisor stack are a chain:  *)
(* the first interrupted Main, each other one the handler of the frame     *)
(* below it. So what a handler does, and all that is stacked above it,     *)
(* leaves Main where the first frame keeps it, and only two places decide  *)
(* what Main has done: the steps of Main itself, and those on its frame.   *)
(*                                                                         *)
(* The stack under operands of all sizes, for every base, bottom, set of   *)
(* words and displacement. What was pushed lies in even extents next to    *)
(* one another from the bottom down to A7, so a push writes below all of   *)
(* them, and what is read again are the bytes that were written.           *)
(*                                                                         *)
(* Arithmetic and shifts, for every width of the operands, every set of    *)
(* decimal bytes and chains of any number of words. The provers know no    *)
(* powers, so first come those of two, by induction, and quotient and      *)
(* remainder; then each operator of Alu in integers:                       *)
(*  - a word of a chain joins the number before it, which the carry in X   *)
(*    and the sticky Z describe completely: that is the inductive part;    *)
(*  - a shift by a count is as many shifts by one, and what they make of   *)
(*    the operand is followed from one count to the next; a rotation turns *)
(*    the operand, with X above it for ROXL and ROXR, by one bit at a time;*)
(*  - decimal bytes are taken apart into digits;                           *)
(*  - a division leaves a quotient that fits, for each pair of signs;      *)
(*  - a number is what is above a bit, the bit, and what is below it.      *)
(***************************************************************************)
EXTENDS Alu, Cpu, Operands, FiniteSetTheorems, SequenceTheorems, Induction, TLAPS

-----------------------------------------------------------------------------
(* The processor.                                                          *)

Place == [in : DOMAIN Code, word : Nat]
FrameType == [sr : Status, pc : Place, vector : Vector, long : BOOLEAN, rr : BOOLEAN, resume : Place]
History == [retired : Nat, skipped : Nat]

OpAt(w) == Code[Main][w].op
EffectOps == {"plain", "access"}
\* What Main cannot execute, and its handler has it skip.
Refused == SystemControl \cup {"illegal"}

MachineTypeOK ==
    /\ sr \in Status /\ pc \in Place /\ stopped \in BOOLEAN /\ pendingIpl \in 0..7
    /\ a7 \in {"ssp", "usp"} /\ spOther \in {"ssp", "usp"}
    /\ stacks \in [{"ssp", "usp"} -> Seq(FrameType)] /\ stacks["usp"] = <<>>
    /\ data \in Nat /\ history \in History

-----------------------------------------------------------------------------
(* What holds of frames f, status s, place p, stack pointers a and o, data *)
(* d and history h.                                                        *)

\* Each frame is of the program below it.
Nested(f, p) ==
    /\ f = <<>> => p.in = Main
    /\ f # <<>> => p.in = f[Len(f)].vector /\ f[1].pc.in = Main
    /\ \A i \in 2..Len(f) : f[i].pc.in = f[i - 1].vector /\ f[i].vector \in {"trap", "interrupt", "bus error"}
    /\ \A i \in 1..Len(f) :
        /\ f[i].resume.in = f[i].pc.in
        /\ f[i].long => f[i].vector = "bus error" /\ f[i].resume.word > 0
        /\ f[i].rr => f[i].long

\* Handlers run as supervisor and are not traced.
Supervises(f, s) ==
    /\ f # <<>> => s.s /\ ~s.t
    /\ \A i \in 2..Len(f) : f[i].sr.s /\ ~f[i].sr.t

Mask(f, l, i) == IF i > Len(f) THEN l ELSE f[i].sr.ipl
Masks(f, l) ==
    \A i \in 1..Len(f) :
        /\ Mask(f, l, i) <= Mask(f, l, i + 1)
        /\ f[i].vector = "interrupt" => Mask(f, l, i) < Mask(f, l, i + 1) \/ Mask(f, l, i + 1) = 7

\* Where Main goes on and under which status, and whether a handler has it skip
\* the instruction that faulted.
Where(f, p) == IF f = <<>> THEN p ELSE ReturnPc(f[1])
ModeOf(f, s) == IF f = <<>> THEN s ELSE f[1].sr
Skips(f) == f # <<>> /\ f[1].long /\ f[1].rr

Counts(m, skips, d, h) ==
    /\ m.in = Main /\ m.word \in Starts
    /\ Cardinality(Before(m.word)) = h.retired + (IF skips THEN 1 ELSE 0)
    /\ Effects(m.word) = d + h.skipped + (IF skips THEN 1 ELSE 0)

\* Where the handler of Main's frame goes on.
HandlerAt(f, p) == IF Len(f) = 1 THEN p ELSE ReturnPc(f[2])

\* Main's own frame: a fault was one of an access, which it may be told to
\* skip; an instruction it was refused is there until the handler edits.
MainFrame(f, p) ==
    f # <<>> =>
        /\ f[1].long => /\ f[1].pc.word \in Starts /\ OpAt(f[1].pc.word) = "access"
                        /\ f[1].resume.word = f[1].pc.word + Code[Main][f[1].pc.word].words
        /\ f[1].vector \in {"illegal", "privilege"} /\ HandlerAt(f, p).word = 0
             => /\ OpAt(f[1].pc.word) \in Refused
                /\ f[1].sr.s => OpAt(f[1].pc.word) = "illegal"

\* The two stack pointers, and that Main has named its user stack.
Stacked(m, main, s, a, o) ==
    /\ a = IF s.s THEN "ssp" ELSE "usp"
    /\ ~s.s => o = "ssp"
    /\ s.s => o = "usp" \/ (main.s /\ m.word = 0)
    /\ ~main.s => \E v \in LeavesSupervisor : v < m.word

Good(f, s, p, a, o, d, h) ==
    /\ Nested(f, p) /\ Supervises(f, s) /\ Masks(f, s.ipl) /\ MainFrame(f, p)
    /\ Counts(Where(f, p), Skips(f), d, h)
    /\ Stacked(Where(f, p), ModeOf(f, s), s, a, o)

IInv == MachineTypeOK /\ Good(Frames, sr, pc, a7, spOther, data, history)

-----------------------------------------------------------------------------
(* Sequences of frames, and counting.                                      *)

LEMMA AppendFrame ==
  ASSUME NEW f \in Seq(FrameType), NEW g \in FrameType
  PROVE  /\ Append(f, g) \in Seq(FrameType) /\ Append(f, g) # <<>>
         /\ Len(f) \in Nat /\ Len(Append(f, g)) = Len(f) + 1
         /\ \A i \in 1..Len(f) : Append(f, g)[i] = f[i]
         /\ Append(f, g)[Len(f) + 1] = g
         /\ f = <<>> <=> Len(f) = 0
  OBVIOUS

\* RTE takes the frame off that was stacked last.
LEMMA FrontFrame ==
  ASSUME NEW f \in Seq(FrameType), f # <<>>
  PROVE  /\ Len(f) \in Nat \ {0} /\ Last(f) = f[Len(f)] /\ Last(f) \in FrameType
         /\ Front(f) \in Seq(FrameType) /\ Len(Front(f)) = Len(f) - 1
         /\ \A i \in 1..(Len(f) - 1) : Front(f)[i] = f[i]
         /\ Front(f) = <<>> <=> Len(f) = 1
  <1>1. Len(f) \in Nat \ {0} /\ f[Len(f)] \in FrameType
    OBVIOUS
  <1>2. /\ SubSeq(f, 1, Len(f) - 1) \in Seq(FrameType)
        /\ Len(SubSeq(f, 1, Len(f) - 1)) = Len(f) - 1
        /\ \A i \in 1..(Len(f) - 1) : SubSeq(f, 1, Len(f) - 1)[i] = f[i]
    BY <1>1, SubSeqProperties
  <1>3. SubSeq(f, 1, Len(f) - 1) = <<>> <=> Len(f) = 1
    <2> DEFINE h == SubSeq(f, 1, Len(f) - 1)
    <2>1. h \in Seq(FrameType) /\ Len(h) = Len(f) - 1
      BY <1>2
    <2> HIDE DEF h
    <2>2. h = <<>> <=> Len(f) = 1
      BY <1>1, <2>1
    <2> QED BY <2>2 DEF h
  <1> QED BY <1>1, <1>2, <1>3 DEF Front, Last

(* A handler edits the frame it returns through, and no other. *)
LEMMA EditFrame ==
  ASSUME NEW f \in Seq(FrameType), f # <<>>, NEW g \in FrameType
  PROVE  LET e == Append(Front(f), g)
         IN  /\ e \in Seq(FrameType) /\ e # <<>> /\ Len(e) = Len(f) /\ Len(f) \in Nat \ {0}
             /\ \A i \in 1..(Len(f) - 1) : e[i] = f[i]
             /\ e[Len(f)] = g
  <1> DEFINE h == Front(f)
             e == Append(h, g)
  <1>1. /\ h \in Seq(FrameType) /\ Len(h) = Len(f) - 1 /\ Len(f) \in Nat \ {0}
        /\ \A i \in 1..(Len(f) - 1) : h[i] = f[i]
    BY FrontFrame
  <1> HIDE DEF h
  <1>2. /\ e \in Seq(FrameType) /\ e # <<>> /\ Len(e) = Len(h) + 1
        /\ \A i \in 1..Len(h) : e[i] = h[i]
        /\ e[Len(h) + 1] = g
    BY <1>1, AppendFrame
  <1> HIDE DEF e
  <1> QED BY <1>1, <1>2 DEF e, h

\* Main's instructions are at words, the first of them at 0.
LEMMA StartsAreNat == Starts \subseteq Nat /\ 0 \in Starts
  BY CodeAssumption DEF Starts

\* The instructions before a word are those at lower words.
LEMMA BeforeElements ==
  ASSUME NEW w \in Nat
  PROVE  \A u : u \in Before(w) <=> u \in Starts /\ u < w
  BY StartsAreNat DEF Before

\* They can be counted.
LEMMA BeforeFinite ==
  ASSUME NEW w \in Nat
  PROVE  /\ IsFiniteSet(Before(w)) /\ Cardinality(Before(w)) \in Nat
         /\ Before(w) \subseteq Nat
         /\ Effects(w) \in Nat
         /\ IsFiniteSet({u \in Before(w) : OpAt(u) \in EffectOps})
  <1>1. Before(w) \subseteq 0..w
    <2> SUFFICES ASSUME NEW u \in Before(w) PROVE u \in 0..w
      OBVIOUS
    <2>1. u \in Starts /\ u < w
      BY BeforeElements
    <2> QED BY <2>1, StartsAreNat
  <1>2. IsFiniteSet(0..w)
    BY FS_Interval
  <1>3. IsFiniteSet(Before(w))
    BY <1>1, <1>2, FS_Subset
  <1>4. IsFiniteSet({u \in Before(w) : OpAt(u) \in EffectOps})
    BY <1>3, FS_Subset
  <1> QED BY <1>1, <1>3, <1>4, FS_CardinalityType DEF Effects, OpAt, EffectOps

(* An instruction is the only one between it and the one that follows it. *)
LEMMA NextStart ==
  ASSUME NEW w \in Starts, OpAt(w) # "branch"
  PROVE  LET n == w + Code[Main][w].words
         IN  /\ w \in Nat /\ n \in Starts /\ n \in Nat /\ n > w
             /\ Cardinality(Before(n)) = Cardinality(Before(w)) + 1
             /\ Effects(n) = Effects(w) + (IF OpAt(w) \in EffectOps THEN 1 ELSE 0)
  <1> DEFINE n == w + Code[Main][w].words
  <1>1. /\ w \in Nat /\ Code[Main][w].words \in Nat \ {0} /\ Starts \subseteq Nat
        /\ n \in Starts /\ \A u \in Starts : u <= w \/ n <= u
    BY CodeAssumption, MainAssumption DEF Starts, OpAt
  <1>2. n \in Nat /\ n > w
    BY <1>1
  <1> HIDE DEF n
  <1>3. Before(n) = Before(w) \cup {w} /\ w \notin Before(w)
    <2>1. \A u \in Starts : u \in Nat /\ (u < n <=> u < w \/ u = w)
      BY <1>1, <1>2
    <2>2. \A u : u \in Before(n) <=> u \in Before(w) \/ u = w
      BY <1>1, <1>2, <2>1, BeforeElements
    <2>3. w \notin Before(w)
      BY <1>1, BeforeElements
    <2> QED BY <2>2, <2>3
  <1>4. Cardinality(Before(n)) = Cardinality(Before(w)) + 1
    BY <1>1, <1>3, BeforeFinite, FS_AddElement
  <1> DEFINE E(v) == {u \in Before(v) : OpAt(u) \in EffectOps}
  <1>5. Effects(n) = Cardinality(E(n)) /\ Effects(w) = Cardinality(E(w))
    BY DEF Effects, OpAt, EffectOps
  <1>6. CASE OpAt(w) \in EffectOps
    <2>1. E(n) = E(w) \cup {w} /\ w \notin E(w)
      BY <1>3, <1>6
    <2> QED BY <1>1, <1>2, <1>4, <1>5, <1>6, <2>1, BeforeFinite, FS_AddElement DEF n
  <1>7. CASE OpAt(w) \notin EffectOps
    <2>1. E(n) = E(w)
      BY <1>3, <1>7
    <2>2. Effects(w) \in Nat
      BY <1>1, BeforeFinite
    <2> QED BY <1>1, <1>2, <1>4, <1>5, <1>7, <2>1, <2>2 DEF n
  <1> QED BY <1>6, <1>7

\* Nothing is done where Main begins.
LEMMA NothingBefore == 0 \in Starts /\ Cardinality(Before(0)) = 0 /\ Effects(0) = 0
  <1>1. Before(0) = {}
    <2>1. \A u : u \notin Before(0)
      <3>1. \A u : u \in Before(0) <=> u \in Starts /\ u < 0
        BY BeforeElements
      <3>2. \A u \in Starts : ~(u < 0)
        BY StartsAreNat
      <3> QED BY <3>1, <3>2
    <2> QED BY <2>1
  <1>2. {u \in Before(0) : Code[Main][u].op \in {"plain", "access"}} = {}
    BY <1>1
  <1> QED BY <1>1, <1>2, StartsAreNat, FS_EmptySet DEF Effects

-----------------------------------------------------------------------------
(* What the invariant says of the properties.                              *)

\* The first frame of Main is the first frame.
LEMMA MainIsFirst ==
  ASSUME MachineTypeOK, Nested(Frames, pc)
  PROVE  MainPc = Where(Frames, pc) /\ (Skipping <=> Skips(Frames))
  <1> DEFINE f == Frames
  <1>1. f \in Seq(FrameType) /\ Len(f) \in Nat /\ (f = <<>> <=> Len(f) = 0)
    BY DEF MachineTypeOK, Frames
  <1>0. Nested(f, pc)
    OBVIOUS
  <1> HIDE DEF f
  <1>2. \A i \in 1..Len(f) : f[i] \in FrameType
    BY <1>1
  <1>3. \A i \in 1..Len(f) : f[i].vector # Main
    BY <1>2, CodeAssumption DEF FrameType
  <1>4. \A i \in 1..Len(f) : f[i].pc.in = Main <=> i = 1
    <2> SUFFICES ASSUME NEW i \in 1..Len(f) PROVE f[i].pc.in = Main <=> i = 1
      OBVIOUS
    <2>1. CASE i = 1
      <3>1. f # <<>>
        BY <1>1, <2>1
      <3> QED BY <1>0, <2>1, <3>1 DEF Nested
    <2>2. CASE i # 1
      <3>1. i \in 2..Len(f) /\ i - 1 \in 1..Len(f)
        BY <1>1, <2>2
      <3>2. f[i].pc.in = f[i - 1].vector
        BY <1>0, <3>1 DEF Nested
      <3> QED BY <1>3, <2>2, <3>1, <3>2
    <2> QED BY <2>1, <2>2
  <1>5. CASE f = <<>>
    BY <1>0, <1>1, <1>5 DEF Nested, Where, Skips, MainPc, Skipping, f
  <1>6. CASE f # <<>>
    <2>1. 1 \in 1..Len(f) /\ pc.in # Main
      <3>1. Len(f) \in 1..Len(f) /\ 1 \in 1..Len(f)
        BY <1>1, <1>6
      <3> QED BY <1>0, <1>3, <1>6, <3>1 DEF Nested
    <2>2. {i \in 1..Len(f) : f[i].pc.in = Main} = {1}
      BY <1>4, <2>1
    <2>3. Min({1}) = 1
      BY DEF Min
    <2>4. SelectInSeq(f, LAMBDA g : g.pc.in = Main) = 1
      BY <2>2, <2>3 DEF SelectInSeq
    <2>5. MainPc = ReturnPc(f[1])
      BY <2>1, <2>4 DEF MainPc, f
    <2>6. Skipping <=> f[1].long /\ f[1].rr
      BY <1>1, <1>4, <2>1 DEF Skipping, f
    <2>7. Where(f, pc) = ReturnPc(f[1])
      BY <1>6, Zenon DEF Where
    <2>8. Skips(f) <=> f[1].long /\ f[1].rr
      BY <1>6, Zenon DEF Skips
    <2> QED BY <2>5, <2>6, <2>7, <2>8, Zenon DEF f
  <1> QED BY <1>5, <1>6 DEF f

\* The inductive invariant says what the run checks.
LEMMA Implies == IInv => CpuInv
  <1> SUFFICES ASSUME IInv PROVE CpuInv
    OBVIOUS
  <1> USE DEF IInv, Good
  <1> DEFINE f == Frames
  <1>1. f \in Seq(FrameType) /\ Len(f) \in Nat /\ DOMAIN f = 1..Len(f)
    BY DEF MachineTypeOK, Frames
  <1>2. \A i \in 1..Len(f) : f[i].sr \in Status
    <2>1. \A i \in 1..Len(f) : f[i] \in FrameType
      BY <1>1
    <2> QED BY <2>1 DEF FrameType
  <1>3. CpuTypeOK
    BY <1>1, <1>2 DEF MachineTypeOK, CpuTypeOK, Place
  <1>4. MainPc = Where(f, pc) /\ (Skipping <=> Skips(f))
    BY MainIsFirst
  <1>5. IsInstruction(MainPc)
    BY <1>4, CodeAssumption DEF Counts, IsInstruction, Starts
  <1>6. ProgramInOrder /\ EffectsOnce
    BY <1>4, <1>5 DEF Counts, ProgramInOrder, EffectsOnce
  <1>7. StacksApart
    BY DEF MachineTypeOK, Stacked, StacksApart
  <1>8. MasksRise
    <2>1. \A i \in 1..Len(f) : /\ Mask(f, sr.ipl, i) <= Mask(f, sr.ipl, i + 1)
                               /\ f[i].vector = "interrupt" =>
                                    \/ Mask(f, sr.ipl, i) < Mask(f, sr.ipl, i + 1)
                                    \/ Mask(f, sr.ipl, i + 1) = 7
      BY DEF Masks
    <2> QED BY <1>1, <2>1, Zenon DEF MasksRise, Mask
  <1> QED BY <1>3, <1>6, <1>7, <1>8 DEF CpuInv

-----------------------------------------------------------------------------
(* What stacking, returning and editing do to the chain of frames and to   *)
(* the masks in it.                                                        *)

\* A frame that an exception stacks on f in the program of p.
Stackable(f, g, p) ==
    /\ g.pc.in = p.in /\ g.resume.in = p.in /\ ~g.rr
    /\ g.long => g.vector = "bus error" /\ g.resume.word > 0
    /\ f # <<>> => g.vector \in {"trap", "interrupt", "bus error"}

\* An exception stacks a frame of the program that ran.
LEMMA NestedPush ==
  ASSUME NEW f \in Seq(FrameType), NEW p, Nested(f, p), NEW g \in FrameType, Stackable(f, g, p),
         NEW q, q.in = g.vector
  PROVE  Nested(Append(f, g), q)
  <1> DEFINE e == Append(f, g)  n == Len(f)
  <1>1. e # <<>> /\ n \in Nat /\ Len(e) = n + 1 /\ e[n + 1] = g
    BY AppendFrame
  <1>6. \A i \in 1..n : e[i] = f[i]
    BY AppendFrame
  <1>7. f = <<>> <=> n = 0
    BY AppendFrame
  <1>8. Nested(f, p)
    OBVIOUS
  <1> HIDE DEF e, n
  <1>2. q.in = e[Len(e)].vector
    BY <1>1
  <1>3. e[1].pc.in = Main
    <2>1. CASE f = <<>>
      <3>1. n = 0 /\ p.in = Main
        BY <1>7, <1>8, <2>1 DEF Nested
      <3>2. g.pc.in = p.in
        BY DEF Stackable
      <3> QED BY <1>1, <3>1, <3>2
    <2>2. CASE f # <<>>
      <3>1. n # 0
        BY <1>7, <2>2
      <3>2. 1 \in 1..n
        BY <1>1, <3>1
      <3> QED BY <1>6, <1>8, <2>2, <3>2 DEF Nested
    <2> QED BY <2>1, <2>2
  <1>4. ASSUME NEW i \in 2..Len(e)
        PROVE  e[i].pc.in = e[i - 1].vector /\ e[i].vector \in {"trap", "interrupt", "bus error"}
    <2>1. CASE i <= n
      <3>1. i \in 1..n /\ i - 1 \in 1..n /\ i \in 2..n
        BY <1>1, <2>1
      <3>2. e[i] = f[i] /\ e[i - 1] = f[i - 1]
        BY <1>6, <3>1
      <3>3. f[i].pc.in = f[i - 1].vector /\ f[i].vector \in {"trap", "interrupt", "bus error"}
        BY <3>1 DEF Nested, n
      <3> QED BY <3>2, <3>3
    <2>2. CASE i = n + 1
      <3>1. n # 0 /\ n \in 1..n /\ i - 1 = n
        BY <1>1, <2>2
      <3>4. f # <<>>
        BY <1>7, <3>1
      <3>2. e[i] = g /\ e[i - 1] = f[n]
        BY <1>1, <1>6, <2>2, <3>1
      <3>3. p.in = f[n].vector
        BY <1>8, <3>4 DEF Nested, n
      <3>5. g.pc.in = p.in /\ g.vector \in {"trap", "interrupt", "bus error"}
        BY <3>4 DEF Stackable
      <3> QED BY <3>2, <3>3, <3>5
    <2>3. i <= n \/ i = n + 1
      BY <1>1
    <2> QED BY <2>1, <2>2, <2>3
  <1>5. ASSUME NEW i \in 1..Len(e)
        PROVE  /\ e[i].resume.in = e[i].pc.in
               /\ e[i].long => e[i].vector = "bus error" /\ e[i].resume.word > 0
               /\ e[i].rr => e[i].long
    <2>1. CASE i <= n
      <3>1. i \in 1..Len(f) /\ e[i] = f[i]
        BY <1>1, <1>6, <2>1 DEF n
      <3> QED BY <3>1 DEF Nested
    <2>2. CASE i = n + 1
      BY <1>1, <2>2 DEF Stackable
    <2>3. i <= n \/ i = n + 1
      BY <1>1
    <2> QED BY <2>1, <2>2, <2>3
  <1> QED BY <1>1, <1>2, <1>3, <1>4, <1>5 DEF Nested, e

\* A return is to the program the frame is of.
LEMMA NestedPop ==
  ASSUME NEW f \in Seq(FrameType), f # <<>>, NEW p, Nested(f, p), NEW q, q.in = Last(f).pc.in
  PROVE  Nested(Front(f), q)
  <1> DEFINE e == Front(f)  n == Len(f)
  <1>1. /\ n \in Nat \ {0} /\ Last(f) = f[n] /\ e \in Seq(FrameType) /\ Len(e) = n - 1
        /\ \A i \in 1..(n - 1) : e[i] = f[i]
        /\ e = <<>> <=> n = 1
    BY FrontFrame
  <1> HIDE DEF e, n
  <1>2. e = <<>> => q.in = Main
    BY <1>1 DEF Nested
  <1>3. e # <<>> => q.in = e[Len(e)].vector /\ e[1].pc.in = Main
    <2> SUFFICES ASSUME e # <<>> PROVE q.in = e[Len(e)].vector /\ e[1].pc.in = Main
      OBVIOUS
    <2>1. n \in 2..n /\ n - 1 \in 1..(n - 1) /\ 1 \in 1..(n - 1)
      BY <1>1
    <2>2. e[Len(e)] = f[n - 1] /\ e[1] = f[1]
      BY <1>1, <2>1
    <2>3. f[n].pc.in = f[n - 1].vector /\ f[1].pc.in = Main
      BY <2>1 DEF Nested, n
    <2> QED BY <1>1, <2>2, <2>3
  <1>4. ASSUME NEW i \in 2..Len(e)
        PROVE  e[i].pc.in = e[i - 1].vector /\ e[i].vector \in {"trap", "interrupt", "bus error"}
    <2>1. i \in 1..(n - 1) /\ i - 1 \in 1..(n - 1) /\ i \in 2..Len(f)
      BY <1>1 DEF n
    <2> QED BY <1>1, <2>1 DEF Nested
  <1>5. ASSUME NEW i \in 1..Len(e)
        PROVE  /\ e[i].resume.in = e[i].pc.in
               /\ e[i].long => e[i].vector = "bus error" /\ e[i].resume.word > 0
               /\ e[i].rr => e[i].long
    <2>1. i \in 1..Len(f) /\ e[i] = f[i]
      BY <1>1 DEF n
    <2> QED BY <2>1 DEF Nested
  <1> QED BY <1>2, <1>3, <1>4, <1>5 DEF Nested, e

\* An edited frame is of the same program.
LEMMA NestedEdit ==
  ASSUME NEW f \in Seq(FrameType), f # <<>>, NEW p, Nested(f, p), NEW g \in FrameType, NEW q, q.in = p.in,
         g.vector = Last(f).vector, g.pc.in = Last(f).pc.in, g.resume = Last(f).resume,
         g.long = Last(f).long, g.rr => g.long
  PROVE  Nested(Append(Front(f), g), q)
  <1> DEFINE e == Append(Front(f), g)  n == Len(f)
  <1>1. /\ e \in Seq(FrameType) /\ e # <<>> /\ Len(e) = n /\ n \in Nat \ {0}
        /\ \A i \in 1..(n - 1) : e[i] = f[i]
        /\ e[n] = g
    BY EditFrame
  <1>2. Last(f) = f[n]
    BY FrontFrame
  <1> HIDE DEF e, n
  <1>3. \A i \in 1..n : /\ e[i].vector = f[i].vector /\ e[i].pc.in = f[i].pc.in
                        /\ e[i].resume = f[i].resume /\ e[i].long = f[i].long
                        /\ i # n => e[i] = f[i]
    <2> SUFFICES ASSUME NEW i \in 1..n
                 PROVE  /\ e[i].vector = f[i].vector /\ e[i].pc.in = f[i].pc.in
                        /\ e[i].resume = f[i].resume /\ e[i].long = f[i].long
                        /\ i # n => e[i] = f[i]
      OBVIOUS
    <2>1. CASE i = n
      BY <1>1, <1>2, <2>1
    <2>2. CASE i # n
      <3>1. i \in 1..(n - 1)
        BY <1>1, <2>2
      <3> QED BY <1>1, <3>1
    <2> QED BY <2>1, <2>2
  <1>4. q.in = e[n].vector /\ e[1].pc.in = Main
    <2>1. n \in 1..n /\ 1 \in 1..n
      BY <1>1
    <2>2. p.in = f[n].vector /\ f[1].pc.in = Main
      BY DEF Nested, n
    <2> QED BY <1>3, <2>1, <2>2
  <1>5. ASSUME NEW i \in 2..n
        PROVE  e[i].pc.in = e[i - 1].vector /\ e[i].vector \in {"trap", "interrupt", "bus error"}
    <2>1. i \in 1..n /\ i - 1 \in 1..n
      BY <1>1
    <2>2. f[i].pc.in = f[i - 1].vector /\ f[i].vector \in {"trap", "interrupt", "bus error"}
      BY DEF Nested, n
    <2> QED BY <1>3, <2>1, <2>2
  <1>6. ASSUME NEW i \in 1..n
        PROVE  /\ e[i].resume.in = e[i].pc.in
               /\ e[i].long => e[i].vector = "bus error" /\ e[i].resume.word > 0
               /\ e[i].rr => e[i].long
    <2>1. /\ f[i].resume.in = f[i].pc.in
          /\ f[i].long => f[i].vector = "bus error" /\ f[i].resume.word > 0
          /\ f[i].rr => f[i].long
      BY DEF Nested, n
    <2>2. e[i].rr => e[i].long
      BY <1>1, <1>3, <2>1
    <2> QED BY <1>3, <2>1, <2>2
  <1> QED BY <1>1, <1>4, <1>5, <1>6 DEF Nested, e

\* How the level of the handler at frame g may relate to that of the program
\* it interrupted.
Raises(g, l) == g.sr.ipl <= l /\ (g.vector = "interrupt" => g.sr.ipl < l \/ l = 7)

\* An exception does not lower the mask, an interrupt raises it.
LEMMA MasksPush ==
  ASSUME NEW f \in Seq(FrameType), NEW g \in FrameType, Masks(f, g.sr.ipl), NEW l, Raises(g, l)
  PROVE  Masks(Append(f, g), l)
  <1> DEFINE e == Append(f, g)  n == Len(f)  k == g.sr.ipl
  <1>1. n \in Nat /\ Len(e) = n + 1 /\ e[n + 1] = g
    BY AppendFrame
  <1>2. \A i \in 1..n : e[i] = f[i]
    BY AppendFrame
  <1>3. Masks(f, k)
    OBVIOUS
  <1> HIDE DEF e, n, k
  <1>4. \A i \in 1..(n + 1) : Mask(e, l, i) = Mask(f, k, i)
    <2> SUFFICES ASSUME NEW i \in 1..(n + 1) PROVE Mask(e, l, i) = Mask(f, k, i)
      OBVIOUS
    <2>1. CASE i <= n
      <3>1. i \in 1..n /\ ~(i > n) /\ ~(i > n + 1)
        BY <1>1, <2>1
      <3> QED BY <1>1, <1>2, <3>1 DEF Mask, n
    <2>2. CASE i = n + 1
      <3>1. i > n /\ ~(i > n + 1)
        BY <1>1, <2>2
      <3> QED BY <1>1, <2>2, <3>1 DEF Mask, n, k
    <2>3. i <= n \/ i = n + 1
      BY <1>1
    <2> QED BY <2>1, <2>2, <2>3
  <1>5. Mask(e, l, n + 1) = k /\ Mask(e, l, (n + 1) + 1) = l
    <2>1. ~(n + 1 > n + 1) /\ (n + 1) + 1 > n + 1
      BY <1>1
    <2> QED BY <1>1, <2>1 DEF Mask, k
  <1>6. ASSUME NEW i \in 1..(n + 1)
        PROVE  /\ Mask(e, l, i) <= Mask(e, l, i + 1)
               /\ e[i].vector = "interrupt" => Mask(e, l, i) < Mask(e, l, i + 1) \/ Mask(e, l, i + 1) = 7
    <2>1. CASE i <= n
      <3>1. i \in 1..n /\ i + 1 \in 1..(n + 1) /\ i \in 1..(n + 1)
        BY <1>1, <2>1
      <3>2. Mask(e, l, i) = Mask(f, k, i) /\ Mask(e, l, i + 1) = Mask(f, k, i + 1) /\ e[i] = f[i]
        BY <1>2, <1>4, <3>1
      <3> QED BY <1>3, <3>1, <3>2 DEF Masks, n
    <2>2. CASE i = n + 1
      <3>1. Mask(e, l, i) = k /\ Mask(e, l, i + 1) = l /\ e[i] = g
        BY <1>1, <1>5, <2>2
      <3> QED BY <3>1 DEF Raises, k
    <2>3. i <= n \/ i = n + 1
      BY <1>1
    <2> QED BY <2>1, <2>2, <2>3
  <1> QED BY <1>1, <1>6 DEF Masks, e

\* A return restores the mask below.
LEMMA MasksPop ==
  ASSUME NEW f \in Seq(FrameType), f # <<>>, NEW l, Masks(f, l)
  PROVE  Masks(Front(f), Last(f).sr.ipl)
  <1> DEFINE e == Front(f)  n == Len(f)  k == Last(f).sr.ipl
  <1>1. n \in Nat \ {0} /\ Last(f) = f[n] /\ Len(e) = n - 1
    BY FrontFrame
  <1>2. \A i \in 1..(n - 1) : e[i] = f[i]
    BY FrontFrame
  <1> HIDE DEF e, n, k
  <1>3. \A i \in 1..n : Mask(e, k, i) = Mask(f, l, i)
    <2> SUFFICES ASSUME NEW i \in 1..n PROVE Mask(e, k, i) = Mask(f, l, i)
      OBVIOUS
    <2>1. CASE i = n
      <3>1. i > n - 1 /\ ~(i > n)
        BY <1>1, <2>1
      <3> QED BY <1>1, <2>1, <3>1 DEF Mask, n, k
    <2>2. CASE i # n
      <3>1. i \in 1..(n - 1) /\ ~(i > n - 1) /\ ~(i > n)
        BY <1>1, <2>2
      <3> QED BY <1>1, <1>2, <3>1 DEF Mask, n
    <2> QED BY <2>1, <2>2
  <1>4. ASSUME NEW i \in 1..(n - 1)
        PROVE  /\ Mask(e, k, i) <= Mask(e, k, i + 1)
               /\ e[i].vector = "interrupt" => Mask(e, k, i) < Mask(e, k, i + 1) \/ Mask(e, k, i + 1) = 7
    <2>1. i \in 1..n /\ i + 1 \in 1..n
      BY <1>1
    <2>2. Mask(e, k, i) = Mask(f, l, i) /\ Mask(e, k, i + 1) = Mask(f, l, i + 1) /\ e[i] = f[i]
      BY <1>2, <1>3, <2>1
    <2> QED BY <2>1, <2>2 DEF Masks, n
  <1> QED BY <1>1, <1>4 DEF Masks, e, k

\* Nor does an edit change it.
LEMMA MasksEdit ==
  ASSUME NEW f \in Seq(FrameType), f # <<>>, NEW g \in FrameType, NEW l, Masks(f, l),
         g.sr = Last(f).sr, g.vector = Last(f).vector
  PROVE  Masks(Append(Front(f), g), l)
  <1> DEFINE e == Append(Front(f), g)  n == Len(f)
  <1>1. Len(e) = n /\ n \in Nat \ {0} /\ e[n] = g
    BY EditFrame
  <1>2. \A i \in 1..(n - 1) : e[i] = f[i]
    BY EditFrame
  <1>3. Last(f) = f[n]
    BY FrontFrame
  <1> HIDE DEF e, n
  <1>4. \A i \in 1..n : e[i].sr = f[i].sr /\ e[i].vector = f[i].vector
    <2> SUFFICES ASSUME NEW i \in 1..n PROVE e[i].sr = f[i].sr /\ e[i].vector = f[i].vector
      OBVIOUS
    <2>1. CASE i = n
      BY <1>1, <1>3, <2>1
    <2>2. CASE i # n
      <3>1. i \in 1..(n - 1)
        BY <1>1, <2>2
      <3> QED BY <1>2, <3>1
    <2> QED BY <2>1, <2>2
  <1>5. \A i \in 1..(n + 1) : Mask(e, l, i) = Mask(f, l, i)
    <2> SUFFICES ASSUME NEW i \in 1..(n + 1) PROVE Mask(e, l, i) = Mask(f, l, i)
      OBVIOUS
    <2>1. i > n \/ i \in 1..n
      BY <1>1
    <2> QED BY <1>1, <1>4, <2>1 DEF Mask, n
  <1>6. ASSUME NEW i \in 1..n
        PROVE  /\ Mask(e, l, i) <= Mask(e, l, i + 1)
               /\ e[i].vector = "interrupt" => Mask(e, l, i) < Mask(e, l, i + 1) \/ Mask(e, l, i + 1) = 7
    <2>1. i \in 1..(n + 1) /\ i + 1 \in 1..(n + 1)
      BY <1>1
    <2>2. Mask(e, l, i) = Mask(f, l, i) /\ Mask(e, l, i + 1) = Mask(f, l, i + 1)
          /\ e[i].vector = f[i].vector
      BY <1>4, <1>5, <2>1
    <2> QED BY <2>2 DEF Masks, n
  <1> QED BY <1>1, <1>6 DEF Masks, e

-----------------------------------------------------------------------------
(* What Main is told of a chain depends on its first frame alone.          *)

\* The status of a handler.
Supervising(t) == t \in Status /\ t.s /\ ~t.t

\* What is stacked on a handler is one that supervised.
LEMMA SupervisesPush ==
  ASSUME NEW f \in Seq(FrameType), NEW g \in FrameType, NEW s, Supervises(f, s), f # <<>> => g.sr = s,
         NEW t, Supervising(t)
  PROVE  Supervises(Append(f, g), t)
  <1> DEFINE e == Append(f, g)  n == Len(f)
  <1>1. n \in Nat /\ Len(e) = n + 1 /\ e[n + 1] = g /\ e # <<>>
    BY AppendFrame
  <1>2. \A i \in 1..n : e[i] = f[i]
    BY AppendFrame
  <1>3. f = <<>> <=> n = 0
    BY AppendFrame
  <1> HIDE DEF e, n
  <1>4. ASSUME NEW i \in 2..(n + 1) PROVE e[i].sr.s /\ ~e[i].sr.t
    <2>1. CASE i <= n
      <3>1. i \in 1..n /\ i \in 2..n
        BY <1>1, <2>1
      <3>2. e[i] = f[i]
        BY <1>2, <3>1
      <3>3. f[i].sr.s /\ ~f[i].sr.t
        BY <3>1 DEF Supervises, n
      <3> QED BY <3>2, <3>3
    <2>2. CASE i = n + 1
      <3>1. n # 0
        BY <1>1, <2>2
      <3>2. f # <<>>
        BY <1>3, <3>1
      <3>3. s.s /\ ~s.t /\ g.sr = s
        BY <3>2 DEF Supervises
      <3> QED BY <1>1, <2>2, <3>3
    <2>3. i <= n \/ i = n + 1
      BY <1>1
    <2> QED BY <2>1, <2>2, <2>3
  <1>5. t.s /\ ~t.t
    BY DEF Supervising
  <1> QED BY <1>1, <1>4, <1>5 DEF Supervises, e

\* A return to a handler is to one that supervised.
LEMMA SupervisesPop ==
  ASSUME NEW f \in Seq(FrameType), f # <<>>, NEW s, Supervises(f, s)
  PROVE  Supervises(Front(f), Last(f).sr)
  <1> DEFINE e == Front(f)  n == Len(f)
  <1>1. n \in Nat \ {0} /\ Last(f) = f[n] /\ Len(e) = n - 1
    BY FrontFrame
  <1>2. \A i \in 1..(n - 1) : e[i] = f[i]
    BY FrontFrame
  <1>3. e = <<>> <=> n = 1
    BY FrontFrame
  <1> HIDE DEF e, n
  <1>4. \A i \in 2..n : f[i].sr.s /\ ~f[i].sr.t
    BY DEF Supervises, n
  <1>5. e # <<>> => f[n].sr.s /\ ~f[n].sr.t
    <2>1. e # <<>> => n \in 2..n
      BY <1>1, <1>3
    <2> QED BY <1>4, <2>1
  <1>6. \A i \in 2..(n - 1) : e[i].sr.s /\ ~e[i].sr.t
    <2> SUFFICES ASSUME NEW i \in 2..(n - 1) PROVE e[i].sr.s /\ ~e[i].sr.t
      OBVIOUS
    <2>1. i \in 1..(n - 1) /\ i \in 2..n
      BY <1>1
    <2> QED BY <1>2, <1>4, <2>1
  <1> QED BY <1>1, <1>5, <1>6 DEF Supervises, e

\* An edit leaves the stacked status alone.
LEMMA SupervisesEdit ==
  ASSUME NEW f \in Seq(FrameType), f # <<>>, NEW g \in FrameType, g.sr = Last(f).sr,
         NEW s, Supervises(f, s)
  PROVE  Supervises(Append(Front(f), g), s)
  <1> DEFINE e == Append(Front(f), g)  n == Len(f)
  <1>1. Len(e) = n /\ n \in Nat \ {0} /\ e[n] = g
    BY EditFrame
  <1>2. \A i \in 1..(n - 1) : e[i] = f[i]
    BY EditFrame
  <1>3. Last(f) = f[n]
    BY FrontFrame
  <1> HIDE DEF e, n
  <1>4. \A i \in 2..n : f[i].sr.s /\ ~f[i].sr.t
    BY DEF Supervises, n
  <1>5. \A i \in 2..n : e[i].sr = f[i].sr
    <2> SUFFICES ASSUME NEW i \in 2..n PROVE e[i].sr = f[i].sr
      OBVIOUS
    <2>1. CASE i = n
      BY <1>1, <1>3, <2>1
    <2>2. CASE i # n
      <3>1. i \in 1..(n - 1)
        BY <1>1, <2>2
      <3> QED BY <1>2, <3>1
    <2> QED BY <2>1, <2>2
  <1>6. s.s /\ ~s.t
    BY DEF Supervises
  <1> QED BY <1>1, <1>4, <1>5, <1>6 DEF Supervises, e

\* Where Main goes on, its status, and what it is made to skip.
LEMMA SameView ==
  ASSUME NEW f, NEW e, f # <<>>, e # <<>>, e[1] = f[1], NEW p, NEW q, NEW s, NEW t
  PROVE  Where(e, q) = Where(f, p) /\ ModeOf(e, t) = ModeOf(f, s) /\ (Skips(e) <=> Skips(f))
  BY DEF Where, ModeOf, Skips

\* The handler of Main's frame is interrupted...
LEMMA MainFramePush ==
  ASSUME NEW f \in Seq(FrameType), f # <<>>, NEW g \in FrameType, NEW p, MainFrame(f, p),
         Stackable(f, g, p), g.pc.word = 0 => p.word = 0, NEW q
  PROVE  MainFrame(Append(f, g), q)
  <1> DEFINE e == Append(f, g)  n == Len(f)
  <1>1. n \in Nat /\ Len(e) = n + 1 /\ e[n + 1] = g
    BY AppendFrame
  <1>2. \A i \in 1..n : e[i] = f[i]
    BY AppendFrame
  <1>3. n # 0
    BY AppendFrame
  <1> HIDE DEF e, n
  <1>4. e[1] = f[1]
    <2>1. 1 \in 1..n
      BY <1>1, <1>3
    <2> QED BY <1>2, <2>1
  <1>5. ReturnPc(g) = g.pc
    BY DEF Stackable, ReturnPc
  <1>6. HandlerAt(e, q).word = 0 => HandlerAt(f, p).word = 0
    <2>1. HandlerAt(e, q) = ReturnPc(e[2])
      <3>1. Len(e) # 1
        BY <1>1, <1>3
      <3> QED BY <3>1 DEF HandlerAt
    <2>2. CASE n = 1
      BY <1>1, <1>5, <2>1, <2>2 DEF HandlerAt, n
    <2>3. CASE n # 1
      <3>1. 2 \in 1..n
        BY <1>1, <1>3, <2>3
      <3>2. e[2] = f[2]
        BY <1>2, <3>1
      <3> QED BY <2>1, <2>3, <3>2 DEF HandlerAt, n
    <2> QED BY <2>2, <2>3
  <1> QED BY <1>4, <1>6 DEF MainFrame, e

\* ...and returned to...
LEMMA MainFramePop ==
  ASSUME NEW f \in Seq(FrameType), Len(f) > 1, NEW p, MainFrame(f, p)
  PROVE  MainFrame(Front(f), ReturnPc(Last(f))) /\ Front(f)[1] = f[1] /\ Front(f) # <<>>
  <1> DEFINE e == Front(f)  n == Len(f)  q == ReturnPc(Last(f))
  <1>0. f # <<>>
    OBVIOUS
  <1>1. n \in Nat \ {0} /\ Last(f) = f[n] /\ Len(e) = n - 1 /\ n > 1
    BY <1>0, FrontFrame
  <1>2. \A i \in 1..(n - 1) : e[i] = f[i]
    BY <1>0, FrontFrame
  <1>3. e = <<>> <=> n = 1
    BY <1>0, FrontFrame
  <1> HIDE DEF e, n, q
  <1>4. e[1] = f[1] /\ e # <<>>
    <2>1. 1 \in 1..(n - 1) /\ n # 1
      BY <1>1
    <2> QED BY <1>2, <1>3, <2>1
  <1>5. HandlerAt(e, q) = HandlerAt(f, p)
    <2>1. HandlerAt(f, p) = ReturnPc(f[2])
      BY <1>1 DEF HandlerAt, n
    <2>2. CASE n = 2
      BY <1>1, <2>1, <2>2 DEF HandlerAt, q
    <2>3. CASE n # 2
      <3>1. 2 \in 1..(n - 1) /\ Len(e) # 1
        BY <1>1, <2>3
      <3> QED BY <1>2, <2>1, <3>1 DEF HandlerAt
    <2> QED BY <2>2, <2>3
  <1>6. MainFrame(e, q)
    BY <1>0, <1>4, <1>5 DEF MainFrame
  <1> QED BY <1>4, <1>6 DEF e, q

\* ...and has its own frames edited.
LEMMA MainFrameEdit ==
  ASSUME NEW f \in Seq(FrameType), Len(f) > 1, NEW p, MainFrame(f, p), NEW g \in FrameType,
         ReturnPc(g).word > 0, NEW q
  PROVE  LET e == Append(Front(f), g) IN MainFrame(e, q) /\ e[1] = f[1] /\ e # <<>>
  <1> DEFINE e == Append(Front(f), g)  n == Len(f)
  <1>0. f # <<>>
    OBVIOUS
  <1>1. Len(e) = n /\ n \in Nat \ {0} /\ e[n] = g /\ e # <<>> /\ n > 1
    BY <1>0, EditFrame
  <1>2. \A i \in 1..(n - 1) : e[i] = f[i]
    BY <1>0, EditFrame
  <1> HIDE DEF e, n
  <1>3. e[1] = f[1]
    <2>1. 1 \in 1..(n - 1)
      BY <1>1
    <2> QED BY <1>2, <2>1
  <1>4. HandlerAt(e, q).word = 0 => HandlerAt(f, p).word = 0
    <2>1. HandlerAt(f, p) = ReturnPc(f[2]) /\ HandlerAt(e, q) = ReturnPc(e[2])
      <3>1. Len(f) # 1 /\ Len(e) # 1
        BY <1>1 DEF n
      <3> QED BY <3>1, Zenon DEF HandlerAt
    <2>2. CASE n = 2
      <3>1. ~(ReturnPc(e[2]).word = 0)
        BY <1>1, <2>2
      <3> QED BY <2>1, <3>1
    <2>3. CASE n # 2
      <3>1. 2 \in 1..(n - 1)
        BY <1>1, <2>3
      <3> QED BY <1>2, <2>1, <3>1
    <2> QED BY <2>2, <2>3
  <1>5. MainFrame(e, q)
    BY <1>0, <1>3, <1>4 DEF MainFrame
  <1> QED BY <1>1, <1>3, <1>5 DEF e

-----------------------------------------------------------------------------
(* Steps while a handler runs.                                             *)

\* Exceptions are stacked by the supervisor.
LEMMA PushStacks ==
  ASSUME MachineTypeOK, NEW m, NEW main, Stacked(m, main, sr, a7, spOther),
         NEW g \in FrameType, Push(g)
  PROVE  /\ Frames' = Append(Frames, g) /\ Frames \in Seq(FrameType)
         /\ stacks' \in [{"ssp", "usp"} -> Seq(FrameType)] /\ stacks'["usp"] = <<>>
  <1>1. sr.s \in BOOLEAN
    BY DEF MachineTypeOK, Status
  <1>2. ActiveStack(TRUE) = "ssp"
    BY <1>1 DEF ActiveStack, Stacked
  <1>3. stacks' = [stacks EXCEPT !["ssp"] = Append(stacks["ssp"], g)]
    BY <1>2 DEF Push
  <1>4. stacks \in [{"ssp", "usp"} -> Seq(FrameType)] /\ stacks["usp"] = <<>>
    BY DEF MachineTypeOK
  <1>5. stacks["ssp"] \in Seq(FrameType)
    BY <1>4
  <1>6. Append(stacks["ssp"], g) \in Seq(FrameType)
    BY <1>5
  <1> QED BY <1>3, <1>4, <1>5, <1>6 DEF Frames

\* A handler starts at its first word.
LEMMA HandlerPlace ==
  ASSUME NEW v \in Vector
  PROVE  Handler(v) \in Place /\ Handler(v).in = v /\ Handler(v).word = 0
  BY CodeAssumption DEF Handler, Place

\* An exception switches to supervisor, and the acknowledged level masks.
AsSupervisor(r) == [r EXCEPT !.s = TRUE, !.t = FALSE]
AtLevel(r, l) == [r EXCEPT !.ipl = l]

\* The status an exception and an acknowledged level leave.
LEMMA StatusTaken ==
  ASSUME NEW r \in Status, NEW l \in 0..7
  PROVE  /\ Supervising(AsSupervisor(r)) /\ AsSupervisor(r).ipl = r.ipl /\ r.ipl \in 0..7
         /\ Supervising(r) => AsSupervisor(r) = r /\ Supervising(AtLevel(r, l))
         /\ AtLevel(r, l).ipl = l
  <1>1. Supervising(AsSupervisor(r)) /\ AsSupervisor(r).ipl = r.ipl /\ r.ipl \in 0..7
    BY DEF Status, Supervising, AsSupervisor
  <1>2. AtLevel(r, l) \in Status /\ AtLevel(r, l).ipl = l /\ AtLevel(r, l).s = r.s /\ AtLevel(r, l).t = r.t
    BY DEF Status, AtLevel
  <1>3. Supervising(r) => AsSupervisor(r) = r
    BY DEF Status, Supervising, AsSupervisor
  <1> QED BY <1>1, <1>2, <1>3, Zenon DEF Supervising

\* While a handler runs the CPU is supervisor and its user stack is named or
\* Main has done nothing.
LEMMA InHandler ==
  ASSUME IInv, Frames # <<>>
  PROVE  Supervising(sr) /\ sr.ipl \in 0..7 /\ a7 = "ssp" /\ Supervised = sr
  <1>1. sr.s /\ ~sr.t
    BY DEF IInv, Good, Supervises
  <1>2. sr \in Status
    BY DEF IInv, MachineTypeOK
  <1>3. Supervising(sr) /\ sr.ipl \in 0..7
    BY <1>1, <1>2 DEF Status, Supervising
  <1>4. a7 = "ssp"
    BY <1>1 DEF IInv, Good, Stacked
  <1>5. Supervised = sr
    <2>1. AsSupervisor(sr) = sr
      BY <1>2, <1>3, StatusTaken
    <2> QED BY <2>1 DEF Supervised, AsSupervisor
  <1> QED BY <1>3, <1>4, <1>5

\* Main is not told of what is above its frame.
LEMMA HandlerView ==
  ASSUME IInv, Frames # <<>>, NEW e \in Seq(FrameType), e # <<>>, e[1] = Frames[1],
         NEW q \in Place, NEW t, Supervising(t), Nested(e, q), Masks(e, t.ipl), MainFrame(e, q),
         Supervises(e, t)
  PROVE  Good(e, t, q, a7, spOther, data, history)
  <1>1. /\ Where(e, q) = Where(Frames, pc) /\ ModeOf(e, t) = ModeOf(Frames, sr)
        /\ (Skips(e) <=> Skips(Frames))
    BY SameView
  <1>2. sr.s /\ t.s
    BY InHandler DEF Supervising
  <1>3. Counts(Where(e, q), Skips(e), data, history)
    BY <1>1 DEF IInv, Good, Counts
  <1>4. Stacked(Where(e, q), ModeOf(e, t), t, a7, spOther)
    BY <1>1, <1>2 DEF IInv, Good, Stacked
  <1> QED BY <1>2, <1>3, <1>4 DEF Good

\* What is not of the chain.
Unchained ==
    /\ stopped' \in BOOLEAN /\ pendingIpl' \in 0..7
    /\ stacks' \in [{"ssp", "usp"} -> Seq(FrameType)] /\ stacks'["usp"] = <<>>

\* A step of a handler that leaves Main's frame alone keeps the invariant.
LEMMA HandlerStep ==
  ASSUME IInv, Frames # <<>>, Unchained, Supervising(sr'),
         UNCHANGED <<a7, spOther, data, history>>, pc' \in Place,
         Frames' # <<>>, Frames'[1] = Frames[1],
         Nested(Frames', pc'), Masks(Frames', sr'.ipl), MainFrame(Frames', pc'), Supervises(Frames', sr')
  PROVE  IInv'
  <1>1. Frames' \in Seq(FrameType)
    BY DEF Unchained, Frames
  <1>2. Good(Frames', sr', pc', a7', spOther', data', history')
    BY <1>1, HandlerView
  <1>3. MachineTypeOK'
    <2>1. sr' \in Status
      BY DEF Supervising
    <2> QED BY <2>1 DEF Unchained, IInv, MachineTypeOK
  <1>4. Good(Frames, sr, pc, a7, spOther, data, history)'
    BY <1>2
  <1> QED BY <1>3, <1>4 DEF IInv

\* A handler goes on to its next instruction.
LEMMA HandlerGoesOn ==
  ASSUME IInv, Frames # <<>>, UNCHANGED <<sr, a7, spOther, stacks, data, history>>,
         stopped' \in BOOLEAN, pendingIpl' \in 0..7,
         pc' \in Place, pc'.in = pc.in, pc'.word = 0 => pc.word = 0
  PROVE  IInv'
  <1>1. Frames' = Frames
    BY DEF Frames
  <1>2. Unchained
    BY DEF IInv, MachineTypeOK, Unchained
  <1>3. Supervising(sr')
    BY InHandler
  <1>4. Nested(Frames, pc')
    BY DEF IInv, Good, Nested
  <1>5. MainFrame(Frames, pc')
    <2>1. MainFrame(Frames, pc)
      BY DEF IInv, Good
    <2>2. HandlerAt(Frames, pc').word = 0 => HandlerAt(Frames, pc).word = 0
      BY DEF HandlerAt
    <2> QED BY <2>1, <2>2 DEF MainFrame
  <1>6. Masks(Frames, sr.ipl) /\ Supervises(Frames, sr)
    BY DEF IInv, Good
  <1> QED BY <1>1, <1>2, <1>3, <1>4, <1>5, <1>6, HandlerStep

\* A handler is interrupted.
LEMMA HandlerPush ==
  ASSUME IInv, Frames # <<>>, NEW g \in FrameType, g.vector \in Vector, Stackable(Frames, g, pc), g.sr = sr,
         g.pc.word = 0 => pc.word = 0, NEW l \in 0..7, Raises(g, l),
         sr' = [sr EXCEPT !.ipl = l], SwapFor(TRUE), Push(g), pc' = Handler(g.vector),
         UNCHANGED <<data, history>>, stopped' \in BOOLEAN, pendingIpl' \in 0..7
  PROVE  IInv'
  <1>1. Supervising(sr) /\ sr.s /\ Supervised = sr
    BY InHandler DEF Supervising
  <1>2. Supervising(sr') /\ sr'.ipl = l
    <2>1. sr \in Status /\ sr' = AtLevel(sr, l)
      BY <1>1 DEF Supervising, AtLevel
    <2> QED BY <1>1, <2>1, StatusTaken
  <1>3. UNCHANGED <<a7, spOther>>
    BY <1>1 DEF SwapFor
  <1>4. /\ Frames' = Append(Frames, g) /\ Frames \in Seq(FrameType)
        /\ stacks' \in [{"ssp", "usp"} -> Seq(FrameType)] /\ stacks'["usp"] = <<>>
    BY PushStacks DEF IInv, Good
  <1>5. pc' \in Place /\ pc'.in = g.vector
    BY HandlerPlace
  <1> DEFINE f == Frames
  <1>6. Nested(f, pc) /\ Masks(f, g.sr.ipl) /\ Supervises(f, sr) /\ MainFrame(f, pc)
    BY DEF IInv, Good
  <1>7. Nested(Append(f, g), pc')
    BY <1>4, <1>5, <1>6, NestedPush
  <1>8. Masks(Append(f, g), l)
    BY <1>4, <1>6, MasksPush
  <1>9. Supervises(Append(f, g), sr')
    BY <1>2, <1>4, <1>6, SupervisesPush
  <1>10. MainFrame(Append(f, g), pc')
    BY <1>4, <1>6, MainFramePush
  <1>11. Append(f, g) # <<>> /\ Append(f, g)[1] = f[1]
    <2>1. 1 \in 1..Len(f)
      BY <1>4, AppendFrame
    <2> QED BY <1>4, <2>1, AppendFrame
  <1>12. Unchained
    BY <1>4 DEF Unchained
  <1> HIDE DEF f
  <1> QED BY <1>2, <1>3, <1>4, <1>5, <1>7, <1>8, <1>9, <1>10, <1>11, <1>12, HandlerStep DEF f

-----------------------------------------------------------------------------
(* Steps of Main itself.                                                   *)

\* Main may swap its stacks.
Named == sr.s => spOther = "usp"

\* Main runs when no frame is stacked.
LEMMA MainRuns ==
  ASSUME IInv, Frames = <<>>
  PROVE  /\ pc.in = Main /\ pc \in Place /\ pc.word \in Starts /\ sr \in Status /\ InMain = 1
         /\ Counts(pc, FALSE, data, history) /\ Stacked(pc, sr, sr, a7, spOther)
         /\ pc.word # 0 => Named
         /\ ~sr.s => Named
  <1>1. Where(Frames, pc) = pc /\ ModeOf(Frames, sr) = sr /\ Skips(Frames) = FALSE
    BY DEF Where, ModeOf, Skips
  <1>2. Counts(pc, FALSE, data, history) /\ Stacked(pc, sr, sr, a7, spOther)
    BY <1>1 DEF IInv, Good, Counts
  <1>3. pc.in = Main /\ pc.word \in Starts
    BY <1>2 DEF Counts
  <1>4. pc \in Place /\ sr \in Status /\ InMain = 1
    BY <1>3 DEF IInv, MachineTypeOK, InMain
  <1>5. (pc.word # 0 => Named) /\ (~sr.s => Named)
    BY <1>2 DEF Stacked, Named
  <1> QED BY <1>2, <1>3, <1>4, <1>5

\* Main's instruction, and where it goes on behind it.
LEMMA MainAt ==
  ASSUME IInv, Frames = <<>>, NEW op, At(op)
  PROVE  /\ OpAt(pc.word) = op /\ Instruction(pc) = Code[Main][pc.word] /\ pc.word \in Nat
         /\ op # "move usp" => Named
  <1>1. pc.in = Main /\ pc.word \in Starts /\ (pc.word # 0 => Named)
    BY MainRuns
  <1>2. Instruction(pc) = Code[Main][pc.word] /\ OpAt(pc.word) = op
    BY <1>1 DEF Instruction, OpAt, At
  <1>3. op # "move usp" => pc.word # 0
    BY <1>2, MainAssumption DEF OpAt
  <1> QED BY <1>1, <1>2, <1>3, StartsAreNat

\* Behind an instruction of Main one more is done.
LEMMA MainFollowing ==
  ASSUME IInv, Frames = <<>>, NEW op, At(op), op # "branch"
  PROVE  /\ Following \in Place /\ Following.in = Main /\ Following.word \in Starts
         /\ Following.word > pc.word /\ Following.word = pc.word + Code[Main][pc.word].words
         /\ Cardinality(Before(Following.word)) = history.retired + 1
         /\ Effects(Following.word) = data + history.skipped + (IF op \in EffectOps THEN 1 ELSE 0)
  <1>1. OpAt(pc.word) = op /\ Instruction(pc) = Code[Main][pc.word]
    BY MainAt
  <1>2. pc.in = Main /\ pc \in Place /\ pc.word \in Starts /\ Counts(pc, FALSE, data, history)
    BY MainRuns
  <1> DEFINE n == pc.word + Code[Main][pc.word].words
  <1>3. /\ n \in Starts /\ n \in Nat /\ n > pc.word
        /\ Cardinality(Before(n)) = Cardinality(Before(pc.word)) + 1
        /\ Effects(n) = Effects(pc.word) + (IF op \in EffectOps THEN 1 ELSE 0)
    BY <1>1, <1>2, NextStart
  <1>4. Following.word = n /\ Following.in = Main /\ Following \in Place
    BY <1>1, <1>2, <1>3, CodeAssumption DEF Following, After, Place
  <1> HIDE DEF n
  <1>5. history.retired \in Nat /\ history.skipped \in Nat /\ data \in Nat
    BY DEF IInv, MachineTypeOK, History
  <1>6. Cardinality(Before(n)) = history.retired + 1
    BY <1>2, <1>3, <1>5 DEF Counts
  <1>7. Effects(n) = data + history.skipped + (IF op \in EffectOps THEN 1 ELSE 0)
    BY <1>2, <1>3, <1>5 DEF Counts
  <1> QED BY <1>3, <1>4, <1>6, <1>7 DEF n

\* A user has left supervisor mode behind it.
Left(main, word) == ~main.s => \E v \in LeavesSupervisor : v < word

\* Main has left supervisor mode behind wherever it goes on from there.
LEMMA LeftFurther ==
  ASSUME NEW main, NEW w \in Nat, NEW u \in Nat, w < u, Left(main, w)
  PROVE  Left(main, u)
  <1>1. SUFFICES ASSUME ~main.s PROVE \E v \in LeavesSupervisor : v < u
    BY DEF Left
  <1>2. PICK v \in LeavesSupervisor : v < w
    BY <1>1 DEF Left
  <1>3. v \in Nat
    BY StartsAreNat DEF LeavesSupervisor
  <1> QED BY <1>2, <1>3

\* The stack pointers after a swap, where the user stack has a name...
LEMMA NamedSwaps ==
  ASSUME IInv, Frames = <<>>, Named, NEW n \in Status, SwapFor(n.s), NEW main \in Status, NEW m,
         Left(main, m.word)
  PROVE  Stacked(m, main, n, a7', spOther') /\ a7' \in {"ssp", "usp"} /\ spOther' \in {"ssp", "usp"}
  <1>1. Stacked(pc, sr, sr, a7, spOther) /\ sr.s \in BOOLEAN /\ n.s \in BOOLEAN
    BY MainRuns DEF Status
  <1>2. /\ a7 = IF sr.s THEN "ssp" ELSE "usp"
        /\ spOther = IF sr.s THEN "usp" ELSE "ssp"
    BY <1>1 DEF Stacked, Named
  <1>3. /\ a7' = IF n.s THEN "ssp" ELSE "usp"
        /\ spOther' = IF n.s THEN "usp" ELSE "ssp"
    <2>1. CASE n.s = sr.s
      BY <1>2, <2>1 DEF SwapFor
    <2>2. CASE n.s # sr.s
      BY <1>1, <1>2, <2>2 DEF SwapFor
    <2> QED BY <2>1, <2>2
  <1> QED BY <1>1, <1>3 DEF Stacked, Left

\* ...and where Main is interrupted before it names it.
LEMMA InterruptedSwaps ==
  ASSUME IInv, Frames = <<>>, NEW n \in Status, n.s, SwapFor(n.s)
  PROVE  Stacked(pc, sr, n, a7', spOther') /\ a7' \in {"ssp", "usp"} /\ spOther' \in {"ssp", "usp"}
  <1>1. Stacked(pc, sr, sr, a7, spOther) /\ sr \in Status
    BY MainRuns
  <1>2. CASE Named
    <2>1. Left(sr, pc.word)
      BY <1>1 DEF Left, Stacked
    <2> QED BY <1>1, <1>2, <2>1, NamedSwaps
  <1>3. CASE ~Named
    <2>1. sr.s
      BY <1>3 DEF Named
    <2>2. UNCHANGED <<a7, spOther>>
      BY <2>1 DEF SwapFor
    <2> QED BY <1>1, <2>1, <2>2 DEF Stacked, IInv, MachineTypeOK
  <1> QED BY <1>2, <1>3

\* What a step of Main leaves of the state's parts that are not of the chain.
Kept ==
    /\ stopped' \in BOOLEAN /\ pendingIpl' \in 0..7 /\ data' \in Nat /\ history' \in History
    /\ a7' \in {"ssp", "usp"} /\ spOther' \in {"ssp", "usp"}

\* Main goes on at its next instruction.
LEMMA MainProceeds ==
  ASSUME IInv, Frames = <<>>, Kept, UNCHANGED stacks, pc' \in Place, sr' \in Status,
         Counts(pc', FALSE, data', history'), Stacked(pc', sr', sr', a7', spOther')
  PROVE  IInv'
  <1>1. Frames' = <<>>
    BY DEF Frames
  <1>2. MachineTypeOK'
    BY DEF IInv, MachineTypeOK, Kept
  <1>3. /\ Where(<<>>, pc') = pc' /\ ModeOf(<<>>, sr') = sr' /\ Skips(<<>>) = FALSE
    BY DEF Where, ModeOf, Skips
  <1>4. pc'.in = Main
    BY DEF Counts
  <1>5. Len(<<>>) = 0
    OBVIOUS
  <1>6. Nested(<<>>, pc') /\ Supervises(<<>>, sr') /\ Masks(<<>>, sr'.ipl) /\ MainFrame(<<>>, pc')
    BY <1>4, <1>5 DEF Nested, Supervises, Masks, MainFrame
  <1>7. Good(<<>>, sr', pc', a7', spOther', data', history')
    BY <1>3, <1>6 DEF Good
  <1>8. Good(Frames, sr, pc, a7, spOther, data, history)'
    BY <1>1, <1>7
  <1> QED BY <1>2, <1>8 DEF IInv

\* A frame of Main is one of an access that faulted or of what it was refused.
MainStacks(g) ==
    /\ g.long => OpAt(g.pc.word) = "access" /\ g.resume.word = g.pc.word + Code[Main][g.pc.word].words
    /\ g.vector \in {"illegal", "privilege"}
         => OpAt(g.pc.word) \in Refused /\ (g.sr.s => OpAt(g.pc.word) = "illegal")

\* Main is interrupted.
LEMMA MainPush ==
  ASSUME IInv, Frames = <<>>, Kept, NEW g \in FrameType, Stackable(<<>>, g, pc), MainStacks(g),
         Supervising(sr'), Raises(g, sr'.ipl), Push(g), pc' = Handler(g.vector),
         Counts(g.pc, FALSE, data', history'), Stacked(g.pc, g.sr, sr', a7', spOther')
  PROVE  IInv'
  <1>1. pc.in = Main /\ Stacked(pc, sr, sr, a7, spOther)
    BY MainRuns
  <1>2. /\ Frames' = Append(<<>>, g)
        /\ stacks' \in [{"ssp", "usp"} -> Seq(FrameType)] /\ stacks'["usp"] = <<>>
    BY <1>1, PushStacks DEF IInv
  <1>3. g.vector \in Vector
    BY DEF FrameType
  <1>4. pc' \in Place /\ pc'.in = g.vector
    BY <1>3, HandlerPlace
  <1>5. MachineTypeOK'
    BY <1>2, <1>4 DEF Supervising, MachineTypeOK, Kept
  <1> DEFINE e == Append(<<>>, g)
  <1>6. e # <<>> /\ Len(e) = 1 /\ e[1] = g /\ <<>> \in Seq(FrameType) /\ Len(<<>>) = 0
    OBVIOUS
  <1>7. Nested(<<>>, pc) /\ Supervises(<<>>, sr) /\ Masks(<<>>, g.sr.ipl)
    BY <1>1, <1>6 DEF Nested, Supervises, Masks
  <1>8. Nested(e, pc') /\ Masks(e, sr'.ipl) /\ Supervises(e, sr')
    BY <1>4, <1>6, <1>7, NestedPush, MasksPush, SupervisesPush
  <1> HIDE DEF e
  <1>9. ReturnPc(g) = g.pc /\ ~(g.long /\ g.rr)
    BY DEF Stackable, ReturnPc
  <1>10. Where(e, pc') = g.pc /\ ModeOf(e, sr') = g.sr /\ Skips(e) = FALSE
    BY <1>6, <1>9 DEF Where, ModeOf, Skips
  <1>11. MainFrame(e, pc')
    <2>1. g.pc.word \in Starts
      BY DEF Counts
    <2> QED BY <1>6, <2>1 DEF MainFrame, MainStacks
  <1>12. Good(e, sr', pc', a7', spOther', data', history')
    BY <1>8, <1>10, <1>11 DEF Good
  <1>13. Good(Frames, sr, pc, a7, spOther, data, history)'
    BY <1>2, <1>12 DEF e
  <1> QED BY <1>5, <1>13 DEF IInv

\* The frames that are stacked.
LEMMA ShortFrame ==
  ASSUME NEW at \in Place, NEW v \in Vector, NEW n \in Status, sr \in Status
  PROVE  LET g == [Frame(at, v) EXCEPT !.sr = n]
         IN  /\ g \in FrameType /\ g.pc = at /\ g.vector = v /\ g.sr = n /\ (n = sr => g = Frame(at, v))
             /\ \A f, p : p.in = at.in /\ (f # <<>> => v \in {"trap", "interrupt"}) => Stackable(f, g, p)
             /\ (v \in {"illegal", "privilege"}
                   => OpAt(at.word) \in Refused /\ (n.s => OpAt(at.word) = "illegal")) => MainStacks(g)
  <1> DEFINE g == [Frame(at, v) EXCEPT !.sr = n]
  <1>1. g \in FrameType /\ (n = sr => g = Frame(at, v))
    <2>1. Frame(at, v) \in FrameType /\ Frame(at, v).sr = sr
      BY DEF Frame, FrameType
    <2> QED BY <2>1 DEF FrameType
  <1>2. g.pc = at /\ g.vector = v /\ g.sr = n /\ g.long = FALSE /\ g.rr = FALSE /\ g.resume = at
    BY DEF Frame
  <1> HIDE DEF g
  <1>3. \A f, p : p.in = at.in /\ (f # <<>> => v \in {"trap", "interrupt"}) => Stackable(f, g, p)
    BY <1>2 DEF Stackable
  <1>4. (v \in {"illegal", "privilege"}
           => OpAt(at.word) \in Refused /\ (n.s => OpAt(at.word) = "illegal")) => MainStacks(g)
    BY <1>2 DEF MainStacks
  <1> QED BY <1>1, <1>2, <1>3, <1>4 DEF g

\* The short frame of exception and interrupt.
LEMMA PlainFrame ==
  ASSUME NEW at \in Place, NEW v \in Vector, sr \in Status
  PROVE  /\ Frame(at, v) \in FrameType /\ Frame(at, v).pc = at /\ Frame(at, v).vector = v /\ Frame(at, v).sr = sr
         /\ \A f, p : p.in = at.in /\ (f # <<>> => v \in {"trap", "interrupt"}) => Stackable(f, Frame(at, v), p)
         /\ (v \in {"illegal", "privilege"}
               => OpAt(at.word) \in Refused /\ (sr.s => OpAt(at.word) = "illegal")) => MainStacks(Frame(at, v))
  <1> DEFINE g == Frame(at, v)
  <1>1. g \in FrameType
    BY DEF Frame, FrameType
  <1>2. g.pc = at /\ g.vector = v /\ g.sr = sr /\ g.long = FALSE /\ g.rr = FALSE /\ g.resume = at
    BY DEF Frame
  <1> HIDE DEF g
  <1>3. \A f, p : p.in = at.in /\ (f # <<>> => v \in {"trap", "interrupt"}) => Stackable(f, g, p)
    BY <1>2 DEF Stackable
  <1>4. (v \in {"illegal", "privilege"}
           => OpAt(at.word) \in Refused /\ (sr.s => OpAt(at.word) = "illegal")) => MainStacks(g)
    BY <1>2 DEF MainStacks
  <1> QED BY <1>1, <1>2, <1>3, <1>4 DEF g

\* The long frame of a bus error.
LEMMA LongFrame ==
  ASSUME NEW resume \in Place, sr \in Status, pc \in Place, resume.in = pc.in, resume.word > 0,
         "bus error" \in Vector
  PROVE  LET g == [Frame(pc, "bus error") EXCEPT !.long = TRUE, !.resume = resume]
         IN  /\ g \in FrameType /\ g.pc = pc /\ g.vector = "bus error" /\ g.sr = sr
             /\ \A f : Stackable(f, g, pc)
             /\ OpAt(pc.word) = "access" /\ resume.word = pc.word + Code[Main][pc.word].words => MainStacks(g)
  <1> DEFINE g == [Frame(pc, "bus error") EXCEPT !.long = TRUE, !.resume = resume]
  <1>1. g \in FrameType
    <2> DEFINE v == "bus error"
    <2>0. v \in Vector
      OBVIOUS
    <2> HIDE DEF v
    <2>1. Frame(pc, v) \in FrameType
      BY <2>0 DEF Frame, FrameType
    <2> QED BY <2>1 DEF FrameType, v
  <1>2. g.pc = pc /\ g.vector = "bus error" /\ g.sr = sr /\ g.long = TRUE /\ g.rr = FALSE /\ g.resume = resume
    BY DEF Frame
  <1> HIDE DEF g
  <1>3. \A f : Stackable(f, g, pc)
    BY <1>2 DEF Stackable
  <1>4. OpAt(pc.word) = "access" /\ resume.word = pc.word + Code[Main][pc.word].words => MainStacks(g)
    BY <1>2 DEF MainStacks
  <1> QED BY <1>1, <1>2, <1>3, <1>4 DEF g

\* Main goes on, or is traced.
LEMMA MainGoesOn ==
  ASSUME IInv, Frames = <<>>, Kept, NEW to \in Place, NEW new \in Status, GoesOn(to, new),
         Counts(to, FALSE, data', history'),
         Stacked(to, new, IF sr.t THEN AsSupervisor(new) ELSE new, a7', spOther')
  PROVE  IInv'
  <1>0. sr \in Status /\ pc.in = Main /\ to.in = Main
    BY MainRuns DEF Counts
  <1>1. CASE sr.t
    <2> DEFINE g == [Frame(to, "trace") EXCEPT !.sr = new]
    <2>1. Supervising(AsSupervisor(new)) /\ AsSupervisor(new).ipl = new.ipl /\ new.ipl \in 0..7
      <3>1. 0 \in 0..7
        OBVIOUS
      <3> QED BY <3>1, StatusTaken
    <2>2. sr' = AsSupervisor(new) /\ Push(g) /\ pc' = Handler("trace")
      BY <1>1 DEF GoesOn, AsSupervisor
    <2>3. /\ g \in FrameType /\ g.pc = to /\ g.vector = "trace" /\ g.sr = new
          /\ Stackable(<<>>, g, pc) /\ MainStacks(g)
      <3>1. "trace" \in Vector
        BY DEF Vector
      <3> QED BY <1>0, <3>1, ShortFrame
    <2> HIDE DEF g
    <2>4. Raises(g, sr'.ipl)
      BY <2>1, <2>2, <2>3 DEF Raises
    <2>5. Stacked(g.pc, g.sr, sr', a7', spOther')
      BY <1>1, <2>2, <2>3
    <2> QED BY <2>1, <2>2, <2>3, <2>4, <2>5, MainPush
  <1>2. CASE ~sr.t
    <2>1. sr' = new /\ pc' = to /\ UNCHANGED stacks
      BY <1>2 DEF GoesOn
    <2>2. Stacked(to, new, new, a7', spOther')
      BY <1>2
    <2> QED BY <2>1, <2>2, MainProceeds
  <1> QED BY <1>1, <1>2

\* Main completes an instruction, which may swap its stacks.
LEMMA MainCompletes ==
  ASSUME IInv, Frames = <<>>, Named, NEW to \in Place, NEW new \in Status, Completes(to, new),
         Left(new, to.word), Counts(to, FALSE, data', history'), data' \in Nat, history' \in History
  PROVE  IInv'
  <1> DEFINE n == IF sr.t THEN AsSupervisor(new) ELSE new
  <1>1. n \in Status /\ (sr.t \/ new.s <=> n.s)
    <2>1. AsSupervisor(new) \in Status /\ AsSupervisor(new).s
      <3>1. 0 \in 0..7
        OBVIOUS
      <3> QED BY <3>1, StatusTaken DEF Supervising
    <2> QED BY <2>1
  <1>2. SwapFor(n.s)
    <2>1. SwapFor(sr.t \/ new.s)
      BY DEF Completes
    <2>2. (sr.t \/ new.s) = n.s
      BY <1>1 DEF Status
    <2> QED BY <2>1, <2>2
  <1> HIDE DEF n
  <1>3. Stacked(to, new, n, a7', spOther') /\ a7' \in {"ssp", "usp"} /\ spOther' \in {"ssp", "usp"}
    BY <1>1, <1>2, NamedSwaps
  <1>4. Kept /\ GoesOn(to, new)
    BY <1>3 DEF Kept, Completes, IInv, MachineTypeOK
  <1> QED BY <1>3, <1>4, MainGoesOn DEF n

-----------------------------------------------------------------------------
(* Every step keeps the invariant. An instruction is one of Main, when no  *)
(* frame is stacked, or one of a handler.                                  *)

LEMMA HandlerRuns ==
  ASSUME IInv, Frames # <<>>
  PROVE  pc \in Place /\ pc.in \in Vector /\ pc.in # Main /\ InMain = 0 /\ (Retired => UNCHANGED history)
  <1> DEFINE f == Frames
  <1>1. f \in Seq(FrameType) /\ f # <<>> /\ Nested(f, pc) /\ pc \in Place
    BY DEF IInv, Good, MachineTypeOK, Frames
  <1> HIDE DEF f
  <1>2. f[Len(f)] \in FrameType
    BY <1>1
  <1>3. pc.in \in Vector
    BY <1>1, <1>2 DEF Nested, FrameType
  <1>4. pc.in # Main /\ InMain = 0
    BY <1>3, CodeAssumption DEF InMain
  <1>5. Retired => UNCHANGED history
    <2>1. history \in History
      BY DEF IInv, MachineTypeOK
    <2> QED BY <1>4, <2>1 DEF Retired, History
  <1> QED BY <1>1, <1>3, <1>4, <1>5

\* A handler executes what HandlerAssumption lets it.
LEMMA HandlerOp ==
  ASSUME IInv, Frames # <<>>, NEW op, At(op)
  PROVE  /\ op \in {"plain", "access", "trap", "edit", "rte"} /\ (op = "edit" => pc.word = 0)
         /\ Following \in Place /\ Following.in = pc.in /\ Following.word > 0
  <1>1. pc \in Place /\ pc.in \in Vector
    BY HandlerRuns
  <1>2. pc.in \in DOMAIN Code /\ pc.word \in DOMAIN Code[pc.in] /\ Code[pc.in][pc.word].op = op
    BY DEF At, IsInstruction, Instruction
  <1>3. op \in {"plain", "access", "trap", "edit", "rte"} /\ (op = "edit" => pc.word = 0)
    BY <1>1, <1>2, HandlerAssumption
  <1>4. Code[pc.in][pc.word].words \in Nat \ {0} /\ pc.word \in Nat
    BY <1>1, <1>2, CodeAssumption DEF Place
  <1>5. Following \in Place /\ Following.in = pc.in /\ Following.word > 0
    BY <1>1, <1>4 DEF Following, After, Instruction, Place
  <1> QED BY <1>3, <1>5

\* A handler completes an instruction and is not traced.
LEMMA HandlerCompletes ==
  ASSUME IInv, Frames # <<>>, NEW op, At(op), Completes(Following, sr), UNCHANGED <<data, history>>
  PROVE  IInv'
  <1>1. Supervising(sr)
    BY InHandler
  <1>2. /\ UNCHANGED <<sr, a7, spOther, stacks, data, history, stopped, pendingIpl>> /\ pc' = Following
    BY <1>1 DEF Supervising, Completes, GoesOn, SwapFor
  <1>3. Following \in Place /\ Following.in = pc.in /\ Following.word > 0
    BY HandlerOp
  <1>4. stopped \in BOOLEAN /\ pendingIpl \in 0..7
    BY DEF IInv, MachineTypeOK
  <1> QED BY <1>2, <1>3, <1>4, HandlerGoesOn

\* A plain instruction or an access that completes.
LEMMA EffectKept ==
  ASSUME IInv, NEW op \in EffectOps, At(op), data' = data + InMain, Completes(Following, sr), Retired
  PROVE  IInv'
  <1>1. data \in Nat /\ history \in History
    BY DEF IInv, MachineTypeOK
  <1>2. CASE Frames # <<>>
    BY <1>1, <1>2, HandlerRuns, HandlerCompletes
  <1>3. CASE Frames = <<>>
    <2>1. op # "branch" /\ op # "move usp"
      BY DEF EffectOps
    <2>2. /\ Following \in Place /\ Following.in = Main /\ Following.word \in Starts
          /\ Following.word > pc.word
          /\ Cardinality(Before(Following.word)) = history.retired + 1
          /\ Effects(Following.word) = data + history.skipped + 1
      BY <1>3, <2>1, MainFollowing
    <2>3. InMain = 1 /\ sr \in Status /\ pc.word \in Nat /\ Named
      BY <1>3, <2>1, MainRuns, MainAt
    <2>4. /\ data' = data + 1 /\ data' \in Nat
          /\ history' = [history EXCEPT !.retired = @ + 1]
      BY <1>1, <2>3 DEF Retired
    <2>5. history' \in History /\ history'.retired = history.retired + 1 /\ history'.skipped = history.skipped
      BY <1>1, <2>4 DEF History
    <2>6. history.skipped \in Nat /\ history.retired \in Nat
      BY <1>1 DEF History
    <2>7. Counts(Following, FALSE, data', history')
      BY <1>1, <2>2, <2>4, <2>5, <2>6 DEF Counts
    <2>8. Left(sr, Following.word)
      <3>1. Left(sr, pc.word)
        BY <1>3, MainRuns DEF Left, Stacked
      <3>2. Following.word \in Nat
        BY <2>2, StartsAreNat
      <3> QED BY <2>2, <2>3, <3>1, <3>2, LeftFurther
    <2> QED BY <1>3, <2>2, <2>3, <2>4, <2>5, <2>7, <2>8, MainCompletes
  <1> QED BY <1>2, <1>3

\* A plain instruction.
LEMMA PlainKept == ASSUME IInv, Plain PROVE IInv'
  BY EffectKept DEF Plain, EffectOps

\* An access that does not fault.
LEMMA AccessKept == ASSUME IInv, Access PROVE IInv'
  BY EffectKept DEF Access, EffectOps

\* Main loops with its registers as they were the first time.
LEMMA BranchKept == ASSUME IInv, Branch PROVE IInv'
  <1>1. At("branch")
    BY DEF Branch
  <1>2. Frames = <<>>
    BY <1>1, HandlerOp
  <1> DEFINE to == Instruction(pc).to  place == [pc EXCEPT !.word = to]
  <1>3. /\ pc.in = Main /\ pc \in Place /\ pc.word \in Starts /\ sr \in Status
        /\ Stacked(pc, sr, sr, a7, spOther)
    BY <1>2, MainRuns
  <1>4. OpAt(pc.word) = "branch" /\ to = Code[Main][pc.word].to /\ Named
    <2>1. OpAt(pc.word) = "branch" /\ Instruction(pc) = Code[Main][pc.word]
      BY <1>1, <1>2, MainAt
    <2>2. "branch" # "move usp"
      OBVIOUS
    <2>3. Named
      BY <1>1, <1>2, <2>2, MainAt, Zenon
    <2> QED BY <2>1, <2>3
  <1>5. to \in Starts /\ to \in Nat
    BY <1>3, <1>4, MainAssumption, StartsAreNat DEF OpAt
  <1>6. /\ Completes(place, sr) /\ data' = Effects(to)
        /\ history' = [retired |-> Cardinality(Before(to)), skipped |-> 0]
    BY DEF Branch
  <1>7. Left(sr, to)
    <2>1. SUFFICES ASSUME ~sr.s PROVE \E v \in LeavesSupervisor : v < to
      BY DEF Left
    <2>2. PICK v \in LeavesSupervisor : v < pc.word
      BY <1>3, <2>1 DEF Stacked
    <2>3. pc.word > v
      BY <1>3, <2>2, StartsAreNat DEF LeavesSupervisor
    <2>4. to > v
      BY <1>3, <1>4, <2>3, MainAssumption DEF OpAt
    <2>5. v \in Nat
      BY StartsAreNat DEF LeavesSupervisor
    <2> QED BY <1>5, <2>4, <2>5
  <1> HIDE DEF to
  <1>8. place \in Place /\ place.in = Main /\ place.word = to
    BY <1>3, <1>5 DEF Place
  <1> HIDE DEF place
  <1>9. Cardinality(Before(to)) \in Nat /\ Effects(to) \in Nat
    BY <1>5, BeforeFinite
  <1>10. /\ history' \in History /\ history'.retired = Cardinality(Before(to)) /\ history'.skipped = 0
         /\ data' \in Nat
    BY <1>6, <1>9 DEF History
  <1>11. Counts(place, FALSE, data', history')
    BY <1>5, <1>6, <1>8, <1>9, <1>10 DEF Counts
  <1> QED BY <1>2, <1>3, <1>4, <1>6, <1>7, <1>8, <1>10, <1>11, MainCompletes

\* The status after an exception.
LEMMA StatusInException ==
  ASSUME IInv, NEW l \in 0..7
  PROVE  /\ Supervised = AsSupervisor(sr) /\ Supervising(Supervised) /\ Supervised.ipl = sr.ipl
         /\ Supervising(AtLevel(Supervised, l)) /\ AtLevel(Supervised, l).ipl = l /\ sr.ipl \in 0..7
  <1>1. sr \in Status
    BY DEF IInv, MachineTypeOK
  <1>2. Supervised = AsSupervisor(sr)
    BY DEF Supervised, AsSupervisor
  <1>3. Supervising(Supervised) /\ Supervised.ipl = sr.ipl /\ sr.ipl \in 0..7
    BY <1>1, <1>2, StatusTaken
  <1>4. Supervised \in Status
    BY <1>3 DEF Supervising
  <1>5. Supervising(AtLevel(Supervised, l)) /\ AtLevel(Supervised, l).ipl = l
    BY <1>3, <1>4, StatusTaken
  <1> QED BY <1>2, <1>3, <1>5

\* An exception of Main with a short frame, at a level no lower than its own.
LEMMA MainExcepts ==
  ASSUME IInv, Frames = <<>>, NEW at \in Place, NEW v \in Vector, Push(Frame(at, v)), pc' = Handler(v),
         NEW n \in Status, Supervising(n), SetSr(n), Raises(Frame(at, v), n.ipl),
         at = pc \/ (Named /\ Left(sr, at.word)),
         v \in {"illegal", "privilege"} => OpAt(at.word) \in Refused /\ (sr.s => OpAt(at.word) = "illegal"),
         stopped' \in BOOLEAN, pendingIpl' \in 0..7, data' \in Nat, history' \in History,
         Counts(at, FALSE, data', history')
  PROVE  IInv'
  <1>1. sr \in Status /\ pc.in = Main /\ at.in = Main
    BY MainRuns DEF Counts
  <1> DEFINE g == Frame(at, v)
  <1>2. /\ g \in FrameType /\ g.pc = at /\ g.vector = v /\ g.sr = sr
        /\ Stackable(<<>>, g, pc) /\ MainStacks(g)
    BY <1>1, PlainFrame, Zenon
  <1>3. sr' = n /\ SwapFor(n.s) /\ n.s
    BY DEF SetSr, Supervising
  <1>4. Stacked(at, sr, n, a7', spOther') /\ a7' \in {"ssp", "usp"} /\ spOther' \in {"ssp", "usp"}
    BY <1>1, <1>3, NamedSwaps, InterruptedSwaps
  <1>5. Kept
    BY <1>4 DEF Kept
  <1>6. Push(g) /\ Raises(g, sr'.ipl) /\ Supervising(sr')
    BY <1>3
  <1> HIDE DEF g
  <1> QED BY <1>2, <1>3, <1>4, <1>5, <1>6, MainPush

\* An exception of a handler with a short frame.
LEMMA HandlerExcepts ==
  ASSUME IInv, Frames # <<>>, NEW at \in Place, at.in = pc.in, at.word = 0 => pc.word = 0,
         NEW v \in {"trap", "interrupt"}, Push(Frame(at, v)), pc' = Handler(v),
         NEW l \in 0..7, SetSr(AtLevel(Supervised, l)), Raises(Frame(at, v), l),
         UNCHANGED <<data, history>>, stopped' \in BOOLEAN, pendingIpl' \in 0..7
  PROVE  IInv'
  <1>1. Supervised = sr /\ sr \in Status /\ Supervising(sr)
    BY InHandler DEF Supervising
  <1>2. sr' = [sr EXCEPT !.ipl = l] /\ SwapFor(TRUE)
    <2>1. AtLevel(Supervised, l) = [sr EXCEPT !.ipl = l] /\ AtLevel(Supervised, l).s = TRUE
      BY <1>1 DEF AtLevel, Supervising, Status
    <2> QED BY <2>1 DEF SetSr
  <1> DEFINE g == Frame(at, v)
  <1>3. v \in Vector
    BY DEF Vector
  <1>4. /\ g \in FrameType /\ g.pc = at /\ g.vector = v /\ g.sr = sr
        /\ Stackable(Frames, g, pc)
    BY <1>1, <1>3, PlainFrame, Zenon
  <1>5. Push(g) /\ Raises(g, l)
    OBVIOUS
  <1> HIDE DEF g
  <1> QED BY <1>2, <1>3, <1>4, <1>5, HandlerPush

\* An interrupt is acknowledged, in Main or in a handler.
LEMMA TakeInterruptKept == ASSUME IInv, TakeInterrupt PROVE IInv'
  <1> DEFINE l == pendingIpl  n == AtLevel(Supervised, l)  g == Frame(pc, "interrupt")
  <1>1. /\ l \in 0..7 /\ pc \in Place /\ sr \in Status /\ data \in Nat /\ history \in History
        /\ "interrupt" \in Vector /\ "interrupt" \in {"trap", "interrupt"}
    BY DEF IInv, MachineTypeOK, Vector
  <1>2. /\ SetSr(n) /\ Push(g) /\ pc' = Handler("interrupt") /\ UNCHANGED <<data, history>>
        /\ stopped' \in BOOLEAN /\ pendingIpl' \in 0..7
    <2>1. [Supervised EXCEPT !.ipl = pendingIpl] = n
      BY DEF AtLevel
    <2>2. stopped' \in BOOLEAN
      BY Zenon DEF TakeInterrupt
    <2>3. pendingIpl' = 0
      BY DEF TakeInterrupt
    <2>4. stopped' \in BOOLEAN /\ pendingIpl' \in 0..7
      BY <2>2, <2>3
    <2> QED BY <2>1, <2>4 DEF TakeInterrupt
  <1>3. Supervising(n) /\ n.ipl = l /\ sr.ipl \in 0..7 /\ n \in Status
    BY <1>1, StatusInException DEF Supervising
  <1>4. Raises(g, l)
    <2>1. g.sr = sr /\ g.vector = "interrupt"
      BY DEF Frame
    <2>2. l = 7 \/ l > sr.ipl
      BY DEF TakeInterrupt, Interrupts
    <2> HIDE DEF g, l
    <2> QED BY <1>1, <1>3, <2>1, <2>2 DEF Raises
  <1> HIDE DEF l, n
  <1>5. CASE Frames # <<>>
    BY <1>1, <1>2, <1>4, <1>5, HandlerExcepts DEF n
  <1>6. CASE Frames = <<>>
    <2>1. Counts(pc, FALSE, data', history')
      BY <1>2, <1>6, MainRuns
    <2>2. ~("interrupt" \in {"illegal", "privilege"})
      OBVIOUS
    <2> QED BY <1>1, <1>2, <1>3, <1>4, <1>6, <2>1, <2>2, MainExcepts
  <1> QED BY <1>5, <1>6

\* An exception other than an interrupt keeps the mask.
LEMMA RaisesFrame ==
  ASSUME IInv, NEW at, NEW v, v # "interrupt"
  PROVE  Raises(Frame(at, v), Supervised.ipl)
  <1>1. Supervised.ipl = sr.ipl /\ sr.ipl \in 0..7
    <2>1. 0 \in 0..7
      OBVIOUS
    <2> QED BY <2>1, StatusInException
  <1>2. Frame(at, v).sr = sr /\ Frame(at, v).vector = v
    BY DEF Frame
  <1> QED BY <1>1, <1>2 DEF Raises

\* A trap stacks the instruction that follows.
LEMMA TrapKept == ASSUME IInv, Trap PROVE IInv'
  <1>1. /\ At("trap") /\ SetSr(Supervised) /\ Push(Frame(Following, "trap")) /\ pc' = Handler("trap")
        /\ Retired /\ UNCHANGED <<data, stopped, pendingIpl>>
    BY DEF Trap, Exception
  <1>2. /\ sr \in Status /\ data \in Nat /\ history \in History /\ stopped \in BOOLEAN /\ pendingIpl \in 0..7
        /\ "trap" \in Vector /\ "trap" \in {"trap", "interrupt"}
    BY DEF IInv, MachineTypeOK, Vector
  <1>3. Supervising(Supervised) /\ Supervised \in Status /\ sr.ipl \in 0..7 /\ Supervised.ipl = sr.ipl
    <2>1. 0 \in 0..7
      OBVIOUS
    <2> QED BY <2>1, StatusInException DEF Supervising
  <1>4. Raises(Frame(Following, "trap"), Supervised.ipl)
    BY RaisesFrame
  <1>5. CASE Frames # <<>>
    <2>1. Following \in Place /\ Following.in = pc.in /\ Following.word > 0
      BY <1>1, <1>5, HandlerOp
    <2>2. UNCHANGED history
      BY <1>1, <1>5, HandlerRuns
    <2>3. AtLevel(Supervised, sr.ipl) = Supervised
      BY <1>2, <1>5, InHandler DEF AtLevel, Status
    <2>4. Following.word # 0
      BY <2>1
    <2> QED BY <1>1, <1>2, <1>3, <1>4, <1>5, <2>1, <2>2, <2>3, <2>4, HandlerExcepts
  <1>6. CASE Frames = <<>>
    <2>1. /\ Following \in Place /\ Following.in = Main /\ Following.word \in Starts
          /\ Following.word > pc.word
          /\ Cardinality(Before(Following.word)) = history.retired + 1
          /\ Effects(Following.word) = data + history.skipped
      <3>1. "trap" # "branch" /\ "trap" \notin EffectOps
        BY DEF EffectOps
      <3>2. /\ Following \in Place /\ Following.in = Main /\ Following.word \in Starts
            /\ Following.word > pc.word
            /\ Cardinality(Before(Following.word)) = history.retired + 1
            /\ Effects(Following.word) = data + history.skipped + (IF "trap" \in EffectOps THEN 1 ELSE 0)
        BY <1>1, <1>6, <3>1, MainFollowing
      <3>3. history.skipped \in Nat
        BY <1>2 DEF History
      <3> QED BY <1>2, <3>1, <3>2, <3>3
    <2>2. InMain = 1 /\ Named /\ pc.word \in Nat /\ Following.word \in Nat
      <3>1. "trap" # "move usp"
        OBVIOUS
      <3>2. Named /\ pc.word \in Nat
        BY <1>1, <1>6, <3>1, MainAt, Zenon
      <3> QED BY <1>6, <2>1, <3>2, MainRuns, StartsAreNat
    <2>3. history' \in History /\ history'.retired = history.retired + 1 /\ history'.skipped = history.skipped
      BY <1>1, <1>2, <2>2 DEF Retired, History
    <2>4. Counts(Following, FALSE, data', history')
      <3>1. history.skipped \in Nat /\ history.retired \in Nat
        BY <1>2 DEF History
      <3> QED BY <1>1, <1>2, <2>1, <2>3, <3>1 DEF Counts
    <2>5. Left(sr, Following.word)
      <3>1. Left(sr, pc.word)
        BY <1>6, MainRuns DEF Left, Stacked
      <3> QED BY <2>1, <2>2, <3>1, LeftFurther
    <2>6. "trap" \notin {"illegal", "privilege"} /\ data' \in Nat
      BY <1>1, <1>2
    <2> QED BY <1>1, <1>2, <1>3, <1>4, <1>6, <2>1, <2>2, <2>3, <2>4, <2>5, <2>6, MainExcepts
  <1> QED BY <1>5, <1>6

\* What Main cannot execute is stacked as it is.
LEMMA RefusedKept ==
  ASSUME IInv, NEW op \in Refused, At(op), NEW v \in {"illegal", "privilege"}, Exception(v, SteppedBack),
         op = "illegal" \/ ~sr.s,
         UNCHANGED <<data, stopped, pendingIpl, history>>
  PROVE  IInv'
  <1>1. Frames = <<>>
    <2>1. CASE Frames # <<>>
      <3>1. op = "rte"
        BY <2>1, HandlerOp DEF Refused, SystemControl
      <3>2. sr.s
        BY <2>1, InHandler DEF Supervising
      <3> QED BY <3>1, <3>2
    <2> QED BY <2>1
  <1>2. /\ OpAt(pc.word) = op /\ Instruction(pc) = Code[Main][pc.word] /\ pc.word \in Nat
        /\ pc \in Place /\ pc.word \in Starts /\ Stacked(pc, sr, sr, a7, spOther)
        /\ Counts(pc, FALSE, data, history)
    BY <1>1, MainRuns, MainAt
  <1>3. Code[Main][pc.word].fetched = 1
    <2>1. CASE op = "illegal"
      BY <1>2, <2>1, MainAssumption DEF OpAt
    <2>2. CASE op # "illegal"
      <3>1. op \in SystemControl /\ ~sr.s
        BY <2>2 DEF Refused
      <3>2. PICK u \in LeavesSupervisor : u < pc.word
        BY <1>2, <3>1 DEF Stacked
      <3>3. pc.word > u
        BY <1>2, <3>2, StartsAreNat DEF LeavesSupervisor
      <3> QED BY <1>2, <3>1, <3>3, MainAssumption DEF OpAt
    <2> QED BY <2>1, <2>2
  <1>4. SteppedBack = pc
    BY <1>2, <1>3 DEF SteppedBack, After, Place
  <1>5. /\ SetSr(Supervised) /\ Push(Frame(pc, v)) /\ pc' = Handler(v) /\ v \in Vector
    BY <1>4 DEF Exception, Vector
  <1>6. Supervising(Supervised) /\ Supervised \in Status
    <2>1. 0 \in 0..7
      OBVIOUS
    <2> QED BY <2>1, StatusInException DEF Supervising
  <1>7. Raises(Frame(pc, v), Supervised.ipl)
    <2>1. v # "interrupt"
      OBVIOUS
    <2> QED BY <2>1, RaisesFrame
  <1>8. OpAt(pc.word) \in Refused /\ (sr.s => OpAt(pc.word) = "illegal")
    BY <1>2
  <1>9. data' \in Nat /\ history' \in History /\ stopped' \in BOOLEAN /\ pendingIpl' \in 0..7
    BY DEF IInv, MachineTypeOK
  <1>10. Counts(pc, FALSE, data', history')
    BY <1>2
  <1> QED BY <1>1, <1>2, <1>5, <1>6, <1>7, <1>8, <1>9, <1>10, MainExcepts

\* An opcode that is none.
LEMMA IllegalKept == ASSUME IInv, Illegal PROVE IInv'
  <1>1. "illegal" \in Refused /\ "illegal" \in {"illegal", "privilege"}
    BY DEF Refused
  <1> QED BY <1>1, RefusedKept DEF Illegal

\* A privileged instruction of the user.
LEMMA ViolatesKept == ASSUME IInv, NEW op \in SystemControl, Violates(op) PROVE IInv'
  <1>1. op \in Refused /\ "privilege" \in {"illegal", "privilege"}
    BY DEF Refused
  <1> QED BY <1>1, RefusedKept DEF Violates

\* A fault stacks the access itself and where it had got to.
LEMMA FaultKept == ASSUME IInv, Fault PROVE IInv'
  <1> DEFINE g == [Frame(pc, "bus error") EXCEPT !.long = TRUE, !.resume = Following]
  <1>1. /\ At("access") /\ SetSr(Supervised) /\ Push(g) /\ pc' = Handler("bus error")
        /\ UNCHANGED <<data, stopped, pendingIpl, history>>
    BY DEF Fault, BusErrorException
  <1>2. /\ sr \in Status /\ data \in Nat /\ history \in History /\ stopped \in BOOLEAN /\ pendingIpl \in 0..7
        /\ pc \in Place /\ "bus error" \in Vector
    BY DEF IInv, MachineTypeOK, Vector
  <1>3. Supervising(Supervised) /\ Supervised \in Status /\ sr.ipl \in 0..7 /\ Supervised.ipl = sr.ipl
    <2>1. 0 \in 0..7
      OBVIOUS
    <2> QED BY <2>1, StatusInException DEF Supervising
  <1>4. Following \in Place /\ Following.in = pc.in /\ Following.word > 0
    <2>1. CASE Frames # <<>>
      BY <1>1, <2>1, HandlerOp
    <2>2. CASE Frames = <<>>
      <3>1. "access" # "branch"
        OBVIOUS
      <3>2. Following \in Place /\ Following.in = Main /\ Following.word > pc.word
            /\ Following.word \in Starts
        BY <1>1, <2>2, <3>1, MainFollowing
      <3>3. pc.in = Main /\ pc.word \in Nat /\ Following.word \in Nat
        BY <2>2, <3>2, MainRuns, StartsAreNat
      <3>4. Following.word > 0
        BY <3>2, <3>3
      <3> QED BY <3>2, <3>3, <3>4
    <2> QED BY <2>1, <2>2
  <1>5. /\ g \in FrameType /\ g.pc = pc /\ g.vector = "bus error" /\ g.sr = sr
        /\ Stackable(Frames, g, pc) /\ Stackable(<<>>, g, pc)
    BY <1>2, <1>4, LongFrame
  <1>6. Raises(g, sr.ipl)
    <2> HIDE DEF g
    <2>1. g.sr.ipl = sr.ipl /\ g.vector # "interrupt"
      BY <1>5
    <2> QED BY <1>3, <2>1 DEF Raises
  <1>7. OpAt(pc.word) = "access" /\ Following.word = pc.word + Code[Main][pc.word].words => MainStacks(g)
    BY <1>2, <1>4, LongFrame
  <1> HIDE DEF g
  <1>8. CASE Frames # <<>>
    <2>1. Supervised = sr /\ Supervising(sr)
      BY <1>8, InHandler
    <2>2. sr' = [sr EXCEPT !.ipl = sr.ipl] /\ SwapFor(TRUE)
      <3>1. [sr EXCEPT !.ipl = sr.ipl] = sr /\ sr.s = TRUE
        BY <1>2, <2>1 DEF Status, Supervising
      <3> QED BY <1>1, <2>1, <3>1 DEF SetSr
    <2>3. g.pc.word = 0 => pc.word = 0
      BY <1>5
    <2> QED BY <1>1, <1>2, <1>3, <1>5, <1>6, <1>8, <2>2, <2>3, HandlerPush
  <1>9. CASE Frames = <<>>
    <2>1. "access" # "branch" /\ "access" # "move usp"
      OBVIOUS
    <2>2. OpAt(pc.word) = "access"
      BY <1>1, <1>9, MainAt
    <2>3. Following.word = pc.word + Code[Main][pc.word].words
      BY <1>1, <1>9, <2>1, MainFollowing
    <2>4. MainStacks(g)
      BY <1>7, <2>2, <2>3
    <2>5. sr' = Supervised /\ SwapFor(Supervised.s) /\ Supervised.s
      BY <1>1, <1>3 DEF SetSr, Supervising
    <2>6. Stacked(pc, sr, Supervised, a7', spOther') /\ a7' \in {"ssp", "usp"} /\ spOther' \in {"ssp", "usp"}
      BY <1>3, <1>9, <2>5, InterruptedSwaps
    <2>7. Kept
      BY <1>1, <1>2, <2>6 DEF Kept
    <2>8. Counts(pc, FALSE, data', history')
      BY <1>1, <1>9, MainRuns
    <2> QED BY <1>1, <1>3, <1>5, <1>6, <1>9, <2>4, <2>5, <2>6, <2>7, <2>8, MainPush
  <1> QED BY <1>8, <1>9

\* Main's instruction is counted.
LEMMA RetiresOne ==
  ASSUME history \in History, InMain = 1, Retired
  PROVE  history' \in History /\ history'.retired = history.retired + 1 /\ history'.skipped = history.skipped
  BY DEF Retired, History

\* One more instruction is done, without an effect on the data registers.
LEMMA CountsOn ==
  ASSUME NEW m, m.in = Main, m.word \in Starts, NEW r \in Nat, NEW k \in Nat, NEW d \in Nat,
         Cardinality(Before(m.word)) = r + 1, NEW op, op \notin EffectOps,
         Effects(m.word) = d + k + (IF op \in EffectOps THEN 1 ELSE 0),
         NEW h, h.retired = r + 1, h.skipped = k
  PROVE  Counts(m, FALSE, d, h)
  BY DEF Counts

\* Main counts an instruction that has no effect on the data registers.
LEMMA MainRetires ==
  ASSUME IInv, Frames = <<>>, NEW op \in {"write sr", "move usp", "stop"}, At(op), Retired, data' = data
  PROVE  /\ Following \in Place /\ Following.word \in Nat /\ pc.word \in Nat /\ Following.word > pc.word
         /\ Counts(Following, FALSE, data', history') /\ data' \in Nat /\ history' \in History
  <1>1. op # "branch" /\ op \notin EffectOps
    BY DEF EffectOps
  <1>2. /\ Following \in Place /\ Following.in = Main /\ Following.word \in Starts
        /\ Following.word > pc.word
        /\ Cardinality(Before(Following.word)) = history.retired + 1
        /\ Effects(Following.word) = data + history.skipped + (IF op \in EffectOps THEN 1 ELSE 0)
    BY <1>1, MainFollowing
  <1>3. data \in Nat /\ history \in History /\ history.retired \in Nat /\ history.skipped \in Nat
    BY DEF IInv, MachineTypeOK, History
  <1>4. InMain = 1 /\ pc.word \in Starts
    BY MainRuns
  <1>5. history' \in History /\ history'.retired = history.retired + 1 /\ history'.skipped = history.skipped
    BY <1>3, <1>4, RetiresOne
  <1>6. Counts(Following, FALSE, data', history')
    BY <1>1, <1>2, <1>3, <1>5, CountsOn
  <1> QED BY <1>2, <1>3, <1>4, <1>5, <1>6, StartsAreNat

\* Main's status after the write at its PC.
LEMMA WriteLeaves ==
  ASSUME IInv, Frames = <<>>, NEW op \in {"write sr", "stop"}, At(op), NEW w \in Nat, w > pc.word
  PROVE  Instruction(pc).sr \in Status /\ Left(Instruction(pc).sr, w)
  <1>1. OpAt(pc.word) = op /\ Instruction(pc) = Code[Main][pc.word] /\ pc.word \in Starts
    BY MainAt, MainRuns
  <1>2. Instruction(pc).sr \in Status
    BY <1>1, CodeAssumption DEF OpAt, Starts
  <1>3. Left(Instruction(pc).sr, w)
    <2>1. SUFFICES ASSUME ~Instruction(pc).sr.s PROVE \E v \in LeavesSupervisor : v < w
      BY DEF Left
    <2>2. pc.word \in LeavesSupervisor
      BY <1>1, <2>1 DEF LeavesSupervisor, OpAt
    <2>3. pc.word < w
      BY <1>1, StartsAreNat
    <2> QED BY <2>2, <2>3
  <1> QED BY <1>2, <1>3

\* No instruction of a handler is one for Main alone.
LEMMA MainAlone ==
  ASSUME IInv, NEW op \in {"write sr", "move usp", "stop"}, At(op)
  PROVE  Frames = <<>>
  <1>1. op \notin {"plain", "access", "trap", "edit", "rte"}
    OBVIOUS
  <1> QED BY <1>1, HandlerOp

\* A write to SR swaps the stacks when Main leaves supervisor mode.
LEMMA WriteSrKept == ASSUME IInv, WriteSr PROVE IInv'
  <1> DEFINE new == Instruction(pc).sr
  <1>1. /\ At("write sr") /\ Completes(Following, new) /\ Retired /\ UNCHANGED data
        /\ "write sr" \in {"write sr", "move usp", "stop"} /\ "write sr" \in {"write sr", "stop"}
        /\ "write sr" # "move usp"
    BY DEF WriteSr
  <1>2. Frames = <<>>
    BY <1>1, MainAlone
  <1>3. Named
    BY <1>1, <1>2, MainAt, Zenon
  <1>4. /\ Following \in Place /\ Following.word \in Nat /\ pc.word \in Nat /\ Following.word > pc.word
        /\ Counts(Following, FALSE, data', history') /\ data' \in Nat /\ history' \in History
    BY <1>1, <1>2, MainRetires
  <1>5. new \in Status /\ Left(new, Following.word)
    BY <1>1, <1>2, <1>4, WriteLeaves
  <1> HIDE DEF new
  <1> QED BY <1>1, <1>2, <1>3, <1>4, <1>5, MainCompletes

\* STOP writes SR and waits.
LEMMA StopKept == ASSUME IInv, Stop PROVE IInv'
  <1> DEFINE new == Instruction(pc).sr
  <1>1. /\ At("stop") /\ SetSr(new) /\ pc' = Following /\ Retired /\ UNCHANGED <<stacks, data, pendingIpl>>
        /\ "stop" \in {"write sr", "move usp", "stop"} /\ "stop" \in {"write sr", "stop"}
        /\ "stop" # "move usp"
    BY DEF Stop
  <1>2. Frames = <<>>
    BY <1>1, MainAlone
  <1>3. Named
    BY <1>1, <1>2, MainAt, Zenon
  <1>4. /\ Following \in Place /\ Following.word \in Nat /\ pc.word \in Nat /\ Following.word > pc.word
        /\ Counts(Following, FALSE, data', history') /\ data' \in Nat /\ history' \in History
    BY <1>1, <1>2, MainRetires
  <1>5. new \in Status /\ Left(new, Following.word)
    BY <1>1, <1>2, <1>4, WriteLeaves
  <1> HIDE DEF new
  <1>6. sr' = new /\ SwapFor(new.s)
    BY <1>1 DEF SetSr
  <1>7. Stacked(Following, new, new, a7', spOther') /\ a7' \in {"ssp", "usp"} /\ spOther' \in {"ssp", "usp"}
    BY <1>2, <1>3, <1>5, <1>6, NamedSwaps
  <1>8. Kept
    <2>1. stopped' \in BOOLEAN
      BY Zenon DEF Stop
    <2>2. pendingIpl' \in 0..7
      BY <1>1 DEF IInv, MachineTypeOK
    <2> QED BY <1>4, <1>7, <2>1, <2>2 DEF Kept
  <1> QED BY <1>1, <1>2, <1>4, <1>5, <1>6, <1>7, <1>8, MainProceeds

\* Main names its user stack.
LEMMA MoveUspKept == ASSUME IInv, MoveUsp PROVE IInv'
  <1>1. /\ At("move usp") /\ sr.s /\ spOther' = "usp" /\ GoesOn(Following, sr) /\ Retired
        /\ UNCHANGED <<a7, data, stopped, pendingIpl>>
        /\ "move usp" \in {"write sr", "move usp", "stop"}
    BY DEF MoveUsp
  <1>2. Frames = <<>>
    BY <1>1, MainAlone
  <1>3. /\ Following \in Place /\ Following.word \in Nat /\ pc.word \in Nat /\ Following.word > pc.word
        /\ Counts(Following, FALSE, data', history') /\ data' \in Nat /\ history' \in History
    BY <1>1, <1>2, MainRetires
  <1>4. Stacked(pc, sr, sr, a7, spOther) /\ sr \in Status
    BY <1>2, MainRuns
  <1> DEFINE n == IF sr.t THEN AsSupervisor(sr) ELSE sr
  <1>5. n.s
    BY <1>1, <1>4 DEF AsSupervisor, Status
  <1>6. a7 = "ssp"
    BY <1>1, <1>4 DEF Stacked
  <1> HIDE DEF n
  <1>7. Stacked(Following, sr, n, a7', spOther')
    BY <1>1, <1>5, <1>6 DEF Stacked
  <1>8. Kept
    BY <1>1, <1>3, <1>6 DEF Kept, IInv, MachineTypeOK
  <1> QED BY <1>1, <1>2, <1>3, <1>4, <1>7, <1>8, MainGoesOn DEF n

\* What a handler returns through and edits is on the supervisor's stack.
LEMMA HandlerStack ==
  ASSUME IInv, stacks[a7] # <<>>
  PROVE  /\ Frames # <<>> /\ a7 = "ssp" /\ Frames \in Seq(FrameType) /\ Top = Last(Frames)
         /\ stacks \in [{"ssp", "usp"} -> Seq(FrameType)] /\ stacks["usp"] = <<>>
         /\ Nested(Frames, pc) /\ Supervises(Frames, sr) /\ Masks(Frames, sr.ipl) /\ MainFrame(Frames, pc)
         /\ Counts(Where(Frames, pc), Skips(Frames), data, history)
         /\ Stacked(Where(Frames, pc), ModeOf(Frames, sr), sr, a7, spOther)
  <1>1. stacks \in [{"ssp", "usp"} -> Seq(FrameType)] /\ stacks["usp"] = <<>> /\ a7 \in {"ssp", "usp"}
    BY DEF IInv, MachineTypeOK
  <1>2. a7 = "ssp"
    BY <1>1
  <1>3. Frames # <<>> /\ Frames \in Seq(FrameType) /\ Top = Last(Frames)
    BY <1>1, <1>2 DEF Frames, Top
  <1> QED BY <1>1, <1>2, <1>3 DEF IInv, Good

\* A return to Main takes its frame off.
LEMMA ReturnsToMain ==
  ASSUME IInv, Rte, Len(Frames) = 1
  PROVE  IInv'
  <1> DEFINE f == Frames  g == Last(f)  q == ReturnPc(g)  one == IF Skips(f) THEN 1 ELSE 0
  <1>1. stacks[a7] # <<>>
    BY DEF Rte
  <1>2. /\ f # <<>> /\ a7 = "ssp" /\ f \in Seq(FrameType) /\ Top = g /\ Nested(f, pc)
        /\ Counts(Where(f, pc), Skips(f), data, history)
        /\ Stacked(Where(f, pc), ModeOf(f, sr), sr, a7, spOther)
        /\ stacks \in [{"ssp", "usp"} -> Seq(FrameType)] /\ stacks["usp"] = <<>>
    BY <1>1, HandlerStack
  <1>3. g = f[1] /\ g \in FrameType /\ Front(f) = <<>>
    BY <1>2, FrontFrame
  <1>4. Where(f, pc) = q /\ ModeOf(f, sr) = g.sr /\ (Skips(f) <=> g.long /\ g.rr)
    BY <1>2, <1>3, Zenon DEF Where, ModeOf, Skips
  <1>5. g.pc.in = Main /\ g.sr \in Status /\ q \in Place
    BY <1>2, <1>3 DEF Nested, FrameType, ReturnPc
  <1>6. Frames' = <<>> /\ stacks' \in [{"ssp", "usp"} -> Seq(FrameType)] /\ stacks'["usp"] = <<>>
    <2>1. stacks' = [stacks EXCEPT !["ssp"] = <<>>]
      BY <1>2, <1>3 DEF Rte, Frames
    <2> QED BY <1>2, <2>1 DEF Frames
  <1>7. sr' = g.sr /\ SwapFor(g.sr.s) /\ pc' = q /\ UNCHANGED <<data, stopped, pendingIpl>>
    BY <1>2 DEF Rte, SetSr
  <1>8. history' = [retired |-> history.retired + one, skipped |-> history.skipped + one]
    <2>1. (Top.long /\ Top.rr /\ Top.pc.in = Main) <=> Skips(f)
      BY <1>2, <1>4, <1>5
    <2> QED BY <2>1 DEF Rte
  <1>9. Supervising(sr) /\ sr.s
    BY <1>2, InHandler DEF Supervising
  <1> HIDE DEF f, g, q
  <1>10. Counts(q, Skips(f), data, history) /\ Stacked(q, g.sr, sr, a7, spOther)
    BY <1>2, <1>4 DEF Counts
  <1>11. Stacked(q, g.sr, g.sr, a7', spOther') /\ a7' \in {"ssp", "usp"} /\ spOther' \in {"ssp", "usp"}
    <2>0. g.sr.s \in BOOLEAN /\ sr.s \in BOOLEAN
      BY <1>5, <1>9 DEF Status, Supervising
    <2>1. CASE g.sr.s
      <3>1. UNCHANGED <<a7, spOther>>
        BY <1>7, <1>9, <2>0, <2>1 DEF SwapFor
      <3> QED BY <1>9, <1>10, <2>1, <3>1 DEF Stacked, IInv, MachineTypeOK
    <2>2. CASE ~g.sr.s
      <3>1. a7' = spOther /\ spOther' = a7 /\ spOther = "usp" /\ a7 = "ssp"
        BY <1>7, <1>9, <1>10, <2>2 DEF SwapFor, Stacked
      <3>2. \E v \in LeavesSupervisor : v < q.word
        BY <1>10, <2>2 DEF Stacked
      <3> QED BY <2>2, <3>1, <3>2 DEF Stacked
    <2> QED BY <2>1, <2>2
  <1>12. data \in Nat /\ history.retired \in Nat /\ history.skipped \in Nat /\ stopped \in BOOLEAN /\ pendingIpl \in 0..7
    BY DEF IInv, MachineTypeOK, History
  <1>13. one \in 0..1
    OBVIOUS
  <1>14. q.in = Main /\ q.word \in Starts /\ Cardinality(Before(q.word)) = history.retired + one
         /\ Effects(q.word) = data + history.skipped + one
    BY <1>10 DEF Counts
  <1> HIDE DEF one
  <1>15. /\ history' \in History /\ history'.retired = history.retired + one
         /\ history'.skipped = history.skipped + one
    BY <1>8, <1>12, <1>13 DEF History
  <1>16. Counts(pc', FALSE, data', history')
    <2>1. data' = data /\ pc' = q
      BY <1>7
    <2> QED BY <1>12, <1>13, <1>14, <1>15, <2>1 DEF Counts
  <1>17. MachineTypeOK'
    BY <1>5, <1>6, <1>7, <1>11, <1>12, <1>15 DEF MachineTypeOK
  <1>18. Where(<<>>, pc') = pc' /\ ModeOf(<<>>, sr') = sr' /\ Skips(<<>>) = FALSE /\ Len(<<>>) = 0
    BY DEF Where, ModeOf, Skips
  <1>19. Nested(<<>>, pc') /\ Supervises(<<>>, sr') /\ Masks(<<>>, sr'.ipl) /\ MainFrame(<<>>, pc')
    BY <1>7, <1>14, <1>18 DEF Nested, Supervises, Masks, MainFrame
  <1>20. Good(<<>>, sr', pc', a7', spOther', data', history')
    BY <1>7, <1>11, <1>16, <1>18, <1>19 DEF Good
  <1>21. Good(Frames, sr, pc, a7, spOther, data, history)'
    BY <1>6, <1>20
  <1> QED BY <1>17, <1>21 DEF IInv

\* A return to a handler leaves Main's frame alone.
LEMMA ReturnsToHandler ==
  ASSUME IInv, Rte, Len(Frames) > 1
  PROVE  IInv'
  <1> DEFINE f == Frames  g == Last(f)  n == Len(f)  e == Front(f)
  <1>1. stacks[a7] # <<>>
    BY DEF Rte
  <1>2. /\ f # <<>> /\ a7 = "ssp" /\ f \in Seq(FrameType) /\ Top = g /\ Nested(f, pc)
        /\ Supervises(f, sr) /\ Masks(f, sr.ipl) /\ MainFrame(f, pc)
        /\ stacks \in [{"ssp", "usp"} -> Seq(FrameType)] /\ stacks["usp"] = <<>>
    BY <1>1, HandlerStack
  <1>3. n \in Nat \ {0} /\ g = f[n] /\ g \in FrameType /\ e \in Seq(FrameType)
    BY <1>2, FrontFrame
  <1>4. n > 1
    OBVIOUS
  <1>5. g.pc.in # Main /\ g.sr.s /\ ~g.sr.t /\ g.resume.in = g.pc.in
    <2>1. n \in 2..n /\ n \in 1..n /\ n - 1 \in 1..n
      BY <1>3, <1>4
    <2>2. g.pc.in = f[n - 1].vector
      BY <1>2, <1>3, <2>1 DEF Nested
    <2>3. f[n - 1] \in FrameType
      BY <1>2, <2>1
    <2>4. f[n - 1].vector # Main
      BY <2>3, CodeAssumption DEF FrameType
    <2>5. g.sr.s /\ ~g.sr.t
      BY <1>2, <1>3, <2>1 DEF Supervises
    <2>6. g.resume.in = g.pc.in
      BY <1>2, <1>3, <2>1 DEF Nested
    <2> QED BY <2>2, <2>4, <2>5, <2>6
  <1>6. Supervising(g.sr) /\ g.sr.s = TRUE
    BY <1>3, <1>5 DEF FrameType, Status, Supervising
  <1>7. sr' = g.sr /\ SwapFor(g.sr.s) /\ pc' = ReturnPc(g) /\ UNCHANGED <<data, stopped, pendingIpl>>
    BY <1>2 DEF Rte, SetSr
  <1>8. UNCHANGED history
    <2>1. ~(Top.long /\ Top.rr /\ Top.pc.in = Main)
      BY <1>2, <1>5
    <2>2. history \in History
      BY DEF IInv, MachineTypeOK
    <2>3. history' = [retired |-> history.retired + 0, skipped |-> history.skipped + 0]
      BY <2>1 DEF Rte
    <2> QED BY <2>2, <2>3 DEF History
  <1>9. UNCHANGED <<a7, spOther>>
    <2>1. sr.s = TRUE
      BY <1>2, InHandler DEF Supervising, Status
    <2> QED BY <1>6, <1>7, <2>1 DEF SwapFor
  <1>10. Frames' = e /\ stacks' \in [{"ssp", "usp"} -> Seq(FrameType)] /\ stacks'["usp"] = <<>>
    <2>1. stacks' = [stacks EXCEPT !["ssp"] = e]
      BY <1>2 DEF Rte, Frames
    <2> HIDE DEF e
    <2> QED BY <1>2, <1>3, <2>1 DEF Frames
  <1>11. ReturnPc(g) \in Place /\ ReturnPc(g).in = g.pc.in
    BY <1>3, <1>5 DEF FrameType, ReturnPc
  <1> HIDE DEF f, g, n, e
  <1>12. Nested(e, ReturnPc(g)) /\ Masks(e, g.sr.ipl) /\ Supervises(e, g.sr)
    BY <1>2, <1>11, NestedPop, MasksPop, SupervisesPop DEF e, g
  <1>13. MainFrame(e, ReturnPc(g)) /\ e[1] = f[1] /\ e # <<>>
    BY <1>2, <1>4, MainFramePop DEF e, g, n
  <1>14. Unchained
    BY <1>7, <1>10 DEF Unchained, IInv, MachineTypeOK
  <1>15. Frames # <<>> /\ Frames' # <<>> /\ Frames'[1] = Frames[1] /\ Supervising(sr') /\ pc' \in Place
    BY <1>2, <1>6, <1>7, <1>10, <1>11, <1>13 DEF f
  <1>16. Nested(Frames', pc') /\ Masks(Frames', sr'.ipl) /\ MainFrame(Frames', pc') /\ Supervises(Frames', sr')
    BY <1>7, <1>10, <1>12, <1>13
  <1> QED BY <1>7, <1>8, <1>9, <1>14, <1>15, <1>16, HandlerStep

\* RTE returns to Main or to a handler.
LEMMA RteKept == ASSUME IInv, Rte PROVE IInv'
  <1>1. stacks[a7] # <<>>
    BY DEF Rte
  <1>2. Frames \in Seq(FrameType) /\ Frames # <<>>
    BY <1>1, HandlerStack
  <1> DEFINE n == Len(Frames)
  <1>3. n \in Nat \ {0}
    BY <1>2, FrontFrame
  <1> HIDE DEF n
  <1>4. n = 1 \/ n > 1
    BY <1>3
  <1> QED BY <1>4, ReturnsToMain, ReturnsToHandler DEF n

\* What an edit leaves: the frame below it, and a handler past its first word.
LEMMA EditLeaves ==
  ASSUME IInv, At("edit"), stacks[a7] # <<>>, pc' = Following,
         UNCHANGED <<sr, a7, spOther, data, stopped, pendingIpl>>,
         NEW g \in FrameType, stacks' = [stacks EXCEPT ![a7] = Append(Front(@), g)],
         g.vector = Top.vector, g.pc.in = Top.pc.in, g.resume = Top.resume, g.sr = Top.sr,
         g.long = Top.long, g.rr => g.long
  PROVE  LET e == Append(Front(Frames), g)
         IN  /\ Frames' = e /\ pc' \in Place /\ pc'.word > 0 /\ pc.word = 0 /\ Supervising(sr')
             /\ Nested(e, pc') /\ Supervises(e, sr') /\ Masks(e, sr'.ipl) /\ Unchained
             /\ e # <<>> /\ Len(e) = Len(Frames) /\ e[Len(Frames)] = g /\ Len(Frames) \in Nat \ {0}
  <1> DEFINE f == Frames  e == Append(Front(f), g)
  <1>1. /\ f # <<>> /\ a7 = "ssp" /\ f \in Seq(FrameType) /\ Top = Last(f) /\ Nested(f, pc)
        /\ Supervises(f, sr) /\ Masks(f, sr.ipl)
        /\ stacks \in [{"ssp", "usp"} -> Seq(FrameType)] /\ stacks["usp"] = <<>>
    BY HandlerStack
  <1>2. pc' \in Place /\ pc'.in = pc.in /\ pc'.word > 0 /\ pc.word = 0
    BY <1>1, HandlerOp
  <1>3. /\ e \in Seq(FrameType) /\ e # <<>> /\ Len(e) = Len(f) /\ e[Len(f)] = g /\ Len(f) \in Nat \ {0}
    BY <1>1, EditFrame
  <1>4. Frames' = e /\ stacks' \in [{"ssp", "usp"} -> Seq(FrameType)] /\ stacks'["usp"] = <<>>
    <2>1. stacks' = [stacks EXCEPT !["ssp"] = e]
      BY <1>1 DEF Frames
    <2> HIDE DEF e
    <2> QED BY <1>1, <1>3, <2>1 DEF Frames
  <1>5. Supervising(sr') /\ sr' = sr
    BY <1>1, InHandler
  <1> HIDE DEF f
  <1>6. Nested(e, pc')
    BY <1>1, <1>2, NestedEdit
  <1>7. Supervises(e, sr') /\ Masks(e, sr'.ipl)
    BY <1>1, <1>5, SupervisesEdit, MasksEdit
  <1>8. Unchained
    BY <1>4 DEF Unchained, IInv, MachineTypeOK
  <1> HIDE DEF e
  <1> QED BY <1>2, <1>3, <1>4, <1>5, <1>6, <1>7, <1>8 DEF e, f

\* The frame of another program than Main.
LEMMA EditsAbove ==
  ASSUME IInv, At("edit"), stacks[a7] # <<>>, pc' = Following,
         UNCHANGED <<sr, a7, spOther, data, stopped, pendingIpl, history>>,
         NEW g \in FrameType, stacks' = [stacks EXCEPT ![a7] = Append(Front(@), g)],
         g.vector = Top.vector, g.pc.in = Top.pc.in, g.resume = Top.resume, g.sr = Top.sr,
         g.long = Top.long, g.rr => g.long, Len(Frames) > 1, ReturnPc(g).word > 0
  PROVE  IInv'
  <1> DEFINE e == Append(Front(Frames), g)
  <1>1. /\ Frames' = e /\ pc' \in Place /\ Supervising(sr')
        /\ Nested(e, pc') /\ Supervises(e, sr') /\ Masks(e, sr'.ipl) /\ Unchained
    BY EditLeaves
  <1>2. Frames # <<>> /\ Frames \in Seq(FrameType) /\ MainFrame(Frames, pc)
    BY HandlerStack
  <1>3. MainFrame(e, pc') /\ e[1] = Frames[1] /\ e # <<>>
    BY <1>2, MainFrameEdit
  <1> HIDE DEF e
  <1> QED BY <1>1, <1>2, <1>3, HandlerStep

\* Main's own frame: its handler decides what Main has done.
LEMMA EditsMain ==
  ASSUME IInv, At("edit"), stacks[a7] # <<>>, pc' = Following,
         UNCHANGED <<sr, a7, spOther, data, stopped, pendingIpl>>,
         NEW g \in FrameType, stacks' = [stacks EXCEPT ![a7] = Append(Front(@), g)],
         g.vector = Top.vector, g.pc.in = Top.pc.in, g.resume = Top.resume, g.sr = Top.sr,
         g.long = Top.long, g.rr => g.long, Len(Frames) = 1,
         history' \in History, Counts(ReturnPc(g), g.long /\ g.rr, data', history'),
         Stacked(ReturnPc(g), g.sr, sr, a7, spOther),
         g.long => g.pc = Top.pc
  PROVE  IInv'
  <1> DEFINE e == Append(Front(Frames), g)
  <1>1. /\ Frames' = e /\ pc' \in Place /\ Supervising(sr') /\ pc'.word > 0
        /\ Nested(e, pc') /\ Supervises(e, sr') /\ Masks(e, sr'.ipl) /\ Unchained
        /\ e # <<>> /\ Len(e) = 1 /\ e[1] = g
    BY EditLeaves
  <1>2. /\ Frames # <<>> /\ Frames \in Seq(FrameType) /\ MainFrame(Frames, pc) /\ Top = Last(Frames)
    BY HandlerStack
  <1>3. Top = Frames[1]
    BY <1>2, FrontFrame
  <1> HIDE DEF e
  <1>4. MainFrame(e, pc')
    <2>1. HandlerAt(e, pc').word # 0
      BY <1>1 DEF HandlerAt
    <2>2. g.long => /\ g.pc.word \in Starts /\ OpAt(g.pc.word) = "access"
                    /\ g.resume.word = g.pc.word + Code[Main][g.pc.word].words
      BY <1>2, <1>3 DEF MainFrame
    <2> QED BY <1>1, <2>1, <2>2 DEF MainFrame
  <1>5. Where(e, pc') = ReturnPc(g) /\ ModeOf(e, sr') = g.sr /\ (Skips(e) <=> g.long /\ g.rr)
    BY <1>1, Zenon DEF Where, ModeOf, Skips
  <1>6. Counts(Where(e, pc'), Skips(e), data', history')
    BY <1>5 DEF Counts
  <1>7. Stacked(Where(e, pc'), ModeOf(e, sr'), sr', a7', spOther')
    BY <1>5
  <1>8. Good(e, sr', pc', a7', spOther', data', history')
    BY <1>1, <1>4, <1>6, <1>7 DEF Good
  <1>9. Good(Frames, sr, pc, a7, spOther, data, history)'
    BY <1>1, <1>8
  <1>10. MachineTypeOK'
    <2>1. sr' \in Status
      BY <1>1 DEF Supervising
    <2> QED BY <1>1, <2>1 DEF Unchained, IInv, MachineTypeOK
  <1> QED BY <1>9, <1>10 DEF IInv

\* RR is set: Main goes on behind the access, which counts as done.
LEMMA SkipKept ==
  ASSUME IInv, At("edit"), stacks[a7] # <<>>, Top.long,
         stacks' = [stacks EXCEPT ![a7] = Append(Front(@), [Top EXCEPT !.rr = TRUE])],
         pc' = Following, UNCHANGED <<sr, a7, spOther, data, stopped, pendingIpl, history>>
  PROVE  IInv'
  <1> DEFINE f == Frames  g == [Top EXCEPT !.rr = TRUE]  n == Len(f)
  <1>1. /\ f # <<>> /\ f \in Seq(FrameType) /\ Top = Last(f) /\ Nested(f, pc) /\ MainFrame(f, pc)
        /\ Counts(Where(f, pc), Skips(f), data, history)
        /\ Stacked(Where(f, pc), ModeOf(f, sr), sr, a7, spOther)
    BY HandlerStack
  <1>2. n \in Nat \ {0} /\ Top = f[n] /\ Top \in FrameType
    BY <1>1, FrontFrame
  <1>3. /\ g \in FrameType /\ g.vector = Top.vector /\ g.pc = Top.pc /\ g.resume = Top.resume
        /\ g.sr = Top.sr /\ g.long = Top.long /\ g.long = TRUE /\ g.rr = TRUE
    BY <1>2 DEF FrameType
  <1>4. Top.resume.word > 0
    <2>1. n \in 1..n
      BY <1>2
    <2> QED BY <1>1, <1>2, <2>1 DEF Nested
  <1> HIDE DEF g
  <1>5. ReturnPc(g) = Top.resume
    BY <1>3 DEF ReturnPc
  <1> HIDE DEF f, n
  <1>6. CASE n > 1
    <2>1. stacks' = [stacks EXCEPT ![a7] = Append(Front(@), g)]
      BY DEF g
    <2>2. ReturnPc(g).word > 0 /\ Len(Frames) > 1
      BY <1>4, <1>5, <1>6 DEF f, n
    <2>3. g.pc.in = Top.pc.in /\ (g.rr => g.long)
      BY <1>3
    <2> QED BY <1>3, <2>1, <2>2, <2>3, EditsAbove
  <1>7. CASE n = 1
    <2>1. Top = f[1] /\ Len(Frames) = 1
      BY <1>2, <1>7 DEF n, f
    <2> DEFINE w == Top.pc.word
    <2>2. /\ w \in Starts /\ OpAt(w) = "access" /\ Top.resume.word = w + Code[Main][w].words
      BY <1>1, <2>1 DEF MainFrame
    <2>3. Where(f, pc) = ReturnPc(Top) /\ ModeOf(f, sr) = Top.sr /\ (Skips(f) <=> Top.rr)
      BY <1>1, <2>1 DEF Where, ModeOf, Skips
    <2>4. Top.resume.in = Main
      <3>1. 1 \in 1..n
        BY <1>7
      <3> QED BY <1>1, <2>1, <3>1 DEF Nested, n
    <2>5. Counts(ReturnPc(Top), Top.rr, data, history) /\ Stacked(ReturnPc(Top), Top.sr, sr, a7, spOther)
      BY <1>1, <2>3 DEF Counts
    <2>6. Counts(Top.resume, TRUE, data, history) /\ Stacked(Top.resume, Top.sr, sr, a7, spOther)
      <3>1. CASE Top.rr
        <4>1. ReturnPc(Top) = Top.resume
          BY <3>1 DEF ReturnPc
        <4> QED BY <2>5, <3>1, <4>1 DEF Counts
      <3>2. CASE ~Top.rr
        <4>1. ReturnPc(Top) = Top.pc
          BY <3>2 DEF ReturnPc
        <4>2. "access" # "branch" /\ "access" \in EffectOps
          BY DEF EffectOps
        <4> DEFINE u == Top.resume.word
        <4>3. /\ w \in Nat /\ u \in Starts /\ u \in Nat /\ u > w
              /\ Cardinality(Before(u)) = Cardinality(Before(w)) + 1
              /\ Effects(u) = Effects(w) + 1
          BY <2>2, <4>2, NextStart
        <4>4. /\ Cardinality(Before(w)) = history.retired
              /\ Effects(w) = data + history.skipped
          <5>1. data \in Nat /\ history.retired \in Nat /\ history.skipped \in Nat
            BY DEF IInv, MachineTypeOK, History
          <5> QED BY <2>5, <3>2, <4>1, <5>1 DEF Counts
        <4>5. Counts(Top.resume, TRUE, data, history)
          BY <2>4, <4>3, <4>4 DEF Counts
        <4>6. w # 0
          BY <2>2, MainAssumption DEF OpAt
        <4>7. Left(Top.sr, u)
          <5>1. Left(Top.sr, w)
            BY <2>5, <4>1 DEF Stacked, Left
          <5> QED BY <4>3, <5>1, LeftFurther
        <4>8. Stacked(Top.resume, Top.sr, sr, a7, spOther)
          BY <2>5, <4>1, <4>6, <4>7 DEF Stacked, Left
        <4> QED BY <4>5, <4>8
      <3> QED BY <3>1, <3>2
    <2>7. Counts(ReturnPc(g), g.long /\ g.rr, data', history')
      BY <1>3, <1>5, <2>6 DEF Counts
    <2>8. Stacked(ReturnPc(g), g.sr, sr, a7, spOther)
      BY <1>3, <1>5, <2>6
    <2>9. stacks' = [stacks EXCEPT ![a7] = Append(Front(@), g)] /\ history' \in History
      BY DEF g, IInv, MachineTypeOK
    <2>10. g.pc.in = Top.pc.in /\ (g.rr => g.long) /\ (g.long => g.pc = Top.pc)
      BY <1>3
    <2> QED BY <1>3, <2>1, <2>7, <2>8, <2>9, <2>10, EditsMain
  <1>8. n = 1 \/ n > 1
    BY <1>2
  <1> QED BY <1>6, <1>7, <1>8

\* The stacked PC is moved on: Main goes on behind what it was refused.
LEMMA MoveOnKept ==
  ASSUME IInv, At("edit"), stacks[a7] # <<>>, Top.vector \in {"illegal", "privilege"}, IsInstruction(Top.pc),
         stacks' = [stacks EXCEPT ![a7] =
            Append(Front(@), [Top EXCEPT !.pc = After(@, Instruction(@).words)])],
         history' = [history EXCEPT !.retired = @ + IF Top.pc.in = Main THEN 1 ELSE 0],
         pc' = Following, UNCHANGED <<sr, a7, spOther, data, stopped, pendingIpl>>
  PROVE  IInv'
  <1> DEFINE f == Frames  to == After(Top.pc, Instruction(Top.pc).words)
             g == [Top EXCEPT !.pc = to]  n == Len(f)  w == Top.pc.word
  <1>1. /\ f # <<>> /\ f \in Seq(FrameType) /\ Top = Last(f) /\ Nested(f, pc) /\ MainFrame(f, pc)
        /\ Counts(Where(f, pc), Skips(f), data, history)
        /\ Stacked(Where(f, pc), ModeOf(f, sr), sr, a7, spOther)
    BY HandlerStack
  <1>2. n \in Nat \ {0} /\ Top = f[n] /\ Top \in FrameType
    BY <1>1, FrontFrame
  <1>3. n = 1
    <2>1. CASE n > 1
      <3>1. n \in 2..n
        BY <1>2, <2>1
      <3>2. Top.vector \in {"trap", "interrupt", "bus error"}
        BY <1>1, <1>2, <3>1 DEF Nested
      <3> QED BY <3>2
    <2> HIDE DEF n
    <2>2. n = 1 \/ n > 1
      BY <1>2
    <2> QED BY <2>1, <2>2
  <1>4. Top = f[1] /\ Len(Frames) = 1
    BY <1>2, <1>3
  <1>5. ~Top.long /\ ~Top.rr /\ Top.pc.in = Main
    <2>1. 1 \in 1..n
      BY <1>3
    <2>2. /\ f[1].long => f[1].vector = "bus error"
          /\ f[1].rr => f[1].long
          /\ f[1].pc.in = Main
      BY <1>1, <2>1 DEF Nested
    <2>3. ~Top.long
      BY <1>4, <2>2
    <2> QED BY <1>4, <2>2, <2>3
  <1>6. OpAt(w) \in Refused /\ (Top.sr.s => OpAt(w) = "illegal")
    <2>1. pc.word = 0
      BY <1>1, HandlerOp
    <2>2. HandlerAt(f, pc).word = 0
      BY <1>3, <2>1 DEF HandlerAt
    <2> HIDE DEF f
    <2> QED BY <1>1, <1>4, <2>2 DEF MainFrame
  <1>7. Where(f, pc) = Top.pc /\ ModeOf(f, sr) = Top.sr /\ Skips(f) = FALSE
    BY <1>1, <1>4, <1>5 DEF Where, ModeOf, Skips, ReturnPc
  <1> HIDE DEF f, n
  <1>8. Counts(Top.pc, FALSE, data, history) /\ Stacked(Top.pc, Top.sr, sr, a7, spOther) /\ w \in Starts
    BY <1>1, <1>7 DEF Counts
  <1>9. OpAt(w) # "branch" /\ OpAt(w) \notin EffectOps
    BY <1>6 DEF Refused, SystemControl, EffectOps
  <1>10. Instruction(Top.pc) = Code[Main][w] /\ Top.pc \in Place
    BY <1>2, <1>5 DEF Instruction, FrameType
  <1> DEFINE u == w + Code[Main][w].words
  <1>11. /\ w \in Nat /\ u \in Starts /\ u \in Nat /\ u > w
         /\ Cardinality(Before(u)) = Cardinality(Before(w)) + 1
         /\ Effects(u) = Effects(w) + (IF OpAt(w) \in EffectOps THEN 1 ELSE 0)
    BY <1>8, <1>9, NextStart
  <1>12. to \in Place /\ to.in = Main /\ to.word = u
    BY <1>5, <1>10, <1>11 DEF After, Place
  <1>13. /\ g \in FrameType /\ g.vector = Top.vector /\ g.pc = to /\ g.resume = Top.resume
         /\ g.sr = Top.sr /\ g.long = Top.long /\ g.rr = Top.rr
    <2> HIDE DEF to
    <2> QED BY <1>2, <1>12 DEF FrameType
  <1>14. stacks' = [stacks EXCEPT ![a7] = Append(Front(@), g)]
    OBVIOUS
  <1> HIDE DEF g, to, u
  <1>15. ReturnPc(g) = to
    BY <1>5, <1>13 DEF ReturnPc
  <1>16. data \in Nat /\ history.retired \in Nat /\ history.skipped \in Nat /\ history \in History
    BY DEF IInv, MachineTypeOK, History
  <1>17. history' \in History /\ history'.retired = history.retired + 1 /\ history'.skipped = history.skipped
    <2>1. history' = [history EXCEPT !.retired = @ + 1]
      BY <1>5
    <2> QED BY <1>16, <2>1 DEF History
  <1>18. Counts(to, FALSE, data, history')
    <2>1. Cardinality(Before(w)) = history.retired /\ Effects(w) = data + history.skipped
      BY <1>8, <1>16 DEF Counts
    <2>2. Effects(u) = Effects(w)
      BY <1>9, <1>11, <1>16, <2>1
    <2> QED BY <1>11, <1>12, <1>16, <1>17, <2>1, <2>2 DEF Counts
  <1>19. Left(Top.sr, u)
    <2>1. Left(Top.sr, w)
      BY <1>8 DEF Stacked, Left
    <2> QED BY <1>11, <2>1, LeftFurther
  <1>20. Top.sr.s => w # 0
    BY <1>6, MainAssumption DEF OpAt
  <1>21. Stacked(to, g.sr, sr, a7, spOther)
    BY <1>8, <1>12, <1>13, <1>19, <1>20 DEF Stacked, Left
  <1>22. Counts(ReturnPc(g), g.long /\ g.rr, data', history')
    BY <1>5, <1>13, <1>15, <1>18 DEF Counts
  <1>23. g.pc.in = Top.pc.in /\ (g.rr => g.long) /\ (g.long => g.pc = Top.pc)
    BY <1>5, <1>12, <1>13
  <1> QED BY <1>4, <1>13, <1>14, <1>15, <1>17, <1>21, <1>22, <1>23, EditsMain

\* A handler edits its frame either way.
LEMMA EditKept == ASSUME IInv, Edit PROVE IInv'
  BY SkipKept, MoveOnKept DEF Edit

-----------------------------------------------------------------------------
(* The machine's side.                                                     *)

\* What asserts and idles leaves the chain alone.
LEMMA PresentKept == ASSUME IInv, NEW l \in Ipl, Present(l) PROVE IInv'
  <1>1. l \in 0..7
    BY CodeAssumption
  <1>2. pendingIpl' = l /\ UNCHANGED <<sr, pc, a7, spOther, stacks, data, stopped, history>>
    BY DEF Present
  <1>3. MachineTypeOK' /\ Frames' = Frames
    BY <1>1, <1>2 DEF IInv, MachineTypeOK, Frames
  <1>4. Good(Frames, sr, pc, a7, spOther, data, history)'
    BY <1>2, <1>3 DEF IInv
  <1> QED BY <1>3, <1>4 DEF IInv

\* Nothing changes.
LEMMA StutterKept == ASSUME IInv, UNCHANGED cpuVars PROVE IInv'
  <1>1. UNCHANGED <<sr, pc, a7, spOther, stacks, data, stopped, pendingIpl, history>>
    BY DEF cpuVars
  <1>2. MachineTypeOK' /\ Frames' = Frames
    BY <1>1 DEF IInv, MachineTypeOK, Frames
  <1>3. Good(Frames, sr, pc, a7, spOther, data, history)'
    BY <1>1, <1>2 DEF IInv
  <1> QED BY <1>2, <1>3 DEF IInv

\* What the reset vectors leave has the state's types.
LEMMA ResetStatus ==
  /\ [t |-> FALSE, s |-> TRUE, ipl |-> 7] \in Status
  /\ [in |-> Main, word |-> 0] \in Place /\ [retired |-> 0, skipped |-> 0] \in History
  <1>1. \A b, c \in BOOLEAN, l \in 0..7 : [t |-> b, s |-> c, ipl |-> l] \in Status
    BY DEF Status
  <1>2. FALSE \in BOOLEAN /\ TRUE \in BOOLEAN /\ 7 \in 0..7
    OBVIOUS
  <1>3. [t |-> FALSE, s |-> TRUE, ipl |-> 7] \in Status
    BY <1>1, <1>2, Zenon
  <1>4. [in |-> Main, word |-> 0] \in Place /\ [retired |-> 0, skipped |-> 0] \in History
    BY CodeAssumption DEF Place, History
  <1> QED BY <1>3, <1>4

\* Main begins with empty stacks, and need not have named the user's.
LEMMA Begins ==
  ASSUME NEW s, s = [t |-> FALSE, s |-> TRUE, ipl |-> 7], NEW p, p = [in |-> Main, word |-> 0],
         NEW o \in {"ssp", "usp"}, NEW h, h = [retired |-> 0, skipped |-> 0]
  PROVE  Good(<<>>, s, p, "ssp", o, 0, h)
  <1>1. s.s /\ p.in = Main /\ p.word = 0 /\ h.retired = 0 /\ h.skipped = 0
    OBVIOUS
  <1>2. Where(<<>>, p) = p /\ ModeOf(<<>>, s) = s /\ Skips(<<>>) = FALSE /\ Len(<<>>) = 0
    BY DEF Where, ModeOf, Skips
  <1>3. Nested(<<>>, p) /\ Supervises(<<>>, s) /\ Masks(<<>>, s.ipl) /\ MainFrame(<<>>, p)
    BY <1>1, <1>2 DEF Nested, Supervises, Masks, MainFrame
  <1>4. Counts(p, FALSE, 0, h)
    BY <1>1, NothingBefore DEF Counts
  <1>5. Stacked(p, s, s, "ssp", o)
    BY <1>1 DEF Stacked
  <1> QED BY <1>2, <1>3, <1>4, <1>5 DEF Good

\* A reset begins Main again, and may leave the supervisor's stack for the user's.
LEMMA ResetCpuKept == ASSUME IInv, ResetCpu PROVE IInv'
  <1>1. /\ sr' = [t |-> FALSE, s |-> TRUE, ipl |-> 7] /\ pc' = [in |-> Main, word |-> 0] /\ a7' = "ssp"
        /\ data' = 0 /\ history' = [retired |-> 0, skipped |-> 0] /\ UNCHANGED <<spOther, pendingIpl>>
        /\ stacks' = [k \in {"ssp", "usp"} |-> <<>>]
    BY DEF ResetCpu
  <1>2. stopped' \in BOOLEAN
    BY Zenon DEF ResetCpu
  <1>3. spOther' \in {"ssp", "usp"} /\ pendingIpl' \in 0..7
    BY <1>1 DEF IInv, MachineTypeOK
  <1>4. Frames' = <<>>
    BY <1>1 DEF Frames
  <1>5. MachineTypeOK'
    <2>1. sr' \in Status /\ pc' \in Place /\ history' \in History
      BY <1>1, ResetStatus, Zenon
    <2>2. stacks' \in [{"ssp", "usp"} -> Seq(FrameType)] /\ stacks'["usp"] = <<>>
      BY <1>1
    <2> QED BY <1>1, <1>2, <1>3, <2>1, <2>2 DEF MachineTypeOK
  <1>6. Good(<<>>, sr', pc', a7', spOther', data', history')
    BY <1>1, <1>3, Begins
  <1>7. Good(Frames, sr, pc, a7, spOther, data, history)'
    BY <1>4, <1>6
  <1> QED BY <1>5, <1>7 DEF IInv

\* Main begins.
LEMMA InitHolds == CpuInit => IInv
  <1> SUFFICES ASSUME CpuInit PROVE IInv
    OBVIOUS
  <1>1. /\ sr = [t |-> FALSE, s |-> TRUE, ipl |-> 7] /\ pc = [in |-> Main, word |-> 0] /\ a7 = "ssp"
        /\ spOther = "usp" /\ data = 0 /\ history = [retired |-> 0, skipped |-> 0] /\ pendingIpl = 0
        /\ stacks = [k \in {"ssp", "usp"} |-> <<>>]
    BY DEF CpuInit
  <1>2. stopped \in BOOLEAN
    BY Zenon DEF CpuInit
  <1>3. Frames = <<>>
    BY <1>1 DEF Frames
  <1>4. MachineTypeOK
    <2>1. sr \in Status /\ pc \in Place /\ history \in History
      BY <1>1, ResetStatus, Zenon
    <2>2. stacks \in [{"ssp", "usp"} -> Seq(FrameType)] /\ stacks["usp"] = <<>>
      BY <1>1
    <2> QED BY <1>1, <1>2, <2>1, <2>2 DEF MachineTypeOK
  <1>5. Good(<<>>, sr, pc, a7, spOther, data, history)
    <2>1. "usp" \in {"ssp", "usp"}
      OBVIOUS
    <2> QED BY <1>1, <2>1, Begins
  <1> QED BY <1>3, <1>4, <1>5 DEF IInv

\* Every step keeps the invariant.
LEMMA Inductive == IInv /\ [CpuNext]_cpuVars => IInv'
  <1> SUFFICES ASSUME IInv, [CpuNext]_cpuVars PROVE IInv'
    OBVIOUS
  <1>1. CASE TakeInterrupt BY <1>1, TakeInterruptKept
  <1>2. CASE Idle BY <1>2, StutterKept DEF Idle
  <1>3. CASE Execute
    BY <1>3, PlainKept, BranchKept, AccessKept, FaultKept, TrapKept, IllegalKept, WriteSrKept, MoveUspKept,
       StopKept, RteKept, EditKept, ViolatesKept DEF Execute
  <1>4. CASE \E l \in Ipl : Present(l) BY <1>4, PresentKept
  <1>5. CASE ResetCpu BY <1>5, ResetCpuKept
  <1>6. CASE UNCHANGED cpuVars BY <1>6, StutterKept
  <1> QED BY <1>1, <1>2, <1>3, <1>4, <1>5, <1>6 DEF CpuNext

\* Whatever the program and however its exceptions nest, Main executes its
\* instructions in their order and each of them once, its registers hold their
\* effects, the two stacks stay apart and the mask only rises (cpu.rs).
THEOREM CpuInvariant == CpuSpec => []CpuInv
  <1>1. CpuSpec => []IInv
    BY InitHolds, Inductive, PTL DEF CpuSpec
  <1> QED BY <1>1, Implies, PTL

-----------------------------------------------------------------------------
(* Operands on the stack.                                                  *)

Memory == [0..(Bottom - 1) -> Byte]
SizeEntry == {e \in [kind : Sizes, at : Address, value : UNION {[1..n -> Byte] : n \in {1, 2, 4}}] :
                  e.value \in [1..Bytes(e.kind) -> Byte]}
FrameEntry == [kind : {"frame"}, at : Address, value : Long]
MovemEntry == [kind : {"movem"}, at : Address, size : {"word", "long"}, list : RegisterLists,
               saved : [d0 : Long, a0 : Long], sp : Address]
StackEntry == SizeEntry \cup FrameEntry \cup MovemEntry

\* Bytes of the stack an entry takes.
Extent(e) == CASE e.kind \in Sizes -> StepA7(e.kind)
               [] e.kind = "frame" -> 4 + Displacement
               [] OTHER -> Bytes(e.size) * Len(e.list)

\* Entries lie next to one another, from Bottom down to A7, at even addresses.
Adjacent(s) ==
    /\ \A i \in 1..Len(s) : /\ s[i].at % 2 = 0
                            /\ s[i].at + Extent(s[i]) = IF i = 1 THEN Bottom ELSE s[i - 1].at
                            /\ s[i].kind = "movem" => s[i].sp = s[i].at + Extent(s[i])
    /\ \A i, j \in 1..Len(s) : i <= j => s[j].at <= s[i].at

Points(s, a) == a = IF s = <<>> THEN Bottom ELSE s[Len(s)].at

\* `Intact` for a memory.
Held(e, mem) ==
    CASE e.kind \in Sizes -> \A j \in 1..Bytes(e.kind) : mem[e.at + j - 1] = e.value[j]
      [] e.kind = "frame" -> \A j \in 1..4 : mem[e.at + Displacement + j - 1] = e.value[j]
      [] OTHER -> \A k \in 1..Len(e.list), j \in 1..Bytes(e.size) :
            mem[e.at + Bytes(e.size) * (Len(e.list) - k) + j - 1] = Low(Saved(e, e.list[k]), Bytes(e.size))[j]

OperandsIInv ==
    /\ d0 \in Long /\ a0 \in Long /\ sp \in Address /\ ram \in Memory
    /\ pushed \in Seq(StackEntry)
    /\ Adjacent(pushed)
    /\ Points(pushed, sp)
    /\ \A i \in 1..Len(pushed) : Held(pushed[i], ram)

-----------------------------------------------------------------------------
\* An operand has one, two or four bytes, and A7 moves by two or four.
LEMMA SizesAre ==
  /\ \A size \in Sizes : Bytes(size) \in {1, 2, 4} /\ StepA7(size) \in {2, 4} /\ Bytes(size) <= StepA7(size)
  /\ Bytes("byte") = 1 /\ Bytes("word") = 2 /\ Bytes("long") = 4
  BY DEF Sizes, Bytes, StepA7

\* A list of MOVEM has D0 in it, and two or three registers, none twice.
LEMMA ListsAre ==
  ASSUME NEW list \in RegisterLists
  PROVE  /\ list \in Seq({"d0", "a0", "sp"}) /\ Len(list) \in {2, 3} /\ DOMAIN list = 1..Len(list)
         /\ \E k \in 1..Len(list) : list[k] = "d0"
         /\ \A k \in 1..Len(list) : list[k] \in {"d0", "a0", "sp"}
  <1>1. CASE list = <<"a0", "d0">>
    <2>1. Len(list) = 2 /\ list[2] = "d0" /\ list[1] = "a0" /\ DOMAIN list = 1..2
      BY <1>1
    <2>2. list \in Seq({"d0", "a0", "sp"})
      BY <1>1
    <2> QED BY <2>1, <2>2
  <1>2. CASE list = <<"sp", "d0">>
    <2>1. Len(list) = 2 /\ list[2] = "d0" /\ list[1] = "sp" /\ DOMAIN list = 1..2
      BY <1>2
    <2>2. list \in Seq({"d0", "a0", "sp"})
      BY <1>2
    <2> QED BY <2>1, <2>2
  <1>3. CASE list = <<"sp", "a0", "d0">>
    <2>1. Len(list) = 3 /\ list[3] = "d0" /\ list[2] = "a0" /\ list[1] = "sp" /\ DOMAIN list = 1..3
      BY <1>3
    <2>2. list \in Seq({"d0", "a0", "sp"})
      BY <1>3
    <2> QED BY <2>1, <2>2
  <1> QED BY <1>1, <1>2, <1>3 DEF RegisterLists

\* An address is a register value.
LEMMA AsLongTyped ==
  ASSUME NEW addr \in Nat
  PROVE  AsLong(addr) \in Long
  <1> DEFINE b == addr \div Base
             c == b \div Base
             d == c \div Base
  <1>1. Base \in Nat \ {0}
    BY StackAssumption
  <1>2. ASSUME NEW m \in Nat PROVE m \div Base \in Nat /\ m % Base \in 0..(Base - 1)
    BY <1>1
  <1>3. b \in Nat
    BY <1>2
  <1> HIDE DEF b
  <1>4. c \in Nat
    BY <1>2, <1>3
  <1> HIDE DEF c
  <1>5. d \in Nat
    BY <1>2, <1>4
  <1> HIDE DEF d
  <1>6. addr % Base \in Byte /\ b % Base \in Byte /\ c % Base \in Byte /\ d % Base \in Byte
    BY <1>2, <1>3, <1>4, <1>5 DEF Byte
  <1>7. AsLong(addr) = <<d % Base, c % Base, b % Base, addr % Base>>
    BY DEF AsLong, b, c, d
  <1>8. ASSUME NEW w \in Byte, NEW x \in Byte, NEW y \in Byte, NEW z \in Byte
        PROVE  <<w, x, y, z>> \in [1..4 -> Byte]
    <2>1. <<w, x, y, z>> \in Seq(Byte) /\ Len(<<w, x, y, z>>) = 4
      OBVIOUS
    <2> QED BY <2>1
  <1> QED BY <1>6, <1>7, <1>8 DEF Long

\* The operand of a register has its bytes.
LEMMA LowTyped ==
  ASSUME NEW v \in Long, NEW n \in 1..4
  PROVE  /\ Low(v, n) \in [1..n -> Byte]
         /\ \A j \in 1..n : Low(v, n)[j] = v[4 - n + j]
  BY DEF Low, Long

\* A function on 1..n is a sequence of n.
LEMMA BytesAreSequence ==
  ASSUME NEW n \in Nat, NEW v \in [1..n -> Byte]
  PROVE  v \in Seq(Byte) /\ Len(v) = n
  OBVIOUS

\* A register written in part is a register.
LEMMA MergeTyped ==
  ASSUME NEW old \in Long, NEW n \in 1..4, NEW v \in [1..n -> Byte]
  PROVE  Merge(old, v) \in Long
  <1>1. Len(v) = n
    BY BytesAreSequence
  <1> QED BY <1>1 DEF Merge, Long

\* An operand extended with its sign is a register.
LEMMA SextTyped ==
  ASSUME NEW n \in 1..4, NEW v \in [1..n -> Byte]
  PROVE  Sext(v) \in Long
  <1>1. Len(v) = n
    BY BytesAreSequence
  <1>2. Base - 1 \in Byte /\ 0 \in Byte
    BY StackAssumption DEF Byte
  <1>3. ASSUME NEW i \in 1..4 PROVE (i > 4 - n) => (i - 4 + n \in 1..n)
    OBVIOUS
  <1> QED BY <1>1, <1>2, <1>3 DEF Sext, Long

\* A long word needs no extension.
LEMMA SextLong ==
  ASSUME NEW v \in Long
  PROVE  Sext(Low(v, 4)) = v
  <1> DEFINE l == Low(v, 4)
  <1>1. l \in [1..4 -> Byte] /\ \A j \in 1..4 : l[j] = v[j]
    BY LowTyped
  <1>2. Len(l) = 4
    BY <1>1, BytesAreSequence
  <1> HIDE DEF l
  <1>3. Sext(l) = [i \in 1..4 |-> l[i]]
    BY <1>2 DEF Sext
  <1> QED BY <1>1, <1>3 DEF Long, l

\* A write changes the operand's bytes and no other.
LEMMA WriteKeeps ==
  ASSUME NEW mem \in Memory, NEW addr \in Nat, NEW n \in 1..4, NEW v \in [1..n -> Byte],
         addr + n <= Bottom
  PROVE  /\ Write(mem, addr, v) \in Memory
         /\ \A x \in 0..(Bottom - 1) : x < addr \/ x >= addr + n => Write(mem, addr, v)[x] = mem[x]
         /\ \A j \in 1..n : Write(mem, addr, v)[addr + j - 1] = v[j]
  <1>1. Len(v) = n
    BY BytesAreSequence
  <1>2. Bottom \in Nat
    BY StackAssumption
  <1>3. Write(mem, addr, v) = [x \in 0..(Bottom - 1) |-> IF x \in addr..(addr + n - 1) THEN v[x - addr + 1] ELSE mem[x]]
    BY <1>1 DEF Write, Memory
  <1>4. ASSUME NEW x \in addr..(addr + n - 1) PROVE x - addr + 1 \in 1..n
    OBVIOUS
  <1>5. Write(mem, addr, v) \in Memory
    BY <1>3, <1>4 DEF Memory
  <1>6. ASSUME NEW j \in 1..n PROVE Write(mem, addr, v)[addr + j - 1] = v[j]
    <2>1. addr + j - 1 \in 0..(Bottom - 1) /\ addr + j - 1 \in addr..(addr + n - 1)
          /\ (addr + j - 1) - addr + 1 = j
      BY <1>2
    <2> QED BY <1>3, <2>1
  <1>7. ASSUME NEW x \in 0..(Bottom - 1), x < addr \/ x >= addr + n PROVE Write(mem, addr, v)[x] = mem[x]
    BY <1>3, <1>7
  <1> QED BY <1>5, <1>6, <1>7

\* What is read of a memory.
LEMMA ReadTyped ==
  ASSUME ram \in Memory, NEW addr \in Nat, NEW n \in 1..4, addr + n <= Bottom
  PROVE  /\ Read(addr, n) \in [1..n -> Byte]
         /\ \A j \in 1..n : Read(addr, n)[j] = ram[addr + j - 1]
  <1>1. \A j \in 1..n : addr + j - 1 \in 0..(Bottom - 1)
    BY StackAssumption
  <1> QED BY <1>1 DEF Read, Memory

-----------------------------------------------------------------------------
\* The bytes an entry takes hold what was pushed.
LEMMA ExtentIs ==
  ASSUME NEW e \in StackEntry
  PROVE  /\ e.at \in Address /\ Extent(e) \in Nat \ {0} /\ Extent(e) % 2 = 0
         /\ e.kind \in Sizes => Bytes(e.kind) <= Extent(e) /\ e.value \in [1..Bytes(e.kind) -> Byte]
         /\ e.kind = "frame" => Extent(e) = 4 + Displacement /\ e.value \in Long
         /\ e.kind \notin Sizes /\ e.kind # "frame" =>
              /\ e \in MovemEntry /\ Bytes(e.size) \in {2, 4} /\ Len(e.list) \in {2, 3}
              /\ Extent(e) = Bytes(e.size) * Len(e.list)
         /\ e.kind = "movem" => e.kind \notin Sizes /\ e.kind # "frame"
  <1>1. CASE e \in SizeEntry
    BY <1>1, SizesAre DEF SizeEntry, Extent, Sizes
  <1>2. CASE e \in FrameEntry
    <2>1. e.kind = "frame" /\ e.kind \notin Sizes /\ e.at \in Address /\ e.value \in Long
      BY <1>2 DEF FrameEntry, Sizes
    <2>2. Extent(e) = 4 + Displacement
      BY <2>1 DEF Extent
    <2>3. (4 + Displacement) % 2 = 0 /\ 4 + Displacement \in Nat \ {0}
      BY StackAssumption
    <2> QED BY <2>1, <2>2, <2>3
  <1>3. CASE e \in MovemEntry
    <2>1. e.kind = "movem" /\ e.kind \notin Sizes /\ e.at \in Address /\ e.size \in {"word", "long"}
          /\ e.list \in RegisterLists
      BY <1>3 DEF MovemEntry, Sizes
    <2>2. Extent(e) = Bytes(e.size) * Len(e.list) /\ Bytes(e.size) \in {2, 4} /\ Len(e.list) \in {2, 3}
      BY <2>1, SizesAre, ListsAre DEF Extent
    <2>3. \A n \in {2, 4}, l \in {2, 3} : n * l \in Nat \ {0} /\ (n * l) % 2 = 0
      OBVIOUS
    <2>4. Extent(e) \in Nat \ {0} /\ Extent(e) % 2 = 0
      BY <2>2, <2>3
    <2> QED BY <1>3, <2>1, <2>2, <2>4
  <1> QED BY <1>1, <1>2, <1>3 DEF StackEntry

\* An entry whose bytes stay as they are is held still.
LEMMA HeldStays ==
  ASSUME NEW e \in StackEntry, NEW mem, NEW new, Held(e, mem),
         \A x \in e.at..(e.at + Extent(e) - 1) : new[x] = mem[x]
  PROVE  Held(e, new)
  <1>1. e.at \in Nat
    BY ExtentIs DEF Address
  <1>2. CASE e.kind \in Sizes
    <2>1. Bytes(e.kind) \in Nat /\ Bytes(e.kind) <= Extent(e) /\ Extent(e) \in Nat /\ e.kind # "frame"
      BY <1>2, ExtentIs, SizesAre DEF Sizes
    <2>2. ASSUME NEW j \in 1..Bytes(e.kind) PROVE new[e.at + j - 1] = e.value[j]
      <3>1. e.at + j - 1 \in e.at..(e.at + Extent(e) - 1)
        BY <1>1, <2>1
      <3>2. mem[e.at + j - 1] = e.value[j]
        BY <1>2, <2>1 DEF Held
      <3> QED BY <3>1, <3>2
    <2> QED BY <1>2, <2>1, <2>2 DEF Held
  <1>3. CASE e.kind = "frame"
    <2>1. Extent(e) = 4 + Displacement /\ Displacement \in Nat /\ e.kind \notin Sizes
      BY <1>3, ExtentIs, StackAssumption DEF Sizes
    <2>2. ASSUME NEW j \in 1..4 PROVE new[e.at + Displacement + j - 1] = e.value[j]
      <3>1. e.at + Displacement + j - 1 \in e.at..(e.at + Extent(e) - 1)
        BY <1>1, <2>1
      <3>2. mem[e.at + Displacement + j - 1] = e.value[j]
        BY <1>3, <2>1 DEF Held
      <3> QED BY <3>1, <3>2
    <2> QED BY <1>3, <2>1, <2>2 DEF Held
  <1>4. CASE e.kind \notin Sizes /\ e.kind # "frame"
    <2> DEFINE n == Bytes(e.size)
               l == Len(e.list)
    <2>1. n \in {2, 4} /\ l \in {2, 3} /\ Extent(e) = n * l
      BY <1>4, ExtentIs
    <2>2. ASSUME NEW k \in 1..l, NEW j \in 1..n
          PROVE  new[e.at + n * (l - k) + j - 1] = Low(Saved(e, e.list[k]), n)[j]
      <3>1. mem[e.at + n * (l - k) + j - 1] = Low(Saved(e, e.list[k]), n)[j]
        BY <1>4 DEF Held
      <3> HIDE DEF n, l
      <3>2. e.at + n * (l - k) + j - 1 \in e.at..(e.at + n * l - 1)
        BY <1>1, <2>1
      <3> QED BY <2>1, <3>1, <3>2
    <2> QED BY <1>4, <2>2 DEF Held
  <1> QED BY <1>2, <1>3, <1>4

\* Under A7 no entry begins.
LEMMA AboveA7 ==
  ASSUME NEW s \in Seq(StackEntry), NEW a, Adjacent(s), Points(s, a)
  PROVE  /\ a \in Address /\ a % 2 = 0
         /\ \A i \in 1..Len(s) : s[i] \in StackEntry /\ a <= s[i].at /\ s[i].at + Extent(s[i]) <= Bottom
  <1>1. Bottom \in Nat /\ Bottom % 2 = 0
    BY StackAssumption
  <1>2. ASSUME NEW i \in 1..Len(s)
        PROVE  s[i] \in StackEntry /\ s[i].at \in Address /\ a <= s[i].at /\ s[i].at + Extent(s[i]) <= Bottom
    <2>1. s[i] \in StackEntry /\ s # <<>> /\ Len(s) \in 1..Len(s) /\ s[Len(s)] \in StackEntry
      OBVIOUS
    <2>2. a = s[Len(s)].at /\ s[Len(s)].at <= s[i].at
      BY <2>1 DEF Points, Adjacent
    <2>3. s[i].at \in Address
      BY <2>1, ExtentIs
    <2>4. CASE i = 1
      BY <1>1, <2>1, <2>2, <2>3, <2>4 DEF Adjacent
    <2>5. CASE i # 1
      <3>1. i - 1 \in 1..Len(s) /\ s[i - 1] \in StackEntry
        BY <2>5
      <3>2. s[i].at + Extent(s[i]) = s[i - 1].at /\ s[i - 1].at \in Address
        BY <2>5, <3>1, ExtentIs DEF Adjacent
      <3> QED BY <1>1, <2>1, <2>2, <2>3, <3>2 DEF Address
    <2> QED BY <2>4, <2>5
  <1>3. CASE s = <<>>
    BY <1>1, <1>2, <1>3 DEF Points, Address
  <1>4. CASE s # <<>>
    <2>1. Len(s) \in 1..Len(s) /\ a = s[Len(s)].at
      BY <1>4 DEF Points
    <2> QED BY <1>2, <2>1 DEF Adjacent
  <1> QED BY <1>2, <1>3, <1>4

\* An element at the end of a sequence.
LEMMA Appended ==
  ASSUME NEW S, NEW s \in Seq(S), NEW e \in S
  PROVE  /\ Append(s, e) \in Seq(S) /\ Len(s) \in Nat /\ Len(Append(s, e)) = Len(s) + 1
         /\ Append(s, e)[Len(s) + 1] = e /\ Append(s, e) # <<>>
         /\ \A i \in 1..Len(s) : Append(s, e)[i] = s[i]
  OBVIOUS

\* A new entry just below A7 extends the stack, if what it takes alone was
\* written.
LEMMA Pushes ==
  ASSUME NEW s \in Seq(StackEntry), NEW a, NEW mem, NEW new, NEW e \in StackEntry,
         Adjacent(s), Points(s, a), \A i \in 1..Len(s) : Held(s[i], mem),
         e.at + Extent(e) = a, e.kind = "movem" => e.sp = a,
         Held(e, new), \A x \in a..(Bottom - 1) : new[x] = mem[x]
  PROVE  LET t == Append(s, e) IN
         /\ t \in Seq(StackEntry) /\ Adjacent(t) /\ Points(t, e.at)
         /\ \A i \in 1..Len(t) : Held(t[i], new)
  <1> DEFINE t == Append(s, e)
             L == Len(s)
  <1>1. /\ t \in Seq(StackEntry) /\ L \in Nat /\ Len(t) = L + 1 /\ t[L + 1] = e /\ t # <<>>
        /\ \A i \in 1..L : t[i] = s[i]
    BY Appended
  <1>2. /\ a \in Address /\ a % 2 = 0
        /\ \A i \in 1..L : s[i] \in StackEntry /\ a <= s[i].at /\ s[i].at + Extent(s[i]) <= Bottom
    BY AboveA7
  <1>3. e.at \in Nat /\ Extent(e) \in Nat /\ Extent(e) % 2 = 0 /\ Bottom \in Nat /\ a \in Nat
    BY <1>2, ExtentIs, StackAssumption DEF Address
  <1>4. e.at % 2 = 0 /\ e.at <= a
    <2>1. \A x, y \in Nat : y % 2 = 0 /\ (x + y) % 2 = 0 => x % 2 = 0 /\ x <= x + y
      OBVIOUS
    <2> QED BY <1>2, <1>3, <2>1
  <1>5. a = IF L = 0 THEN Bottom ELSE s[L].at
    BY DEF Points
  <1>6. \A i \in 1..L : /\ s[i].at % 2 = 0
                        /\ s[i].at + Extent(s[i]) = IF i = 1 THEN Bottom ELSE s[i - 1].at
                        /\ s[i].kind = "movem" => s[i].sp = s[i].at + Extent(s[i])
    BY DEF Adjacent
  <1>7. \A i, j \in 1..L : i <= j => s[j].at <= s[i].at
    BY DEF Adjacent
  <1>8. \A i \in 1..L : Held(s[i], mem) /\ s[i].at \in Nat
    BY <1>2, ExtentIs DEF Address
  <1> HIDE DEF t, L
  <1>9. ASSUME NEW i \in 1..(L + 1)
        PROVE  /\ t[i].at % 2 = 0
               /\ t[i].at + Extent(t[i]) = IF i = 1 THEN Bottom ELSE t[i - 1].at
               /\ t[i].kind = "movem" => t[i].sp = t[i].at + Extent(t[i])
               /\ Held(t[i], new)
    <2>1. CASE i = L + 1
      <3>1. t[i] = e /\ (i = 1 <=> L = 0) /\ (i # 1 => t[i - 1] = s[L])
        BY <1>1, <2>1
      <3> QED BY <1>4, <1>5, <3>1
    <2>2. CASE i # L + 1
      <3>1. i \in 1..L /\ t[i] = s[i] /\ (i # 1 => t[i - 1] = s[i - 1])
        BY <1>1, <2>2
      <3>2. Held(s[i], new)
        <4>1. \A x \in s[i].at..(s[i].at + Extent(s[i]) - 1) : x \in a..(Bottom - 1)
          <5>1. s[i].at \in Nat /\ Extent(s[i]) \in Nat /\ a <= s[i].at /\ s[i].at + Extent(s[i]) <= Bottom
            BY <1>2, <1>8, <3>1, ExtentIs
          <5> QED BY <1>3, <5>1
        <4> QED BY <1>2, <1>8, <3>1, <4>1, HeldStays
      <3> QED BY <1>6, <3>1, <3>2
    <2> QED BY <2>1, <2>2
  <1>10. ASSUME NEW i \in 1..(L + 1), NEW j \in 1..(L + 1), i <= j PROVE t[j].at <= t[i].at
    <2>1. CASE j \in 1..L
      <3>1. i \in 1..L
        BY <1>1, <1>10, <2>1
      <3> QED BY <1>1, <1>7, <1>10, <2>1, <3>1
    <2>2. CASE j = L + 1 /\ i \in 1..L
      <3>1. t[j] = e /\ t[i] = s[i] /\ a <= s[i].at /\ s[i].at \in Nat
        BY <1>1, <1>2, <1>8, <2>2
      <3> QED BY <1>3, <1>4, <3>1
    <2>3. CASE j = L + 1 /\ i = L + 1
      BY <1>1, <1>3, <2>3
    <2> QED BY <1>1, <2>1, <2>2, <2>3
  <1>11. Adjacent(t)
    BY <1>1, <1>9, <1>10 DEF Adjacent
  <1>12. Points(t, e.at)
    BY <1>1 DEF Points
  <1> QED BY <1>1, <1>9, <1>11, <1>12 DEF t

\* What is left when the last entries are gone.
LEMMA Pops ==
  ASSUME NEW s \in Seq(StackEntry), NEW mem, NEW i \in 1..Len(s),
         Adjacent(s), \A k \in 1..Len(s) : Held(s[k], mem)
  PROVE  LET t == SubSeq(s, 1, i - 1) IN
         /\ t \in Seq(StackEntry) /\ Len(t) = i - 1 /\ Adjacent(t) /\ Points(t, s[i].at + Extent(s[i]))
         /\ \A k \in 1..Len(t) : Held(t[k], mem)
  <1> DEFINE t == SubSeq(s, 1, i - 1)
  <1>1. t \in Seq(StackEntry) /\ Len(t) = i - 1 /\ \A k \in 1..(i - 1) : t[k] = s[k]
    OBVIOUS
  <1>2. i \in Nat \ {0} /\ i - 1 \in Nat /\ \A k \in 1..(i - 1) : k \in 1..Len(s)
    OBVIOUS
  <1>3. s[i].at + Extent(s[i]) = IF i = 1 THEN Bottom ELSE s[i - 1].at
    BY DEF Adjacent
  <1> HIDE DEF t
  <1>4. Adjacent(t)
    <2>1. ASSUME NEW k \in 1..(i - 1)
          PROVE  /\ t[k].at % 2 = 0
                 /\ t[k].at + Extent(t[k]) = IF k = 1 THEN Bottom ELSE t[k - 1].at
                 /\ t[k].kind = "movem" => t[k].sp = t[k].at + Extent(t[k])
      <3>1. t[k] = s[k] /\ k \in 1..Len(s) /\ (k # 1 => t[k - 1] = s[k - 1])
        BY <1>1, <1>2
      <3> QED BY <3>1 DEF Adjacent
    <2>2. ASSUME NEW k \in 1..(i - 1), NEW m \in 1..(i - 1), k <= m PROVE t[m].at <= t[k].at
      <3>1. t[k] = s[k] /\ t[m] = s[m] /\ k \in 1..Len(s) /\ m \in 1..Len(s)
        BY <1>1, <1>2
      <3> QED BY <2>2, <3>1 DEF Adjacent
    <2> QED BY <1>1, <2>1, <2>2 DEF Adjacent
  <1>5. Points(t, s[i].at + Extent(s[i]))
    <2>1. CASE i = 1
      <3>1. t = <<>>
        BY <1>1, <2>1
      <3> QED BY <1>3, <2>1, <3>1 DEF Points
    <2>2. CASE i # 1
      <3>1. t # <<>> /\ t[Len(t)] = s[i - 1]
        BY <1>1, <1>2, <2>2
      <3> QED BY <1>3, <2>2, <3>1 DEF Points
    <2> QED BY <2>1, <2>2
  <1>6. \A k \in 1..Len(t) : Held(t[k], mem)
    BY <1>1, <1>2
  <1> QED BY <1>1, <1>4, <1>5, <1>6 DEF t

-----------------------------------------------------------------------------
\* The memory after each register of a MOVEM.
MovemRun(size, list) ==
    CHOOSE w : w = [i \in 0..Len(list) |->
        IF i = 0 THEN ram
        ELSE Write(w[i - 1], sp - i * Bytes(size), Stored(list[i], size))]

\* What MOVEM stores of a register is the operand of what was saved.
LEMMA StoredIs ==
  ASSUME NEW size \in {"word", "long"}, NEW list \in RegisterLists, NEW k \in 1..Len(list),
         d0 \in Long, a0 \in Long, sp \in Nat,
         NEW e, e.saved.d0 = d0, e.saved.a0 = a0, e.sp = sp
  PROVE  /\ Stored(list[k], size) \in [1..Bytes(size) -> Byte]
         /\ Stored(list[k], size) = Low(Saved(e, list[k]), Bytes(size))
  <1>1. list[k] \in {"d0", "a0", "sp"}
    BY ListsAre
  <1>2. Bytes(size) \in 1..4
    BY SizesAre
  <1>3. /\ Saved(e, list[k]) = CASE list[k] = "d0" -> d0 [] list[k] = "a0" -> a0 [] OTHER -> AsLong(sp)
        /\ Saved(e, list[k]) \in Long
    BY <1>1, AsLongTyped DEF Saved
  <1>4. Stored(list[k], size) = Low(Saved(e, list[k]), Bytes(size))
    BY <1>3 DEF Stored
  <1> QED BY <1>2, <1>3, <1>4, LowTyped

\* The run of a MOVEM is register by register.
LEMMA MovemRuns ==
  ASSUME NEW size, NEW list \in RegisterLists
  PROVE  LET w == MovemRun(size, list) IN
         /\ w[0] = ram
         /\ \A i \in 1..Len(list) :
              w[i] = Write(w[i - 1], sp - i * Bytes(size), Stored(list[i], size))
  <1> DEFINE L == Len(list)
             n == Bytes(size)
             w == MovemRun(size, list)
             Next(m, i) == Write(m, sp - i * n, Stored(list[i], size))
  <1>1. L \in {2, 3}
    BY ListsAre
  <1>2. w = CHOOSE f : f = [i \in 0..L |-> IF i = 0 THEN ram ELSE Next(f[i - 1], i)]
    BY DEF MovemRun
  <1> HIDE DEF Next, n, w, L
  <1>3. \E f : f = [i \in 0..L |-> IF i = 0 THEN ram ELSE Next(f[i - 1], i)]
    <2> DEFINE e1 == Next(ram, 1)
               e2 == Next(e1, 2)
               e3 == Next(e2, 3)
               f == [i \in 0..L |-> IF i = 0 THEN ram ELSE IF i = 1 THEN e1 ELSE IF i = 2 THEN e2 ELSE e3]
    <2>1. ASSUME NEW i \in 0..L PROVE f[i] = IF i = 0 THEN ram ELSE Next(f[i - 1], i)
      <3>1. f[0] = ram /\ f[1] = e1 /\ f[2] = e2 /\ (L = 3 => f[3] = e3)
        BY <1>1
      <3>2. i \in {0, 1, 2} \/ (L = 3 /\ i = 3)
        BY <1>1
      <3> HIDE DEF f
      <3> QED BY <3>1, <3>2
    <2>2. f = [i \in 0..L |-> IF i = 0 THEN ram ELSE Next(f[i - 1], i)]
      <3> DEFINE g == [i \in 0..L |-> IF i = 0 THEN ram ELSE Next(f[i - 1], i)]
      <3>1. \A i \in 0..L : f[i] = g[i]
        BY <2>1
      <3>2. f = [i \in 0..L |-> f[i]] /\ g = [i \in 0..L |-> g[i]]
        OBVIOUS
      <3> HIDE DEF f, g
      <3>3. f = g
        BY <3>1, <3>2
      <3> QED BY <3>3 DEF g
    <2> HIDE DEF f
    <2> QED BY <2>2
  <1>4. w = [i \in 0..L |-> IF i = 0 THEN ram ELSE Next(w[i - 1], i)]
    BY <1>2, <1>3
  <1>5. w[0] = ram
    BY <1>1, <1>4
  <1>6. ASSUME NEW i \in 1..L PROVE w[i] = Next(w[i - 1], i)
    <2>1. i \in 0..L /\ i # 0
      BY <1>1
    <2> QED BY <1>4, <2>1
  <1> QED BY <1>5, <1>6 DEF Next, w, n, L

\* Each register is stored on its own place below A7 and stays there.
LEMMA MovemStores ==
  ASSUME NEW size \in {"word", "long"}, NEW list \in RegisterLists,
         d0 \in Long, a0 \in Long, sp \in Address, ram \in Memory, sp - Len(list) * Bytes(size) >= 0
  PROVE  LET w == MovemRun(size, list)[Len(list)]
             n == Bytes(size) IN
         /\ w \in Memory
         /\ \A x \in sp..(Bottom - 1) : w[x] = ram[x]
         /\ \A k \in 1..Len(list), j \in 1..n : w[sp - k * n + j - 1] = Stored(list[k], size)[j]
  <1> DEFINE L == Len(list)
             n == Bytes(size)
             w == MovemRun(size, list)
             v(k) == Stored(list[k], size)
  <1>1. L \in {2, 3} /\ n \in {2, 4} /\ sp \in Nat /\ sp <= Bottom /\ Bottom \in Nat
    BY ListsAre, SizesAre, StackAssumption DEF Address
  <1>2. ASSUME NEW k \in 1..L PROVE v(k) \in [1..n -> Byte]
    <2> DEFINE e == [saved |-> [d0 |-> d0, a0 |-> a0], sp |-> sp]
    <2>1. e.saved.d0 = d0 /\ e.saved.a0 = a0 /\ e.sp = sp
      OBVIOUS
    <2> HIDE DEF e
    <2> QED BY <1>1, <2>1, StoredIs
  <1>3. /\ w[0] = ram
        /\ \A i \in 1..L : w[i] = Write(w[i - 1], sp - i * n, v(i))
    BY MovemRuns
  <1>4. sp - L * n >= 0
    OBVIOUS
  <1> HIDE DEF L, n, w, v
  \* One more register.
  <1>5. ASSUME NEW i \in 1..L, w[i - 1] \in Memory
        PROVE  /\ w[i] \in Memory
               /\ \A x \in 0..(Bottom - 1) : x < sp - i * n \/ x >= sp - i * n + n => w[i][x] = w[i - 1][x]
               /\ \A j \in 1..n : w[i][sp - i * n + j - 1] = v(i)[j]
    <2> DEFINE a == sp - i * n
    <2>1. a \in Nat /\ a + n <= Bottom /\ n \in 1..4
      BY <1>1, <1>4
    <2>2. w[i] = Write(w[i - 1], a, v(i)) /\ v(i) \in [1..n -> Byte]
      BY <1>2, <1>3
    <2> HIDE DEF a
    <2>3. /\ w[i] \in Memory
          /\ \A x \in 0..(Bottom - 1) : x < a \/ x >= a + n => w[i][x] = w[i - 1][x]
          /\ \A j \in 1..n : w[i][a + j - 1] = v(i)[j]
      <3> DEFINE before == w[i - 1]
                 operand == v(i)
                 after == w[i]
      <3>1. before \in Memory /\ operand \in [1..n -> Byte] /\ after = Write(before, a, operand)
        BY <1>5, <2>2
      <3> HIDE DEF before, operand, after
      <3>2. /\ Write(before, a, operand) \in Memory
            /\ \A x \in 0..(Bottom - 1) : x < a \/ x >= a + n => Write(before, a, operand)[x] = before[x]
            /\ \A j \in 1..n : Write(before, a, operand)[a + j - 1] = operand[j]
        BY <2>1, <3>1, WriteKeeps
      <3> QED BY <3>1, <3>2 DEF before, operand, after
    <2> QED BY <2>3 DEF a
  <1> DEFINE Done(m) ==
               /\ w[m] \in Memory
               /\ \A x \in sp..(Bottom - 1) : w[m][x] = ram[x]
               /\ \A k \in 1..m, j \in 1..n : w[m][sp - k * n + j - 1] = v(k)[j]
  <1>6. Done(0)
    BY <1>3
  <1>7. ASSUME NEW m \in 0..(L - 1), Done(m) PROVE Done(m + 1)
    <2> DEFINE i == m + 1
    <2>1. i \in 1..L /\ i - 1 = m /\ w[i - 1] \in Memory
      BY <1>1, <1>7
    <2>2. /\ w[i] \in Memory
          /\ \A x \in 0..(Bottom - 1) : x < sp - i * n \/ x >= sp - i * n + n => w[i][x] = w[m][x]
          /\ \A j \in 1..n : w[i][sp - i * n + j - 1] = v(i)[j]
      BY <1>5, <2>1
    <2>3. ASSUME NEW x \in sp..(Bottom - 1) PROVE w[i][x] = ram[x]
      <3>1. x \in 0..(Bottom - 1) /\ x >= sp - i * n + n
        BY <1>1, <2>1
      <3> QED BY <1>7, <2>2, <3>1
    <2>4. ASSUME NEW k \in 1..i, NEW j \in 1..n PROVE w[i][sp - k * n + j - 1] = v(k)[j]
      <3>1. CASE k = i
        BY <2>2, <3>1
      <3>2. CASE k # i
        <4> DEFINE x == sp - k * n + j - 1
        <4>1. k \in 1..m /\ x \in 0..(Bottom - 1) /\ x >= sp - i * n + n
          BY <1>1, <1>4, <2>1, <3>2
        <4>2. w[m][x] = v(k)[j]
          BY <1>7, <4>1
        <4> HIDE DEF x, i
        <4>3. w[i][x] = w[m][x]
          BY <2>2, <4>1
        <4> QED BY <4>2, <4>3 DEF x
      <3> QED BY <3>1, <3>2
    <2> QED BY <2>2, <2>3, <2>4
  <1> HIDE DEF Done
  <1>8. Done(1)
    <2>1. 0 \in 0..(L - 1) /\ 0 + 1 = 1
      BY <1>1
    <2> QED BY <1>6, <1>7, <2>1
  <1>9. Done(2)
    <2>1. 1 \in 0..(L - 1) /\ 1 + 1 = 2
      BY <1>1
    <2> QED BY <1>7, <1>8, <2>1
  <1>10. L = 3 => Done(3)
    <2>1. L = 3 => 2 \in 0..(L - 1) /\ 2 + 1 = 3
      BY <1>1
    <2> QED BY <1>7, <1>9, <2>1
  <1>11. Done(L)
    BY <1>1, <1>9, <1>10
  <1> QED BY <1>11 DEF Done, L, n, w, v

-----------------------------------------------------------------------------
\* At the start.
LEMMA OperandsStart == OperandsInit => OperandsIInv
  <1> SUFFICES ASSUME OperandsInit PROVE OperandsIInv
    OBVIOUS
  <1>1. 0 \in Byte /\ Bottom \in Nat
    BY StackAssumption DEF Byte
  <1>2. d0 \in Long /\ a0 \in Long /\ sp \in Address /\ ram \in Memory
    BY <1>1 DEF OperandsInit, Long, Address, Memory
  <1>3. pushed = <<>> /\ sp = Bottom
    BY DEF OperandsInit
  <1>4. Len(pushed) = 0 /\ pushed \in Seq(StackEntry) /\ 1..0 = {}
    BY <1>3
  <1> QED BY <1>2, <1>3, <1>4 DEF OperandsIInv, Adjacent, Points

\* Entries as they are pushed.
LEMMA PushDKeeps ==
  ASSUME OperandsIInv, NEW size \in Sizes, PushD(size)
  PROVE  OperandsIInv'
  <1> DEFINE n == Bytes(size)
             to == sp - StepA7(size)
             v == Low(d0, n)
             e == [kind |-> size, at |-> to, value |-> v]
  <1>1. /\ d0 \in Long /\ a0 \in Long /\ sp \in Address /\ ram \in Memory /\ pushed \in Seq(StackEntry)
        /\ Adjacent(pushed) /\ Points(pushed, sp) /\ \A i \in 1..Len(pushed) : Held(pushed[i], ram)
    BY DEF OperandsIInv
  <1>2. to >= 0 /\ sp' = to /\ ram' = Write(ram, to, v) /\ pushed' = Append(pushed, e) /\ d0' = d0 /\ a0' = a0
    BY DEF PushD
  <1>3. n \in 1..4 /\ n <= StepA7(size) /\ StepA7(size) \in {2, 4} /\ n \in {1, 2, 4}
    BY SizesAre
  <1>4. v \in [1..n -> Byte]
    BY <1>1, <1>3, LowTyped
  <1>5. to \in Address /\ to \in Nat /\ to + StepA7(size) = sp /\ to + n <= Bottom /\ sp >= to + n
        /\ sp \in Nat /\ sp <= Bottom
    <2>1. sp \in Nat /\ Bottom \in Nat /\ sp <= Bottom /\ to >= 0
      BY <1>1, <1>2, StackAssumption DEF Address
    <2> HIDE DEF n
    <2> QED BY <1>3, <2>1 DEF Address
  <1>6. e \in SizeEntry /\ e.kind = size /\ e.at = to /\ e.value = v
    BY <1>3, <1>4, <1>5 DEF SizeEntry
  <1>7. e \in StackEntry /\ Extent(e) = StepA7(size) /\ e.kind # "movem" /\ e.kind # "frame"
    BY <1>6 DEF StackEntry, Extent, Sizes
  <1> HIDE DEF n, to, v, e
  <1>8. /\ ram' \in Memory
        /\ \A x \in 0..(Bottom - 1) : x < to \/ x >= to + n => ram'[x] = ram[x]
        /\ \A j \in 1..n : ram'[to + j - 1] = v[j]
    BY <1>1, <1>2, <1>3, <1>4, <1>5, WriteKeeps
  <1>9. Held(e, ram')
    BY <1>6, <1>7, <1>8 DEF Held, n
  <1>10. \A x \in sp..(Bottom - 1) : ram'[x] = ram[x]
    BY <1>3, <1>5, <1>8
  <1>11. /\ pushed' \in Seq(StackEntry) /\ Adjacent(pushed') /\ Points(pushed', e.at)
         /\ \A i \in 1..Len(pushed') : Held(pushed'[i], ram')
    BY <1>1, <1>2, <1>5, <1>6, <1>7, <1>9, <1>10, Pushes
  <1> QED BY <1>1, <1>2, <1>5, <1>6, <1>8, <1>11 DEF OperandsIInv

\* LINK stores A0 below all that was pushed.
LEMMA LinkKeeps ==
  ASSUME OperandsIInv, Link
  PROVE  OperandsIInv'
  <1> DEFINE to == sp - 4
             at == to - Displacement
             e == [kind |-> "frame", at |-> at, value |-> a0]
  <1>1. /\ d0 \in Long /\ a0 \in Long /\ sp \in Address /\ ram \in Memory /\ pushed \in Seq(StackEntry)
        /\ Adjacent(pushed) /\ Points(pushed, sp) /\ \A i \in 1..Len(pushed) : Held(pushed[i], ram)
    BY DEF OperandsIInv
  <1>2. at >= 0 /\ sp' = at /\ ram' = Write(ram, to, a0) /\ pushed' = Append(pushed, e)
        /\ d0' = d0 /\ a0' = AsLong(to)
    BY DEF Link
  <1>3. /\ at \in Address /\ to \in Nat /\ to + 4 = sp /\ to + 4 <= Bottom /\ sp \in Nat /\ sp <= Bottom
        /\ at + (4 + Displacement) = sp /\ at + Displacement = to /\ at \in Nat /\ Displacement \in Nat
    <2>1. sp \in Nat /\ Bottom \in Nat /\ sp <= Bottom /\ Displacement \in Nat
      BY <1>1, StackAssumption DEF Address
    <2> QED BY <1>2, <2>1 DEF Address
  <1>4. e \in FrameEntry /\ e.kind = "frame" /\ e.at = at /\ e.value = a0
    BY <1>1, <1>3 DEF FrameEntry
  <1>5. e \in StackEntry /\ Extent(e) = 4 + Displacement /\ e.kind # "movem" /\ e.kind \notin Sizes
    BY <1>4 DEF StackEntry, Extent, Sizes
  <1>6. AsLong(to) \in Long
    BY <1>3, AsLongTyped
  <1>7. a0 \in [1..4 -> Byte] /\ 4 \in 1..4
    BY <1>1 DEF Long
  <1> HIDE DEF to, at, e
  <1>8. /\ ram' \in Memory
        /\ \A x \in 0..(Bottom - 1) : x < to \/ x >= to + 4 => ram'[x] = ram[x]
        /\ \A j \in 1..4 : ram'[to + j - 1] = a0[j]
    BY <1>1, <1>2, <1>3, <1>7, WriteKeeps
  <1>9. Held(e, ram')
    BY <1>3, <1>4, <1>5, <1>8 DEF Held
  <1>10. \A x \in sp..(Bottom - 1) : ram'[x] = ram[x]
    BY <1>3, <1>8
  <1>11. e.at + Extent(e) = sp
    BY <1>3, <1>4, <1>5
  <1>12. /\ pushed' \in Seq(StackEntry) /\ Adjacent(pushed') /\ Points(pushed', e.at)
         /\ \A i \in 1..Len(pushed') : Held(pushed'[i], ram')
    BY <1>1, <1>2, <1>5, <1>9, <1>10, <1>11, Pushes
  <1> QED BY <1>1, <1>2, <1>3, <1>4, <1>6, <1>8, <1>12 DEF OperandsIInv

\* MOVEM to the stack stores its registers below all that was pushed.
LEMMA MovemPushKeeps ==
  ASSUME OperandsIInv, NEW size \in Sizes, NEW list \in RegisterLists, MovemPush(size, list)
  PROVE  OperandsIInv'
  <1> DEFINE n == Bytes(size)
             L == Len(list)
             at == sp - L * n
             e == [kind |-> "movem", at |-> at, size |-> size, list |-> list,
                   saved |-> [d0 |-> d0, a0 |-> a0], sp |-> sp]
  <1>1. /\ d0 \in Long /\ a0 \in Long /\ sp \in Address /\ ram \in Memory /\ pushed \in Seq(StackEntry)
        /\ Adjacent(pushed) /\ Points(pushed, sp) /\ \A i \in 1..Len(pushed) : Held(pushed[i], ram)
    BY DEF OperandsIInv
  <1>2. size # "byte" /\ at >= 0 /\ sp' = at /\ pushed' = Append(pushed, e) /\ d0' = d0 /\ a0' = a0
    BY DEF MovemPush
  <1>3. ram' = MovemRun(size, list)[L]
    BY DEF MovemPush, MovemRun
  <1>4. size \in {"word", "long"} /\ n \in {2, 4} /\ L \in {2, 3}
    BY <1>2, SizesAre, ListsAre DEF Sizes
  <1>5. /\ at \in Address /\ at \in Nat /\ at + n * L = sp /\ sp \in Nat /\ sp <= Bottom
    <2>1. sp \in Nat /\ Bottom \in Nat /\ sp <= Bottom /\ at >= 0
      BY <1>1, <1>2, StackAssumption DEF Address
    <2> HIDE DEF n, L
    <2> QED BY <1>4, <2>1 DEF Address
  <1>6. /\ e \in MovemEntry /\ e.kind = "movem" /\ e.at = at /\ e.size = size /\ e.list = list
        /\ e.saved = [d0 |-> d0, a0 |-> a0] /\ e.sp = sp
    BY <1>1, <1>4, <1>5 DEF MovemEntry
  <1>7. e \in StackEntry /\ Extent(e) = n * L /\ e.kind \notin Sizes
    BY <1>6 DEF StackEntry, Extent, Sizes
  <1>8. /\ ram' \in Memory
        /\ \A x \in sp..(Bottom - 1) : ram'[x] = ram[x]
        /\ \A k \in 1..L, j \in 1..n : ram'[sp - k * n + j - 1] = Stored(list[k], size)[j]
    BY <1>1, <1>2, <1>3, <1>4, MovemStores
  <1> HIDE DEF at, e
  <1>9. ASSUME NEW k \in 1..L, NEW j \in 1..n
        PROVE  ram'[at + n * (L - k) + j - 1] = Low(Saved(e, list[k]), n)[j]
    <2>1. at + n * (L - k) + j - 1 = sp - k * n + j - 1
      <3> HIDE DEF n, L
      <3> QED BY <1>4, <1>5
    <2>2. Stored(list[k], size) = Low(Saved(e, list[k]), n)
      <3>1. e.saved.d0 = d0 /\ e.saved.a0 = a0 /\ e.sp = sp /\ k \in 1..Len(list)
        BY <1>6
      <3>2. Stored(list[k], size) = Low(Saved(e, list[k]), Bytes(size))
        <4>1. size \in {"word", "long"} /\ k \in 1..Len(list) /\ d0 \in Long /\ a0 \in Long /\ sp \in Nat
          BY <1>1, <1>4, <1>5
        <4>2. \A w : w.saved.d0 = d0 /\ w.saved.a0 = a0 /\ w.sp = sp
                => Stored(list[k], size) = Low(Saved(w, list[k]), Bytes(size))
          BY <4>1, StoredIs
        <4> QED BY <3>1, <4>2
      <3> QED BY <3>2
    <2>3. ram'[sp - k * n + j - 1] = Stored(list[k], size)[j]
      BY <1>8
    <2> QED BY <2>1, <2>2, <2>3
  <1>10. Held(e, ram')
    BY <1>6, <1>7, <1>9 DEF Held
  <1>11. e.at + Extent(e) = sp
    BY <1>5, <1>6, <1>7
  <1> HIDE DEF n, L
  <1>12. /\ pushed' \in Seq(StackEntry) /\ Adjacent(pushed') /\ Points(pushed', e.at)
         /\ \A i \in 1..Len(pushed') : Held(pushed'[i], ram')
    BY <1>1, <1>2, <1>6, <1>7, <1>8, <1>10, <1>11, Pushes
  <1> QED BY <1>1, <1>2, <1>5, <1>6, <1>8, <1>12 DEF OperandsIInv

-----------------------------------------------------------------------------
\* What A7 points at.
LEMMA UppermostIs ==
  ASSUME OperandsIInv, pushed # <<>>
  PROVE  LET e == Uppermost
             rest == SubSeq(pushed, 1, Len(pushed) - 1) IN
         /\ Len(pushed) \in 1..Len(pushed) /\ e = pushed[Len(pushed)] /\ e \in StackEntry /\ Held(e, ram)
         /\ sp = e.at /\ sp \in Nat /\ sp + Extent(e) <= Bottom /\ sp + Extent(e) \in Address
         /\ e.kind = "movem" => e.sp = sp + Extent(e)
         /\ rest \in Seq(StackEntry) /\ Len(rest) = Len(pushed) - 1 /\ Adjacent(rest) /\ Points(rest, sp + Extent(e))
         /\ \A k \in 1..Len(rest) : Held(rest[k], ram)
  <1> DEFINE e == Uppermost
             rest == SubSeq(pushed, 1, Len(pushed) - 1)
  <1>1. /\ sp \in Address /\ pushed \in Seq(StackEntry)
        /\ Adjacent(pushed) /\ Points(pushed, sp) /\ \A i \in 1..Len(pushed) : Held(pushed[i], ram)
    BY DEF OperandsIInv
  <1>2. Len(pushed) \in 1..Len(pushed) /\ e = pushed[Len(pushed)]
    BY <1>1 DEF Uppermost
  <1>3. e \in StackEntry /\ Held(e, ram) /\ sp = e.at /\ e.at + Extent(e) <= Bottom
    BY <1>1, <1>2, AboveA7 DEF Points
  <1>4. e.kind = "movem" => e.sp = e.at + Extent(e)
    BY <1>1, <1>2 DEF Adjacent
  <1>5. rest \in Seq(StackEntry) /\ Len(rest) = Len(pushed) - 1 /\ Adjacent(rest) /\ Points(rest, e.at + Extent(e))
        /\ \A k \in 1..Len(rest) : Held(rest[k], ram)
    BY <1>1, <1>2, Pops
  <1>6. sp \in Nat /\ sp + Extent(e) \in Address
    <2>1. sp \in Nat /\ Extent(e) \in Nat
      BY <1>1, <1>3, ExtentIs DEF Address
    <2> HIDE DEF e
    <2> QED BY <1>3, <2>1, StackAssumption DEF Address
  <1> QED BY <1>2, <1>3, <1>4, <1>5, <1>6

\* A pop takes off what was pushed last, and nothing else.
LEMMA PopDKeeps ==
  ASSUME OperandsIInv, NEW size \in Sizes, PopD(size)
  PROVE  OperandsIInv'
  <1> DEFINE e == Uppermost
             n == Bytes(size)
             rest == SubSeq(pushed, 1, Len(pushed) - 1)
  <1>1. d0 \in Long /\ a0 \in Long /\ ram \in Memory
    BY DEF OperandsIInv
  <1>2. /\ pushed # <<>> /\ e.kind = size
        /\ d0' = Merge(d0, Read(sp, n)) /\ sp' = sp + StepA7(size) /\ pushed' = rest
        /\ a0' = a0 /\ ram' = ram
    BY DEF PopD
  <1>3. /\ sp \in Nat /\ sp + Extent(e) <= Bottom /\ sp + Extent(e) \in Address
        /\ rest \in Seq(StackEntry) /\ Adjacent(rest) /\ Points(rest, sp + Extent(e))
        /\ \A k \in 1..Len(rest) : Held(rest[k], ram)
    BY <1>2, UppermostIs
  <1> HIDE DEF e, rest
  <1>4. Extent(e) = StepA7(size) /\ n \in 1..4 /\ n <= StepA7(size) /\ StepA7(size) \in Nat
    BY <1>2, SizesAre DEF Extent, Sizes
  <1>5. sp + n <= Bottom
    BY <1>3, <1>4, StackAssumption
  <1>6. Read(sp, n) \in [1..n -> Byte]
    BY <1>1, <1>3, <1>4, <1>5, ReadTyped
  <1>7. d0' \in Long
    <2> DEFINE r == Read(sp, n)
    <2>1. r \in [1..n -> Byte] /\ d0' = Merge(d0, r)
      BY <1>2, <1>6
    <2> HIDE DEF r, n
    <2> QED BY <1>1, <1>4, <2>1, MergeTyped
  <1> QED BY <1>1, <1>2, <1>3, <1>4, <1>7 DEF OperandsIInv

\* Where MOVEM reads a register of its list, there is what it held.
LEMMA MovemReads ==
  ASSUME OperandsIInv, pushed # <<>>, Uppermost.kind = "movem",
         NEW k \in 1..Len(Uppermost.list)
  PROVE  LET e == Uppermost
             n == Bytes(e.size)
             r == Read(sp + n * (Len(e.list) - k), n) IN
         /\ Sext(r) \in Long
         /\ e.size = "long" => Sext(r) = Saved(e, e.list[k])
  <1> DEFINE e == Uppermost
             n == Bytes(e.size)
             L == Len(e.list)
             a == sp + n * (L - k)
             r == Read(a, n)
  <1>1. e \in StackEntry /\ Held(e, ram) /\ sp = e.at /\ sp \in Nat /\ sp + Extent(e) <= Bottom
        /\ e.sp = sp + Extent(e)
    BY UppermostIs
  <1>2. e.kind \notin Sizes /\ e.kind # "frame" /\ e \in MovemEntry /\ n \in {2, 4} /\ L \in {2, 3}
        /\ Extent(e) = n * L
    <2>1. e.kind = "movem"
      OBVIOUS
    <2> HIDE DEF e
    <2> QED BY <1>1, <2>1, ExtentIs
  <1>3. k \in 1..L
    OBVIOUS
  <1>4. \A j \in 1..n : ram[e.at + n * (L - k) + j - 1] = Low(Saved(e, e.list[k]), n)[j]
    BY <1>1, <1>2, <1>3 DEF Held
  <1>5. Saved(e, e.list[k]) \in Long
    <2>1. e.list \in RegisterLists /\ e.saved.d0 \in Long /\ e.saved.a0 \in Long /\ e.sp \in Nat
      BY <1>2 DEF MovemEntry, Address
    <2> HIDE DEF e
    <2> QED BY <2>1, AsLongTyped DEF Saved
  <1>6. ram \in Memory /\ Bottom \in Nat
    BY StackAssumption DEF OperandsIInv
  <1> HIDE DEF e, n, L
  <1>7. a \in Nat /\ a + n <= Bottom /\ n \in 1..4
    BY <1>1, <1>2, <1>3, <1>6
  <1> HIDE DEF a
  <1>8. r \in [1..n -> Byte] /\ \A j \in 1..n : r[j] = ram[a + j - 1]
    BY <1>6, <1>7, ReadTyped
  <1> HIDE DEF r
  <1>9. Sext(r) \in Long
    BY <1>7, <1>8, SextTyped
  <1>10. ASSUME e.size = "long" PROVE Sext(r) = Saved(e, e.list[k])
    <2> DEFINE s == Saved(e, e.list[k])
               l == Low(s, 4)
    <2>1. n = 4
      BY <1>10, SizesAre DEF n
    <2>2. s \in Long
      BY <1>5
    <2>3. \A j \in 1..4 : r[j] = l[j]
      BY <1>1, <1>4, <1>8, <2>1 DEF a
    <2> HIDE DEF s
    <2>4. l \in [1..4 -> Byte]
      BY <2>2, LowTyped
    <2> HIDE DEF l
    <2>5. r = l
      BY <1>8, <2>1, <2>3, <2>4
    <2> QED BY <2>2, <2>5, SextLong DEF s, l
  <1> QED BY <1>9, <1>10 DEF r, a, L, n, e

\* MOVEM loads D0 with what was saved of it, and A0 when it is in the list.
LEMMA MovemLoads ==
  ASSUME OperandsIInv, MovemPop
  PROVE  LET e == Uppermost
             rest == SubSeq(pushed, 1, Len(pushed) - 1) IN
         /\ d0' \in Long /\ a0' \in Long /\ sp' = sp + Extent(e) /\ ram' = ram /\ pushed' = rest
         /\ e.kind = "movem" /\ pushed # <<>>
         /\ e.size = "long" => /\ d0' = e.saved.d0 /\ sp' = e.sp
                               /\ (\E k \in DOMAIN e.list : e.list[k] = "a0") => a0' = e.saved.a0
  <1> DEFINE e == Uppermost
             list == e.list
             n == Bytes(e.size)
             L == Len(list)
             has(reg) == \E k \in DOMAIN list : list[k] = reg
             place(reg) == CHOOSE k \in DOMAIN list : list[k] = reg
             got(reg) == Sext(Read(sp + n * (L - place(reg)), n))
             rest == SubSeq(pushed, 1, Len(pushed) - 1)
  <1>1. /\ pushed # <<>> /\ e.kind = "movem"
        /\ d0' = IF has("d0") THEN got("d0") ELSE d0
        /\ a0' = IF has("a0") THEN got("a0") ELSE a0
        /\ sp' = sp + n * L /\ pushed' = rest /\ ram' = ram
    BY DEF MovemPop, OperandsBelow
  <1>2. d0 \in Long /\ a0 \in Long
    BY DEF OperandsIInv
  <1>3. e \in StackEntry /\ (e.kind = "movem" => e.sp = sp + Extent(e))
    BY <1>1, UppermostIs
  <1>4. e \in MovemEntry /\ Extent(e) = n * L
    <2> HIDE DEF e
    <2> QED BY <1>1, <1>3, ExtentIs
  <1>5. list \in RegisterLists
    BY <1>4 DEF MovemEntry
  <1>6. DOMAIN list = 1..L /\ has("d0")
    <2> HIDE DEF list
    <2> QED BY <1>5, ListsAre
  <1>7. \A k \in 1..L : LET r == Read(sp + n * (L - k), n) IN
          Sext(r) \in Long /\ (e.size = "long" => Sext(r) = Saved(e, list[k]))
    BY <1>1, MovemReads
  <1>8. ASSUME NEW reg, has(reg)
        PROVE  got(reg) \in Long /\ (e.size = "long" => got(reg) = Saved(e, reg))
    <2>1. place(reg) \in DOMAIN list /\ list[place(reg)] = reg
      BY <1>8
    <2> HIDE DEF place, e, list, n, L
    <2> QED BY <1>6, <1>7, <2>1
  <1>9. Saved(e, "d0") = e.saved.d0 /\ Saved(e, "a0") = e.saved.a0
    BY DEF Saved
  <1> HIDE DEF e, list, n, L, has, got, rest
  <1>10. d0' \in Long /\ a0' \in Long
    BY <1>1, <1>2, <1>8
  <1>11. ASSUME e.size = "long" PROVE d0' = e.saved.d0 /\ (has("a0") => a0' = e.saved.a0)
    BY <1>1, <1>6, <1>8, <1>9, <1>11
  <1>12. sp' = sp + Extent(e) /\ (e.size = "long" => sp' = e.sp)
    BY <1>1, <1>3, <1>4
  <1> QED BY <1>1, <1>10, <1>11, <1>12 DEF e, list, has, rest

\* MOVEM from the stack takes off what a MOVEM pushed.
LEMMA MovemPopKeeps ==
  ASSUME OperandsIInv, MovemPop
  PROVE  OperandsIInv'
  <1> DEFINE e == Uppermost
             rest == SubSeq(pushed, 1, Len(pushed) - 1)
  <1>1. d0' \in Long /\ a0' \in Long /\ sp' = sp + Extent(e) /\ ram' = ram /\ pushed' = rest /\ pushed # <<>>
    BY MovemLoads
  <1>2. /\ sp + Extent(e) \in Address
        /\ rest \in Seq(StackEntry) /\ Adjacent(rest) /\ Points(rest, sp + Extent(e))
        /\ \A k \in 1..Len(rest) : Held(rest[k], ram)
    BY <1>1, UppermostIs
  <1>3. ram \in Memory
    BY DEF OperandsIInv
  <1> HIDE DEF e, rest
  <1> QED BY <1>1, <1>2, <1>3 DEF OperandsIInv

\* UNLK takes the last frame and all above it off the stack.
LEMMA UnlkKeeps ==
  ASSUME OperandsIInv, Unlk
  PROVE  /\ OperandsIInv'
         /\ pushed # <<>> /\ Uppermost.kind = "movem" => pushed' # SubSeq(pushed, 1, Len(pushed) - 1)
  <1>1. PICK i \in LinkFrames :
          LET at == pushed[i].at + Displacement IN
          /\ a0' = Read(at, 4) /\ sp' = at + 4
          /\ pushed' = SubSeq(pushed, 1, i - 1) /\ d0' = d0 /\ ram' = ram
    BY DEF Unlk
  <1> DEFINE e == pushed[i]
             at == e.at + Displacement
             rest == SubSeq(pushed, 1, i - 1)
  <1>2. /\ d0 \in Long /\ ram \in Memory /\ pushed \in Seq(StackEntry)
        /\ Adjacent(pushed) /\ Points(pushed, sp) /\ \A k \in 1..Len(pushed) : Held(pushed[k], ram)
    BY DEF OperandsIInv
  <1>3. i \in 1..Len(pushed) /\ e.kind = "frame"
    BY <1>1, <1>2 DEF LinkFrames
  <1>4. e \in StackEntry /\ e.at + Extent(e) <= Bottom
    BY <1>2, <1>3, AboveA7
  <1>5. e.at \in Address /\ Extent(e) = 4 + Displacement
    <2> HIDE DEF e
    <2> QED BY <1>3, <1>4, ExtentIs
  <1>6. rest \in Seq(StackEntry) /\ Len(rest) = i - 1 /\ Adjacent(rest) /\ Points(rest, e.at + Extent(e))
        /\ \A k \in 1..Len(rest) : Held(rest[k], ram)
    BY <1>2, <1>3, Pops
  <1>7. a0' = Read(at, 4) /\ sp' = at + 4 /\ pushed' = rest /\ d0' = d0 /\ ram' = ram
    BY <1>1
  <1>8. pushed # <<>> /\ Uppermost.kind = "movem" => pushed' # SubSeq(pushed, 1, Len(pushed) - 1)
    <2> SUFFICES ASSUME Uppermost.kind = "movem", pushed' = SubSeq(pushed, 1, Len(pushed) - 1)
                 PROVE  FALSE
      OBVIOUS
    <2>1. Len(SubSeq(pushed, 1, Len(pushed) - 1)) = Len(pushed) - 1
      <3>1. pushed # <<>>
        BY <1>2, <1>3
      <3> QED BY <3>1, UppermostIs
    <2>2. Len(pushed) - 1 = i - 1
      BY <1>6, <1>7, <2>1
    <2>3. i = Len(pushed)
      BY <1>2, <1>3, <2>2
    <2> QED BY <1>3, <2>3 DEF Uppermost
  <1> HIDE DEF e, rest
  <1>9. at \in Nat /\ at + 4 = e.at + Extent(e) /\ at + 4 <= Bottom /\ at + 4 \in Address
    <2>1. e.at \in Nat /\ Displacement \in Nat /\ Bottom \in Nat
      BY <1>5, StackAssumption DEF Address
    <2> QED BY <1>4, <1>5, <2>1 DEF Address
  <1> HIDE DEF at
  <1>10. a0' \in Long
    BY <1>2, <1>7, <1>9, ReadTyped DEF Long
  <1>11. Points(pushed', sp') /\ sp' \in Address
    BY <1>6, <1>7, <1>9
  <1>12. OperandsIInv'
    BY <1>2, <1>6, <1>7, <1>10, <1>11 DEF OperandsIInv
  <1> QED BY <1>8, <1>12

\* A load of a register leaves the stack alone.
LEMMA LoadsKeep ==
  ASSUME OperandsIInv, NEW v \in Words, Load(v) \/ LoadA(v)
  PROVE  OperandsIInv'
  <1>1. v \in Long
    BY StackAssumption DEF Long, Byte
  <1> QED BY <1>1 DEF OperandsIInv, Load, LoadA

\* Nothing but MOVEM takes off the stack what MOVEM put there, UNLK apart.
LEMMA OperandsStep ==
  ASSUME OperandsIInv, [OperandsNext]_operandVars
  PROVE  OperandsIInv'
  <1>1. CASE \E size \in Sizes : PushD(size)
    BY <1>1, PushDKeeps
  <1>2. CASE \E size \in Sizes : PopD(size)
    BY <1>2, PopDKeeps
  <1>3. CASE \E size \in Sizes, list \in RegisterLists : MovemPush(size, list)
    BY <1>3, MovemPushKeeps
  <1>4. CASE \E v \in Words : Load(v) \/ LoadA(v)
    BY <1>4, LoadsKeep
  <1>5. CASE MovemPop
    BY <1>5, MovemPopKeeps
  <1>6. CASE Link
    BY <1>6, LinkKeeps
  <1>7. CASE Unlk
    BY <1>7, UnlkKeeps
  <1>8. CASE UNCHANGED operandVars
    BY <1>8 DEF OperandsIInv, operandVars
  <1> QED BY <1>1, <1>2, <1>3, <1>4, <1>5, <1>6, <1>7, <1>8 DEF OperandsNext

\* An entry that is held is intact.
LEMMA HeldIsIntact ==
  ASSUME ram \in Memory, NEW e \in StackEntry, e.at + Extent(e) <= Bottom, Held(e, ram)
  PROVE  Intact(e)
  <1>1. e.at \in Nat /\ Bottom \in Nat
    BY ExtentIs, StackAssumption DEF Address
  <1>2. ASSUME NEW a \in Nat, NEW n \in 1..4, a + n <= Bottom, NEW v \in [1..n -> Byte],
               \A j \in 1..n : ram[a + j - 1] = v[j]
        PROVE  Read(a, n) = v
    <2>1. Read(a, n) \in [1..n -> Byte] /\ \A j \in 1..n : Read(a, n)[j] = ram[a + j - 1]
      BY <1>2, ReadTyped
    <2> DEFINE r == Read(a, n)
    <2> HIDE DEF r
    <2>2. r = v
      BY <1>2, <2>1 DEF r
    <2> QED BY <2>2 DEF r
  <1>3. CASE e.kind \in Sizes
    <2> DEFINE n == Bytes(e.kind)
    <2>1. n \in 1..4 /\ n <= Extent(e) /\ Extent(e) \in Nat /\ e.value \in [1..n -> Byte] /\ e.kind # "frame"
      BY <1>3, ExtentIs, SizesAre DEF Sizes
    <2>2. \A j \in 1..n : ram[e.at + j - 1] = e.value[j]
      BY <1>3, <2>1 DEF Held
    <2>3. e.at + n <= Bottom
      <3> HIDE DEF n
      <3> QED BY <1>1, <2>1
    <2>4. Read(e.at, n) = e.value
      <3> HIDE DEF n
      <3> QED BY <1>1, <1>2, <2>1, <2>2, <2>3
    <2> QED BY <1>3, <2>1, <2>4 DEF Intact
  <1>4. CASE e.kind = "frame"
    <2> DEFINE a == e.at + Displacement
    <2>1. Extent(e) = 4 + Displacement /\ Displacement \in Nat /\ e.value \in [1..4 -> Byte] /\ e.kind \notin Sizes
      BY <1>4, ExtentIs, StackAssumption DEF Sizes, Long
    <2>2. \A j \in 1..4 : ram[a + j - 1] = e.value[j]
      BY <1>4, <2>1 DEF Held
    <2>3. a \in Nat /\ a + 4 <= Bottom /\ 4 \in 1..4
      BY <1>1, <2>1
    <2>4. Read(a, 4) = e.value
      <3> HIDE DEF a
      <3> QED BY <1>2, <2>1, <2>2, <2>3
    <2> QED BY <1>4, <2>1, <2>4 DEF Intact
  <1>5. CASE e.kind \notin Sizes /\ e.kind # "frame"
    <2> DEFINE n == Bytes(e.size)
               L == Len(e.list)
    <2>1. e \in MovemEntry /\ n \in {2, 4} /\ L \in {2, 3} /\ Extent(e) = n * L
      BY <1>5, ExtentIs
    <2>2. e.list \in RegisterLists /\ e.saved.d0 \in Long /\ e.saved.a0 \in Long /\ e.sp \in Nat
      BY <2>1 DEF MovemEntry, Address
    <2>3. DOMAIN e.list = 1..L
      BY <2>2, ListsAre
    <2>4. ASSUME NEW k \in 1..L PROVE Read(e.at + n * (L - k), n) = Low(Saved(e, e.list[k]), n)
      <3> DEFINE a == e.at + n * (L - k)
                 v == Low(Saved(e, e.list[k]), n)
      <3>1. \A j \in 1..n : ram[a + j - 1] = v[j]
        BY <1>5 DEF Held
      <3>2. Saved(e, e.list[k]) \in Long
        BY <2>2, AsLongTyped DEF Saved
      <3> HIDE DEF n, L
      <3>3. n \in 1..4 /\ a \in Nat /\ a + n <= Bottom
        BY <1>1, <2>1
      <3>4. v \in [1..n -> Byte]
        BY <3>2, <3>3, LowTyped
      <3> HIDE DEF a, v
      <3>5. Read(a, n) = v
        BY <1>2, <3>1, <3>3, <3>4
      <3> QED BY <3>5 DEF a, v
    <2> QED BY <1>5, <2>3, <2>4 DEF Intact
  <1> QED BY <1>3, <1>4, <1>5

\* The stack is intact in every reachable state.
LEMMA OperandsInvariant == OperandsSpec => []OperandsIInv
  <1> QED BY OperandsStart, OperandsStep, PTL DEF OperandsSpec

\* In every state A7 is even, it points at what was pushed last, and each entry
\* holds what was pushed.
LEMMA OperandsInvHolds == OperandsIInv => OperandsInv
  <1> SUFFICES ASSUME OperandsIInv PROVE OperandsInv
    OBVIOUS
  <1>1. /\ d0 \in Long /\ a0 \in Long /\ sp \in Address /\ ram \in Memory /\ pushed \in Seq(StackEntry)
        /\ Adjacent(pushed) /\ Points(pushed, sp) /\ \A i \in 1..Len(pushed) : Held(pushed[i], ram)
    BY DEF OperandsIInv
  <1>2. OperandsTypeOK
    BY <1>1 DEF OperandsTypeOK, Memory
  <1>3. StackIsEven
    BY <1>1, AboveA7 DEF StackIsEven
  <1>4. ASSUME NEW i \in DOMAIN pushed PROVE Intact(pushed[i])
    <2>1. i \in 1..Len(pushed)
      BY <1>1
    <2>2. pushed[i] \in StackEntry /\ pushed[i].at + Extent(pushed[i]) <= Bottom /\ Held(pushed[i], ram)
      BY <1>1, <2>1, AboveA7
    <2> QED BY <1>1, <2>2, HeldIsIntact
  <1>5. StackHoldsWhatWasPushed
    BY <1>1, <1>4 DEF StackHoldsWhatWasPushed, Points, Uppermost
  <1> QED BY <1>2, <1>3, <1>5 DEF OperandsInv

\* A step that takes what MOVEM pushed off the stack, and nothing else, is the
\* MOVEM that reads it.
LEMMA MovemIsTaken ==
  ASSUME OperandsIInv, [OperandsNext]_operandVars,
         pushed # <<>>, Uppermost.kind = "movem", Uppermost.size = "long",
         pushed' = SubSeq(pushed, 1, Len(pushed) - 1)
  PROVE  /\ sp' = Uppermost.sp /\ d0' = Uppermost.saved.d0
         /\ (\E k \in DOMAIN Uppermost.list : Uppermost.list[k] = "a0") => a0' = Uppermost.saved.a0
  <1>1. pushed \in Seq(StackEntry) /\ Len(pushed) \in Nat \ {0}
    BY DEF OperandsIInv
  <1>2. Len(pushed') = Len(pushed) - 1
    BY UppermostIs
  <1>3. \A e : Append(pushed, e) # pushed'
    BY <1>1, <1>2
  <1>4. pushed' # pushed
    BY <1>1, <1>2
  <1>5. ASSUME NEW size \in Sizes PROVE ~PushD(size)
    BY <1>3 DEF PushD
  <1>6. ASSUME NEW size \in Sizes PROVE ~PopD(size)
    BY DEF PopD, Sizes
  <1>7. ASSUME NEW size \in Sizes, NEW list \in RegisterLists PROVE ~MovemPush(size, list)
    BY <1>3 DEF MovemPush
  <1>8. ASSUME NEW v \in Words PROVE ~Load(v) /\ ~LoadA(v)
    BY <1>4 DEF Load, LoadA
  <1>9. ~Link
    BY <1>3 DEF Link
  <1>10. ~Unlk
    BY UnlkKeeps
  <1>11. MovemPop
    BY <1>4, <1>5, <1>6, <1>7, <1>8, <1>9, <1>10 DEF OperandsNext, operandVars
  <1> QED BY <1>11, MovemLoads

\* OperandsKept holds: pushes and pops of all sizes find what was pushed, and a
\* MOVEM of long words to the stack and back restores the registers, A7 too
\* (exec.rs:670).
THEOREM OperandsKeptHolds == OperandsSpec => OperandsKept
  <1>1. OperandsIInv /\ [OperandsNext]_operandVars =>
          [ (pushed # <<>> /\ Uppermost.kind = "movem" /\ Uppermost.size = "long"
             /\ pushed' = SubSeq(pushed, 1, Len(pushed) - 1)) =>
            /\ sp' = Uppermost.sp /\ d0' = Uppermost.saved.d0
            /\ (\E k \in DOMAIN Uppermost.list : Uppermost.list[k] = "a0") => a0' = Uppermost.saved.a0 ]_operandVars
    BY MovemIsTaken
  <1> QED BY <1>1, OperandsInvariant, OperandsInvHolds, PTL DEF OperandsSpec, OperandsKept, MovemRestores

-----------------------------------------------------------------------------
(* Arithmetic and shifts.                                                  *)

-----------------------------------------------------------------------------
\* Quotient and remainder.
LEMMA DivMod ==
  ASSUME NEW x \in Int, NEW y \in Nat \ {0}
  PROVE  x = (x \div y) * y + (x % y) /\ x % y \in 0..(y - 1) /\ x \div y \in Int
  OBVIOUS

\* Quotient and remainder are unique.
LEMMA SameQuotient ==
  ASSUME NEW y \in Nat \ {0}, NEW q \in Int, NEW p \in Int, NEW r \in 0..(y - 1), NEW s \in 0..(y - 1),
         q * y + r = p * y + s
  PROVE  q = p /\ r = s
  <1>1. q = p
    OBVIOUS
  <1> QED BY <1>1

\* They are the only ones.
LEMMA DivModIs ==
  ASSUME NEW x \in Int, NEW y \in Nat \ {0}, NEW q \in Int, NEW r \in 0..(y - 1), x = q * y + r
  PROVE  x \div y = q /\ x % y = r
  <1> DEFINE p == x \div y
             s == x % y
  <1>1. p \in Int /\ s \in 0..(y - 1) /\ x = p * y + s
    BY DivMod
  <1> HIDE DEF p, s
  <1>2. q = p /\ r = s
    BY <1>1, SameQuotient
  <1> QED BY <1>2 DEF p, s

\* Powers of two up to k.
PowersUpTo(g, k) == g = [n \in 0..k |-> IF n = 0 THEN 1 ELSE 2 * g[n - 1]]

\* Two functions of powers agree where both are defined.
LEMMA SamePowers ==
  ASSUME NEW k \in Nat, NEW l \in Nat, NEW g, NEW h, PowersUpTo(g, k), PowersUpTo(h, l)
  PROVE  \A n \in Nat : n <= k /\ n <= l => g[n] = h[n]
  <1> DEFINE T == {n \in Nat : n <= k /\ n <= l => g[n] = h[n]}
  <1>1. /\ \A n \in 0..k : g[n] = IF n = 0 THEN 1 ELSE 2 * g[n - 1]
        /\ \A n \in 0..l : h[n] = IF n = 0 THEN 1 ELSE 2 * h[n - 1]
    <2>1. \A n \in 0..k : g[n] = IF n = 0 THEN 1 ELSE 2 * g[n - 1]
      BY DEF PowersUpTo
    <2>2. \A n \in 0..l : h[n] = IF n = 0 THEN 1 ELSE 2 * h[n - 1]
      BY DEF PowersUpTo
    <2> QED BY <2>1, <2>2
  <1>2. 0 \in T
    BY <1>1
  <1>3. ASSUME NEW n \in Nat, n \in T PROVE n + 1 \in T
    <2> SUFFICES ASSUME n + 1 <= k, n + 1 <= l PROVE g[n + 1] = h[n + 1]
      OBVIOUS
    <2>1. n + 1 \in 0..k /\ n + 1 \in 0..l /\ n + 1 # 0 /\ (n + 1) - 1 = n /\ g[n] = h[n]
      BY <1>3
    <2> QED BY <1>1, <2>1
  <1> HIDE DEF T
  <1>4. Nat \subseteq T
    BY <1>2, <1>3, Induct
  <1> QED BY <1>4 DEF T

\* There is one up to every exponent, by induction.
LEMMA PowersExist ==
  ASSUME NEW k \in Nat
  PROVE  \E g : PowersUpTo(g, k)
  <1> DEFINE T == {n \in Nat : \E g : PowersUpTo(g, n)}
  <1>1. 0 \in T
    <2> DEFINE g == [n \in 0..0 |-> 1]
    <2>1. PowersUpTo(g, 0)
      BY DEF PowersUpTo
    <2> QED BY <2>1
  <1>2. ASSUME NEW n \in Nat, n \in T PROVE n + 1 \in T
    <2>1. PICK e : PowersUpTo(e, n)
      BY <1>2
    <2> DEFINE h == [m \in 0..(n + 1) |-> IF m = n + 1 THEN 2 * e[n] ELSE e[m]]
               g == [m \in 0..(n + 1) |-> IF m = 0 THEN 1 ELSE 2 * h[m - 1]]
    <2>2. ASSUME NEW m \in 0..(n + 1) PROVE h[m] = IF m = 0 THEN 1 ELSE 2 * h[m - 1]
      <3>1. \A i \in 0..n : e[i] = IF i = 0 THEN 1 ELSE 2 * e[i - 1]
        BY <2>1 DEF PowersUpTo
      <3>2. CASE m = n + 1
        <4>1. m # 0 /\ m - 1 = n /\ n \in 0..(n + 1) /\ n # n + 1
          BY <3>2
        <4>2. h[m] = 2 * e[n] /\ h[n] = e[n]
          BY <3>2, <4>1
        <4> HIDE DEF h
        <4> QED BY <4>1, <4>2
      <3>3. CASE m # n + 1 /\ m # 0
        <4>1. m \in 0..n /\ m - 1 \in 0..(n + 1) /\ m - 1 # n + 1
          BY <3>3
        <4>2. h[m] = e[m] /\ h[m - 1] = e[m - 1]
          BY <3>3, <4>1
        <4> HIDE DEF h
        <4> QED BY <3>1, <3>3, <4>1, <4>2
      <3>4. CASE m = 0
        <4>1. 0 \in 0..n /\ 0 \in 0..(n + 1) /\ 0 # n + 1
          OBVIOUS
        <4>2. h[0] = e[0]
          BY <4>1
        <4> HIDE DEF h
        <4> QED BY <3>1, <3>4, <4>1, <4>2
      <3> QED BY <3>2, <3>3, <3>4
    <2>3. h = [m \in 0..(n + 1) |-> h[m]] /\ g = [m \in 0..(n + 1) |-> g[m]]
      OBVIOUS
    <2>4. \A m \in 0..(n + 1) : g[m] = IF m = 0 THEN 1 ELSE 2 * h[m - 1]
      OBVIOUS
    <2> HIDE DEF h
    <2>5. h = g
      <3> HIDE DEF g
      <3> QED BY <2>2, <2>3, <2>4
    <2>6. PowersUpTo(h, n + 1)
      BY <2>5 DEF PowersUpTo
    <2> QED BY <2>6
  <1>3. Nat \subseteq T
    <2> HIDE DEF T
    <2> QED BY <1>1, <1>2, Induct
  <1> QED BY <1>3

\* Powers of two.
LEMMA Powers ==
  /\ Pow2[0] = 1
  /\ \A n \in Nat : Pow2[n + 1] = 2 * Pow2[n]
  /\ \A n \in Nat : Pow2[n] \in Nat \ {0}
  <1> DEFINE G(k) == CHOOSE g : PowersUpTo(g, k)
             f == [n \in Nat |-> G(n)[n]]
  <1>1. ASSUME NEW k \in Nat PROVE PowersUpTo(G(k), k)
    BY PowersExist
  <1> HIDE DEF G
  <1>2. ASSUME NEW n \in Nat PROVE f[n] = IF n = 0 THEN 1 ELSE 2 * f[n - 1]
    <2>1. CASE n = 0
      <3>1. PowersUpTo(G(0), 0)
        BY <1>1
      <3>2. G(0)[0] = 1
        BY <3>1 DEF PowersUpTo
      <3> QED BY <2>1, <3>2
    <2>2. CASE n # 0
      <3>1. n - 1 \in Nat /\ n \in 0..n
        BY <2>2
      <3>2. PowersUpTo(G(n), n) /\ PowersUpTo(G(n - 1), n - 1)
        BY <1>1, <3>1
      <3>3. G(n)[n] = 2 * G(n)[n - 1]
        BY <2>2, <3>1, <3>2 DEF PowersUpTo
      <3>4. G(n)[n - 1] = G(n - 1)[n - 1]
        BY <3>1, <3>2, SamePowers
      <3>5. f[n] = G(n)[n] /\ f[n - 1] = G(n - 1)[n - 1]
        BY <3>1
      <3> HIDE DEF f
      <3> QED BY <2>2, <3>3, <3>4, <3>5
    <2> QED BY <2>1, <2>2
  <1>3. f = [n \in Nat |-> IF n = 0 THEN 1 ELSE 2 * f[n - 1]]
    <2> DEFINE g == [n \in Nat |-> IF n = 0 THEN 1 ELSE 2 * f[n - 1]]
    <2>1. f = [n \in Nat |-> f[n]]
      OBVIOUS
    <2> HIDE DEF f
    <2>2. g = [n \in Nat |-> g[n]] /\ \A n \in Nat : g[n] = IF n = 0 THEN 1 ELSE 2 * f[n - 1]
      OBVIOUS
    <2> HIDE DEF g
    <2>3. f = g
      BY <1>2, <2>1, <2>2
    <2> QED BY <2>3 DEF g
  <1> HIDE DEF f
  <1>4. Pow2 = [n \in Nat |-> IF n = 0 THEN 1 ELSE 2 * Pow2[n - 1]]
    BY <1>3 DEF Pow2
  <1>5. Pow2[0] = 1
    BY <1>4
  <1>6. ASSUME NEW n \in Nat PROVE Pow2[n + 1] = 2 * Pow2[n]
    <2>1. n + 1 \in Nat /\ n + 1 # 0 /\ (n + 1) - 1 = n
      OBVIOUS
    <2> QED BY <1>4, <2>1
  <1> DEFINE T == {n \in Nat : Pow2[n] \in Nat \ {0}}
  <1>7. 0 \in T
    BY <1>5
  <1>8. ASSUME NEW n \in Nat, n \in T PROVE n + 1 \in T
    BY <1>6, <1>8
  <1>9. Nat \subseteq T
    <2> HIDE DEF T
    <2> QED BY <1>7, <1>8, Induct
  <1> QED BY <1>5, <1>6, <1>9

\* A power of a sum is a product.
LEMMA PowerOfSum ==
  ASSUME NEW a \in Nat, NEW b \in Nat
  PROVE  Pow2[a + b] = Pow2[a] * Pow2[b]
  <1> DEFINE T == {n \in Nat : Pow2[a + n] = Pow2[a] * Pow2[n]}
  <1>1. 0 \in T
    BY Powers
  <1>2. ASSUME NEW n \in Nat, n \in T PROVE n + 1 \in T
    <2>1. a + (n + 1) = (a + n) + 1 /\ a + n \in Nat
      OBVIOUS
    <2>2. Pow2[(a + n) + 1] = 2 * Pow2[a + n] /\ Pow2[n + 1] = 2 * Pow2[n]
      BY <2>1, Powers
    <2> DEFINE x == Pow2[a]
               y == Pow2[n]
    <2>3. Pow2[a + n] = x * y /\ x \in Nat /\ y \in Nat
      BY <1>2, Powers
    <2> HIDE DEF x, y
    <2>4. 2 * (x * y) = x * (2 * y)
      BY <2>3
    <2> QED BY <2>1, <2>2, <2>3, <2>4 DEF x, y
  <1>3. Nat \subseteq T
    <2> HIDE DEF T
    <2> QED BY <1>1, <1>2, Induct
  <1> QED BY <1>3

\* The width has a top bit.
LEMMA Widths == W \in Nat /\ W >= 2 /\ Half \in Nat /\ Half >= 2 /\ M = 2 * Half /\ Pow2[W - 1] = Half /\ Pow2[W] = M
  <1>1. W \in Nat /\ W >= 2 /\ W - 1 \in Nat /\ W - 2 \in Nat /\ (W - 1) + 1 = W /\ (W - 2) + 1 = W - 1
    BY WidthAssumption
  <1>2. Pow2[(W - 1) + 1] = 2 * Pow2[W - 1] /\ Pow2[(W - 2) + 1] = 2 * Pow2[W - 2] /\ Pow2[W - 2] \in Nat \ {0}
    BY <1>1, Powers
  <1>3. Half = 2 * Pow2[W - 2] /\ M = 2 * Half
    BY <1>1, <1>2 DEF M, Half
  <1> QED BY <1>1, <1>2, <1>3 DEF M, Half

-----------------------------------------------------------------------------
\* Carry and overflow of one word.
LEMMA AddIs ==
  ASSUME NEW f \in Ccr, NEW d \in Value, NEW s \in Value, NEW extend \in BOOLEAN
  PROVE  LET out == DoAdd(f, d, s, extend)
             ci == Bit(extend /\ f.x)
             g == out.flags IN
         /\ g \in Ccr /\ out.res \in Value /\ g.x = g.c
         /\ d + s + ci = out.res + Bit(g.c) * M
         /\ g.n = (out.res >= Half) /\ g.z = ((extend => f.z) /\ out.res = 0)
         /\ g.v = (Signed(d) + Signed(s) + ci \notin (-Half)..(Half - 1))
  <1> DEFINE ci == Bit(extend /\ f.x)
             t == d + s + ci
             r == t % M
             dm == Negative(d)
             sm == Negative(s)
             rm == Negative(r)
             c == (dm /\ sm) \/ (~rm /\ (dm \/ sm))
             v == (dm /\ sm /\ ~rm) \/ (~dm /\ ~sm /\ rm)
             z == IF extend THEN f.z /\ r = 0 ELSE r = 0
  <1>1. Half \in Nat /\ Half >= 2 /\ M = 2 * Half
    BY Widths
  <1>2. ci \in 0..1 /\ d \in 0..(M - 1) /\ s \in 0..(M - 1) /\ t \in 0..(2 * M - 1)
    BY <1>1 DEF Bit, Value
  <1>3. r = IF t < M THEN t ELSE t - M
    <2>1. CASE t < M
      <3>1. t = 0 * M + t /\ t \in 0..(M - 1) /\ M \in Nat \ {0} /\ t \in Int
        BY <1>1, <1>2, <2>1
      <3> HIDE DEF t
      <3>2. t % M = t
        BY <3>1, DivModIs
      <3> QED BY <2>1, <3>2
    <2>2. CASE ~(t < M)
      <3>1. t = 1 * M + (t - M) /\ t - M \in 0..(M - 1) /\ M \in Nat \ {0} /\ t \in Int
        BY <1>1, <1>2, <2>2
      <3> HIDE DEF t
      <3>2. t % M = t - M
        BY <3>1, DivModIs
      <3> QED BY <2>2, <3>2
    <2> QED BY <2>1, <2>2
  <1>4. DoAdd(f, d, s, extend) = [res |-> r, flags |-> [[f EXCEPT !.n = rm, !.z = z] EXCEPT !.c = c, !.x = c, !.v = v]]
    BY DEF DoAdd, NZ
  <1> DEFINE out == DoAdd(f, d, s, extend)
  <1>5. rm \in BOOLEAN /\ z \in BOOLEAN /\ c \in BOOLEAN /\ v \in BOOLEAN
    <2>1. dm \in BOOLEAN /\ sm \in BOOLEAN /\ rm \in BOOLEAN
      <3> HIDE DEF r
      <3> QED BY DEF Negative
    <2>2. z \in BOOLEAN
      <3> HIDE DEF r
      <3> QED OBVIOUS
    <2> HIDE DEF dm, sm, rm
    <2> QED BY <2>1, <2>2
  <1>6. /\ out.flags \in Ccr /\ out.res = r /\ out.flags.c = c /\ out.flags.x = c /\ out.flags.v = v
        /\ out.flags.n = rm /\ out.flags.z = z
    <2> HIDE DEF r, rm, z, c, v
    <2> DEFINE g == [[f EXCEPT !.n = rm, !.z = z] EXCEPT !.c = c, !.x = c, !.v = v]
    <2>1. g \in Ccr /\ g.c = c /\ g.x = c /\ g.v = v /\ g.n = rm /\ g.z = z
      BY <1>5 DEF Ccr
    <2>2. out = [res |-> r, flags |-> g]
      BY <1>4
    <2> HIDE DEF g, out
    <2>3. out.res = r /\ out.flags = g
      BY <2>2
    <2> QED BY <2>1, <2>3
  <1> HIDE DEF out
  <1>7. r \in Value
    <2> HIDE DEF t
    <2> QED BY <1>1, <1>2, <1>3 DEF Value
  <1>8. t = r + Bit(c) * M /\ v = (Signed(d) + Signed(s) + ci \notin (-Half)..(Half - 1))
    <2> HIDE DEF r, ci
    <2> QED BY <1>1, <1>2, <1>3 DEF Negative, Signed, Bit
  <1>9. rm = (r >= Half) /\ z = ((extend => f.z) /\ r = 0)
    BY DEF Negative, Ccr
  <1> HIDE DEF r, rm, z, c, v, ci
  <1> QED BY <1>6, <1>7, <1>8, <1>9 DEF out, ci

\* A difference, its borrow and its overflow in integers.
LEMMA SubIs ==
  ASSUME NEW f \in Ccr, NEW d \in Value, NEW s \in Value, NEW extend \in BOOLEAN, NEW writeX \in BOOLEAN
  PROVE  LET out == DoSub(f, d, s, extend, writeX)
             ci == Bit(extend /\ f.x)
             g == out.flags IN
         /\ g \in Ccr /\ out.res \in Value /\ (writeX => g.x = g.c) /\ (~writeX => g.x = f.x)
         /\ d - s - ci = out.res - Bit(g.c) * M
         /\ g.n = (out.res >= Half) /\ g.z = ((extend => f.z) /\ out.res = 0)
         /\ g.v = (Signed(d) - Signed(s) - ci \notin (-Half)..(Half - 1))
  <1> DEFINE ci == Bit(extend /\ f.x)
             t == d - s - ci
             r == t % M
             dm == Negative(d)
             sm == Negative(s)
             rm == Negative(r)
             c == (sm /\ ~dm) \/ (rm /\ (~dm \/ sm))
             v == (~dm /\ sm /\ rm) \/ (dm /\ ~sm /\ ~rm)
             z == IF extend THEN f.z /\ r = 0 ELSE r = 0
             x == IF writeX THEN c ELSE f.x
  <1>1. Half \in Nat /\ Half >= 2 /\ M = 2 * Half
    BY Widths
  <1>2. ci \in 0..1 /\ d \in 0..(M - 1) /\ s \in 0..(M - 1) /\ t \in (-M)..(M - 1)
    BY <1>1 DEF Bit, Value
  <1>3. r = IF t >= 0 THEN t ELSE t + M
    <2>1. CASE t >= 0
      <3>1. t = 0 * M + t /\ t \in 0..(M - 1) /\ M \in Nat \ {0} /\ t \in Int
        BY <1>1, <1>2, <2>1
      <3> HIDE DEF t
      <3>2. t % M = t
        BY <3>1, DivModIs
      <3> QED BY <2>1, <3>2
    <2>2. CASE ~(t >= 0)
      <3>1. t = (-1) * M + (t + M) /\ t + M \in 0..(M - 1) /\ M \in Nat \ {0} /\ t \in Int
        BY <1>1, <1>2, <2>2
      <3> HIDE DEF t
      <3>2. t % M = t + M
        BY <3>1, DivModIs
      <3> QED BY <2>2, <3>2
    <2> QED BY <2>1, <2>2
  <1>4. DoSub(f, d, s, extend, writeX)
          = [res |-> r, flags |-> [[f EXCEPT !.n = rm, !.z = z] EXCEPT !.c = c, !.v = v, !.x = IF writeX THEN c ELSE @]]
    BY DEF DoSub, NZ
  <1> DEFINE out == DoSub(f, d, s, extend, writeX)
  <1>5. rm \in BOOLEAN /\ z \in BOOLEAN /\ c \in BOOLEAN /\ v \in BOOLEAN
    <2>1. dm \in BOOLEAN /\ sm \in BOOLEAN /\ rm \in BOOLEAN
      <3> HIDE DEF r
      <3> QED BY DEF Negative
    <2>2. z \in BOOLEAN
      <3> HIDE DEF r
      <3> QED OBVIOUS
    <2> HIDE DEF dm, sm, rm
    <2> QED BY <2>1, <2>2
  <1>6. /\ out.flags \in Ccr /\ out.res = r /\ out.flags.c = c /\ out.flags.x = x /\ out.flags.v = v
        /\ out.flags.n = rm /\ out.flags.z = z
    <2> HIDE DEF r, rm, z, c, v
    <2> DEFINE g == [[f EXCEPT !.n = rm, !.z = z] EXCEPT !.c = c, !.v = v, !.x = IF writeX THEN c ELSE @]
    <2>1. g \in Ccr /\ g.c = c /\ g.x = (IF writeX THEN c ELSE f.x) /\ g.v = v /\ g.n = rm /\ g.z = z
      BY <1>5 DEF Ccr
    <2>2. out = [res |-> r, flags |-> g]
      BY <1>4
    <2> HIDE DEF g, out
    <2>3. out.res = r /\ out.flags = g
      BY <2>2
    <2> QED BY <2>1, <2>3
  <1> HIDE DEF out
  <1>7. r \in Value
    <2> HIDE DEF t
    <2> QED BY <1>1, <1>2, <1>3 DEF Value
  <1>8. t = r - Bit(c) * M /\ v = (Signed(d) - Signed(s) - ci \notin (-Half)..(Half - 1))
    <2> HIDE DEF r, ci
    <2> QED BY <1>1, <1>2, <1>3 DEF Negative, Signed, Bit
  <1>9. rm = (r >= Half) /\ z = ((extend => f.z) /\ r = 0)
    BY DEF Negative, Ccr
  <1> HIDE DEF r, rm, z, c, v, ci
  <1> QED BY <1>6, <1>7, <1>8, <1>9 DEF out, ci

-----------------------------------------------------------------------------
\* Digits of base U: the higher ones decide an order with a multiple of U.
LEMMA HigherDecides ==
  ASSUME NEW U \in Nat \ {0}, NEW r \in 0..(U - 1), NEW x \in Int, NEW h \in Int
  PROVE  (r + x * U >= h * U) <=> (x >= h)
  <1>1. CASE x >= h
    <2>1. x - h \in Nat /\ (x - h) * U >= 0 /\ x * U = h * U + (x - h) * U
      BY <1>1
    <2> QED BY <1>1, <2>1
  <1>2. CASE ~(x >= h)
    <2>1. h - x - 1 \in Nat /\ (h - x - 1) * U >= 0
      BY <1>2
    <2>2. h * U = x * U + U + (h - x - 1) * U
      OBVIOUS
    <2> DEFINE a == h * U
               b == x * U
               c == (h - x - 1) * U
    <2>3. a \in Int /\ b \in Int /\ c \in Int
      OBVIOUS
    <2> HIDE DEF a, b, c
    <2>4. a = b + U + c /\ c >= 0
      BY <2>1, <2>2 DEF a, b, c
    <2>5. ~(r + b >= a)
      BY <2>3, <2>4
    <2> QED BY <1>2, <2>5 DEF a, b
  <1> QED BY <1>1, <1>2

\* One more word, of weight U, on a number that so far is rLow: its value is
\* that word's, its carry that word's.
LEMMA MoreWords ==
  ASSUME NEW U \in Nat \ {0}, NEW rLow \in 0..(U - 1), NEW w \in Int, NEW r \in Value, NEW q \in Int,
         w = r + q * M
  PROVE  LET base == U * M
             R == rLow + r * U IN
         /\ base \in Nat \ {0} /\ base \div 2 = Half * U /\ R \in 0..(base - 1)
         /\ (rLow + w * U) % base = R /\ ((rLow + w * U \in 0..(base - 1)) <=> q = 0)
         /\ (R >= Half * U) <=> (r >= Half)
         /\ (R = 0) <=> (rLow = 0 /\ r = 0)
         /\ R \in Nat
  <1>1. Half \in Nat /\ Half >= 2 /\ M = 2 * Half /\ r \in 0..(M - 1)
    BY Widths DEF Value
  <1> DEFINE base == U * M
             R == rLow + r * U
  <1>2. base \in Nat \ {0}
    BY <1>1
  <1>3. base \div 2 = Half * U
    <2>1. base = (Half * U) * 2 + 0 /\ Half * U \in Int /\ 0 \in 0..1
      BY <1>1
    <2> HIDE DEF base
    <2> QED BY <1>2, <2>1, DivModIs
  <1>4. (R >= Half * U) <=> (r >= Half)
    BY <1>1, HigherDecides
  <1>5. R \in Nat /\ R < base
    <2>1. (R >= M * U) <=> (r >= M)
      BY <1>1, HigherDecides
    <2>2. r * U \in Nat /\ M * U = base
      BY <1>1
    <2> QED BY <1>1, <2>1, <2>2
  <1>6. (R = 0) <=> (rLow = 0 /\ r = 0)
    <2>1. (R >= 1 * U) <=> (r >= 1)
      BY <1>1, HigherDecides
    <2> QED BY <1>1, <2>1
  <1>7. rLow + w * U = q * base + R
    <2>1. (r + q * M) * U = r * U + q * (U * M)
      BY <1>1
    <2>2. rLow + (r + q * M) * U = q * (U * M) + (rLow + r * U)
      BY <1>1, <2>1
    <2> QED BY <2>2
  <1> DEFINE t == rLow + w * U
  <1>8. t \in Int
    OBVIOUS
  <1> HIDE DEF base, R, t
  <1>9. t = q * base + R /\ R \in 0..(base - 1)
    BY <1>2, <1>5, <1>7 DEF t
  <1>10. t % base = R
    BY <1>2, <1>8, <1>9, DivModIs
  <1>11. (t \in 0..(base - 1)) <=> q = 0
    <2>1. CASE q = 0
      BY <1>2, <1>9, <2>1
    <2>2. ASSUME t \in 0..(base - 1) PROVE q = 0
      <3>1. 0 * base + t = q * base + R
        BY <1>9, <1>2, <1>8
      <3> QED BY <1>2, <1>9, <2>2, <3>1, SameQuotient
    <2> QED BY <2>1, <2>2
  <1> QED BY <1>2, <1>3, <1>4, <1>5, <1>6, <1>9, <1>10, <1>11 DEF base, R, t

\* A number of several words as a signed one: its top word is.
LEMMA SignedWords ==
  ASSUME NEW U \in Nat \ {0}, NEW dLow \in 0..(U - 1), NEW d \in Value
  PROVE  LET base == U * M
             D == dLow + d * U IN
         /\ D \in 0..(base - 1)
         /\ (IF D >= Half * U THEN D - base ELSE D) = dLow + Signed(d) * U
  <1>1. Half \in Nat /\ Half >= 2 /\ M = 2 * Half /\ d \in 0..(M - 1) /\ M \in Nat
    BY Widths DEF Value
  <1> DEFINE base == U * M
             D == dLow + d * U
  <1>2. (D >= Half * U) <=> (d >= Half)
    BY <1>1, HigherDecides
  <1>3. (D >= M * U) <=> (d >= M)
    BY <1>1, HigherDecides
  <1>4. d * U \in Nat /\ M * U = base /\ (d - M) * U = d * U - base
    BY <1>1
  <1>5. D \in 0..(base - 1)
    BY <1>1, <1>3, <1>4
  <1> QED BY <1>1, <1>2, <1>4, <1>5 DEF Signed, Negative

\* A sum of words is within the signed numbers if its top is.
LEMMA SignedRange ==
  ASSUME NEW U \in Nat \ {0}, NEW r \in 0..(U - 1), NEW e \in Int
  PROVE  (r + e * U \in (-(Half * U))..(Half * U - 1)) <=> (e \in (-Half)..(Half - 1))
  <1>1. Half \in Nat
    BY Widths
  <1>2. (r + e * U >= Half * U) <=> (e >= Half)
    BY <1>1, HigherDecides
  <1>3. (r + e * U >= (-Half) * U) <=> (e >= -Half)
    BY <1>1, HigherDecides
  <1>4. (-Half) * U = -(Half * U) /\ Half * U \in Int /\ e * U \in Int
    BY <1>1
  <1> DEFINE a == Half * U
             b == e * U
  <1> HIDE DEF a, b
  <1>5. (r + b >= a) <=> (e >= Half)
    BY <1>2 DEF a, b
  <1>6. (r + b >= -a) <=> (e >= -Half)
    BY <1>3, <1>4 DEF a, b
  <1>7. a \in Int /\ b \in Int
    BY <1>4 DEF a, b
  <1>8. (r + b \in (-a)..(a - 1)) <=> (e \in (-Half)..(Half - 1))
    BY <1>1, <1>5, <1>6, <1>7
  <1> QED BY <1>8 DEF a, b

\* `ChainFlagsOfTheWhole` of operands d and s, a result r and flags f.
Whole(op, d, s, r, base, f) ==
    LET top == base \div 2
        signed(v) == IF v >= top THEN v - base ELSE v
        exact == IF op = "ADD" THEN signed(d) + signed(s) ELSE signed(d) - signed(s)
        natural == IF op = "ADD" THEN d + s ELSE d - s
    IN /\ r = natural % base
       /\ f.c = (natural \notin 0..(base - 1)) /\ f.x = f.c
       /\ f.v = (exact \notin (-top)..(top - 1))
       /\ f.z = (r = 0) /\ f.n = (r >= top)

WordOf(op, f, d, s, extend) == IF op = "ADD" THEN DoAdd(f, d, s, extend) ELSE DoSub(f, d, s, extend, TRUE)

\* A number so far, with a carry of weight U.
Joined(op, d, s, r, q, U) == IF op = "ADD" THEN d + s = r + q * U ELSE d - s = r - q * U

\* The flags of one more word are those of the whole number.
LEMMA WordJoins ==
  ASSUME NEW op \in {"ADD", "SUB"}, NEW f \in Ccr, NEW extend \in BOOLEAN, NEW d \in Value, NEW s \in Value,
         NEW U \in Nat \ {0}, NEW dLow \in 0..(U - 1), NEW sLow \in 0..(U - 1), NEW rLow \in 0..(U - 1),
         Joined(op, dLow, sLow, rLow, Bit(extend /\ f.x), U),
         extend => f.z = (rLow = 0), ~extend => rLow = 0
  PROVE  LET out == WordOf(op, f, d, s, extend)
             base == U * M IN
         /\ out.res \in Value /\ out.flags \in Ccr
         /\ dLow + d * U \in 0..(base - 1) /\ sLow + s * U \in 0..(base - 1) /\ rLow + out.res * U \in 0..(base - 1)
         /\ Whole(op, dLow + d * U, sLow + s * U, rLow + out.res * U, base, out.flags)
  <1> DEFINE out == WordOf(op, f, d, s, extend)
             g == out.flags
             r == out.res
             q0 == Bit(extend /\ f.x)
             c == Bit(g.c)
             base == U * M
             D == dLow + d * U
             S == sLow + s * U
             R == rLow + r * U
             top == Half * U
             sd == Signed(d)
             ss == Signed(s)
             signed(v) == IF v >= top THEN v - base ELSE v
  <1>1. Half \in Nat /\ Half >= 2 /\ M = 2 * Half /\ d \in Nat /\ s \in Nat /\ sd \in Int /\ ss \in Int
        /\ q0 \in 0..1
    <2>1. Half \in Nat /\ Half >= 2 /\ M = 2 * Half /\ d \in 0..(M - 1) /\ s \in 0..(M - 1)
      BY Widths DEF Value
    <2> QED BY <2>1 DEF Signed, Negative, Bit
  <1>2. /\ g \in Ccr /\ r \in Value /\ g.x = g.c
        /\ g.n = (r >= Half) /\ g.z = ((extend => f.z) /\ r = 0)
    <2>1. CASE op = "ADD"
      <3>1. out = DoAdd(f, d, s, extend)
        BY <2>1 DEF WordOf
      <3> HIDE DEF out
      <3> QED BY <3>1, AddIs
    <2>2. CASE op = "SUB"
      <3>1. PICK writes \in BOOLEAN : writes = TRUE
        OBVIOUS
      <3>2. out = DoSub(f, d, s, extend, TRUE)
        BY <2>2 DEF WordOf
      <3> HIDE DEF out
      <3>3. out = DoSub(f, d, s, extend, writes)
        BY <3>1, <3>2, Zenon
      <3>4. writes
        BY <3>1
      <3>5. LET o == DoSub(f, d, s, extend, writes)
                ci == Bit(extend /\ f.x)
                h == o.flags IN
            /\ h \in Ccr /\ o.res \in Value /\ (writes => h.x = h.c) /\ (~writes => h.x = f.x)
            /\ d - s - ci = o.res - Bit(h.c) * M
            /\ h.n = (o.res >= Half) /\ h.z = ((extend => f.z) /\ o.res = 0)
            /\ h.v = (Signed(d) - Signed(s) - ci \notin (-Half)..(Half - 1))
        BY SubIs
      <3> QED BY <3>3, <3>4, <3>5
    <2> QED BY <2>1, <2>2
  <1>3. CASE op = "ADD"
    <2>1. /\ d + s + q0 = r + c * M
          /\ g.v = (sd + ss + q0 \notin (-Half)..(Half - 1))
      <3>1. out = DoAdd(f, d, s, extend)
        BY <1>3 DEF WordOf
      <3> HIDE DEF out
      <3> QED BY <3>1, AddIs
    <2>2. c \in 0..1 /\ (c = 0 <=> ~g.c)
      BY <1>2 DEF Bit, Ccr
    <2>3. dLow + sLow = rLow + q0 * U
      BY <1>3 DEF Joined
    <2> HIDE DEF out, g, r, q0, c, sd, ss
    <2>4. D + S = rLow + (d + s + q0) * U
      <3>1. (d + s + q0) * U = d * U + s * U + q0 * U
        BY <1>1
      <3> DEFINE x == d * U
                 y == s * U
                 z == q0 * U
      <3>2. x \in Int /\ y \in Int /\ z \in Int
        BY <1>1
      <3> HIDE DEF x, y, z
      <3>3. (dLow + x) + (sLow + y) = rLow + (x + y + z)
        BY <2>3, <3>2 DEF z
      <3> QED BY <3>1, <3>3 DEF x, y, z
    <2>5. /\ base \in Nat \ {0} /\ base \div 2 = top /\ R \in 0..(base - 1)
          /\ (D + S) % base = R /\ ((D + S \in 0..(base - 1)) <=> c = 0)
          /\ (R >= top) <=> (r >= Half)
          /\ (R = 0) <=> (rLow = 0 /\ r = 0)
      <3> DEFINE w == d + s + q0
      <3>1. w \in Int /\ w = r + c * M /\ c \in Int
        BY <1>1, <2>1, <2>2
      <3> HIDE DEF w
      <3>2. /\ base \in Nat \ {0} /\ base \div 2 = top /\ R \in 0..(base - 1)
            /\ (rLow + w * U) % base = R /\ ((rLow + w * U \in 0..(base - 1)) <=> c = 0)
            /\ (R >= top) <=> (r >= Half)
            /\ (R = 0) <=> (rLow = 0 /\ r = 0)
        BY <1>2, <3>1, MoreWords, SMTT(30)
      <3>3. D + S = rLow + w * U
        BY <2>4 DEF w
      <3> HIDE DEF D, S, R, base, top
      <3> QED BY <3>2, <3>3
    <2>6. /\ D \in 0..(base - 1) /\ signed(D) = dLow + sd * U
          /\ S \in 0..(base - 1) /\ signed(S) = sLow + ss * U
      BY SignedWords DEF sd, ss
    <2>7. signed(D) + signed(S) = rLow + (sd + ss + q0) * U
      <3>1. (sd + ss + q0) * U = sd * U + ss * U + q0 * U
        BY <1>1
      <3> DEFINE x == sd * U
                 y == ss * U
                 z == q0 * U
      <3>2. x \in Int /\ y \in Int /\ z \in Int
        BY <1>1
      <3> HIDE DEF x, y, z
      <3>3. (dLow + x) + (sLow + y) = rLow + (x + y + z)
        BY <2>3, <3>2 DEF z
      <3> HIDE DEF signed
      <3> QED BY <2>6, <3>1, <3>3 DEF x, y, z
    <2>8. g.v = (signed(D) + signed(S) \notin (-top)..(top - 1))
      <3> DEFINE e == sd + ss + q0
      <3>1. e \in Int
        BY <1>1
      <3> HIDE DEF e
      <3>2. (rLow + e * U \in (-top)..(top - 1)) <=> (e \in (-Half)..(Half - 1))
        BY <3>1, SignedRange
      <3> HIDE DEF signed, top
      <3> QED BY <2>1, <2>7, <3>2 DEF e
    <2>9. g.z = (R = 0)
      BY <1>2, <2>5 DEF Ccr
    <2> HIDE DEF D, S, R, base, top
    <2>10. Whole(op, D, S, R, base, g)
      BY <1>2, <1>3, <2>2, <2>5, <2>8, <2>9 DEF Whole, Ccr
    <2> QED BY <1>2, <2>5, <2>6, <2>10 DEF D, S, R, base, out, r, g
  <1>4. CASE op = "SUB"
    <2>1. /\ d - s - q0 = r - c * M
          /\ g.v = (sd - ss - q0 \notin (-Half)..(Half - 1))
      <3>1. PICK writes \in BOOLEAN : writes = TRUE
        OBVIOUS
      <3>2. out = DoSub(f, d, s, extend, TRUE)
        BY <1>4 DEF WordOf
      <3> HIDE DEF out
      <3>3. out = DoSub(f, d, s, extend, writes)
        BY <3>1, <3>2, Zenon
      <3>4. writes
        BY <3>1
      <3>5. LET o == DoSub(f, d, s, extend, writes)
                ci == Bit(extend /\ f.x)
                h == o.flags IN
            /\ h \in Ccr /\ o.res \in Value /\ (writes => h.x = h.c) /\ (~writes => h.x = f.x)
            /\ d - s - ci = o.res - Bit(h.c) * M
            /\ h.n = (o.res >= Half) /\ h.z = ((extend => f.z) /\ o.res = 0)
            /\ h.v = (Signed(d) - Signed(s) - ci \notin (-Half)..(Half - 1))
        BY SubIs
      <3> QED BY <3>3, <3>4, <3>5
    <2>2. c \in 0..1 /\ (c = 0 <=> ~g.c)
      BY <1>2 DEF Bit, Ccr
    <2>3. dLow - sLow = rLow - q0 * U
      BY <1>4 DEF Joined
    <2> HIDE DEF out, g, r, q0, c, sd, ss
    <2>4. D - S = rLow + (d - s - q0) * U
      <3>1. (d - s - q0) * U = d * U - s * U - q0 * U
        BY <1>1
      <3> DEFINE x == d * U
                 y == s * U
                 z == q0 * U
      <3>2. x \in Int /\ y \in Int /\ z \in Int
        BY <1>1
      <3> HIDE DEF x, y, z
      <3>3. (dLow + x) - (sLow + y) = rLow + (x - y - z)
        BY <2>3, <3>2 DEF z
      <3> QED BY <3>1, <3>3 DEF x, y, z
    <2>5. /\ base \in Nat \ {0} /\ base \div 2 = top /\ R \in 0..(base - 1)
          /\ (D - S) % base = R /\ ((D - S \in 0..(base - 1)) <=> c = 0)
          /\ (R >= top) <=> (r >= Half)
          /\ (R = 0) <=> (rLow = 0 /\ r = 0)
      <3> DEFINE w == d - s - q0
                 q == -c
      <3>1. w \in Int /\ w = r + q * M /\ q \in Int /\ (q = 0 <=> c = 0)
        <4>1. (-c) * M = -(c * M) /\ r \in Int
          BY <1>1, <1>2, <2>2 DEF Value
        <4> QED BY <1>1, <2>1, <2>2, <4>1
      <3> HIDE DEF w, q
      <3>2. /\ base \in Nat \ {0} /\ base \div 2 = top /\ R \in 0..(base - 1)
            /\ (rLow + w * U) % base = R /\ ((rLow + w * U \in 0..(base - 1)) <=> q = 0)
            /\ (R >= top) <=> (r >= Half)
            /\ (R = 0) <=> (rLow = 0 /\ r = 0)
        BY <1>2, <3>1, MoreWords, SMTT(30)
      <3>3. D - S = rLow + w * U
        BY <2>4 DEF w
      <3> HIDE DEF D, S, R, base, top
      <3> QED BY <3>1, <3>2, <3>3
    <2>6. /\ D \in 0..(base - 1) /\ signed(D) = dLow + sd * U
          /\ S \in 0..(base - 1) /\ signed(S) = sLow + ss * U
      BY SignedWords DEF sd, ss
    <2>7. signed(D) - signed(S) = rLow + (sd - ss - q0) * U
      <3>1. (sd - ss - q0) * U = sd * U - ss * U - q0 * U
        BY <1>1
      <3> DEFINE x == sd * U
                 y == ss * U
                 z == q0 * U
      <3>2. x \in Int /\ y \in Int /\ z \in Int
        BY <1>1
      <3> HIDE DEF x, y, z
      <3>3. (dLow + x) - (sLow + y) = rLow + (x - y - z)
        BY <2>3, <3>2 DEF z
      <3> HIDE DEF signed
      <3> QED BY <2>6, <3>1, <3>3 DEF x, y, z
    <2>8. g.v = (signed(D) - signed(S) \notin (-top)..(top - 1))
      <3> DEFINE e == sd - ss - q0
      <3>1. e \in Int
        BY <1>1
      <3> HIDE DEF e
      <3>2. (rLow + e * U \in (-top)..(top - 1)) <=> (e \in (-Half)..(Half - 1))
        BY <3>1, SignedRange
      <3> HIDE DEF signed, top
      <3> QED BY <2>1, <2>7, <3>2 DEF e
    <2>9. g.z = (R = 0)
      BY <1>2, <2>5 DEF Ccr
    <2> HIDE DEF D, S, R, base, top
    <2>10. Whole(op, D, S, R, base, g)
      BY <1>2, <1>4, <2>2, <2>5, <2>8, <2>9 DEF Whole, Ccr
    <2> QED BY <1>2, <2>5, <2>6, <2>10 DEF D, S, R, base, out, r, g
  <1> QED BY <1>3, <1>4

-----------------------------------------------------------------------------
\* What the branch conditions read of the flags.
LEMMA HoldsIs ==
  ASSUME NEW g
  PROVE  /\ Holds(2, g) = (~g.c /\ ~g.z) /\ Holds(3, g) = (g.c \/ g.z)
         /\ Holds(4, g) = (~g.c) /\ Holds(5, g) = g.c /\ Holds(6, g) = (~g.z) /\ Holds(7, g) = g.z
         /\ Holds(12, g) = (g.n = g.v) /\ Holds(13, g) = (g.n # g.v)
         /\ Holds(14, g) = (~g.z /\ g.n = g.v) /\ Holds(15, g) = (g.z \/ g.n # g.v)
  BY DEF Holds, Condition

\* `ConditionsDecideOrder` of operands d and s and flags g.
Decided(d, s, g) ==
    /\ Holds(2, g) = (d > s) /\ Holds(3, g) = (d <= s)
    /\ Holds(4, g) = (d >= s) /\ Holds(5, g) = (d < s)
    /\ Holds(6, g) = (d # s) /\ Holds(7, g) = (d = s)
    /\ Holds(12, g) = (Signed(d) >= Signed(s)) /\ Holds(13, g) = (Signed(d) < Signed(s))
    /\ Holds(14, g) = (Signed(d) > Signed(s)) /\ Holds(15, g) = (Signed(d) <= Signed(s))

\* A comparison decides every order.
LEMMA ComparisonDecides ==
  ASSUME NEW f \in Ccr, NEW d \in Value, NEW s \in Value
  PROVE  LET out == DoSub(f, d, s, FALSE, FALSE) IN
         out.flags \in Ccr /\ out.flags.x = f.x /\ Decided(d, s, out.flags)
  <1>1. PICK e \in BOOLEAN : e = FALSE
    OBVIOUS
  <1> DEFINE out == DoSub(f, d, s, e, e)
             g == out.flags
             r == out.res
             ci == Bit(e /\ f.x)
  <1>2. /\ g \in Ccr /\ r \in Value /\ (e => g.x = g.c) /\ (~e => g.x = f.x)
        /\ d - s - ci = r - Bit(g.c) * M
        /\ g.n = (r >= Half) /\ g.z = ((e => f.z) /\ r = 0)
        /\ g.v = (Signed(d) - Signed(s) - ci \notin (-Half)..(Half - 1))
    BY SubIs
  <1>3. DoSub(f, d, s, FALSE, FALSE) = out
    BY <1>1, Zenon
  <1>4. ci = 0
    BY <1>1 DEF Bit
  <1>5. Half \in Nat /\ Half >= 2 /\ M = 2 * Half /\ d \in 0..(M - 1) /\ s \in 0..(M - 1)
    BY Widths DEF Value
  <1> HIDE DEF out, r, ci
  <1>6. g.x = f.x /\ g.n = (r >= Half) /\ g.z = (r = 0) /\ d - s = r - Bit(g.c) * M
        /\ g.v = (Signed(d) - Signed(s) \notin (-Half)..(Half - 1)) /\ r \in 0..(M - 1)
    <2>1. Signed(d) \in Int /\ Signed(s) \in Int
      BY <1>5 DEF Signed
    <2>2. r \in Nat /\ Bit(g.c) \in 0..1
      BY <1>2, <1>5 DEF Value, Bit
    <2> HIDE DEF g
    <2> QED BY <1>1, <1>2, <1>4, <1>5, <2>1, <2>2 DEF Value
  <1>7. g.c = (d < s) /\ g.z = (d = s) /\ (g.n = g.v) = (Signed(d) >= Signed(s))
    <2> DEFINE n == g.n
               z == g.z
               c == g.c
               v == g.v
    <2>1. n \in BOOLEAN /\ z \in BOOLEAN /\ c \in BOOLEAN /\ v \in BOOLEAN
      BY <1>2 DEF Ccr
    <2>2. n = (r >= Half) /\ z = (r = 0) /\ d - s = r - Bit(c) * M
          /\ v = (Signed(d) - Signed(s) \notin (-Half)..(Half - 1)) /\ r \in 0..(M - 1)
      BY <1>6
    <2> HIDE DEF n, z, c, v, g
    <2>3. c = (d < s)
      BY <1>5, <2>1, <2>2 DEF Bit
    <2>4. z = (d = s)
      BY <1>5, <2>1, <2>2 DEF Bit
    <2>5. (n = v) = (Signed(d) >= Signed(s))
      BY <1>5, <2>1, <2>2 DEF Bit, Signed, Negative
    <2> QED BY <2>3, <2>4, <2>5 DEF n, z, c, v
  <1>8. Decided(d, s, g)
    <2>1. Signed(d) \in Int /\ Signed(s) \in Int /\ d \in Int /\ s \in Int
      BY <1>5 DEF Signed
    <2>2. (d = s) = (Signed(d) = Signed(s))
      BY <1>5 DEF Signed, Negative
    <2>3. g.c \in BOOLEAN /\ g.z \in BOOLEAN /\ g.n \in BOOLEAN /\ g.v \in BOOLEAN
      BY <1>2 DEF Ccr
    <2> HIDE DEF g
    <2>4. /\ (~g.c /\ ~g.z) = (d > s) /\ (g.c \/ g.z) = (d <= s)
          /\ (~g.c) = (d >= s) /\ (~g.z) = (d # s)
      <3> DEFINE c == g.c
                 z == g.z
      <3>1. c \in BOOLEAN /\ z \in BOOLEAN /\ c = (d < s) /\ z = (d = s)
        BY <1>7, <2>3
      <3> HIDE DEF c, z
      <3>2. (c <=> d < s) /\ (z <=> d = s)
        BY <3>1
      <3>3. ((~c /\ ~z) <=> d > s) /\ ((c \/ z) <=> d <= s) /\ (~c <=> d >= s) /\ (~z <=> d # s)
        BY <2>1, <3>1, <3>2
      <3>4. (~c /\ ~z) = (d > s) /\ (c \/ z) = (d <= s) /\ (~c) = (d >= s) /\ (~z) = (d # s)
        BY <3>3
      <3> QED BY <3>4 DEF c, z
    <2>5. /\ (g.n # g.v) = (Signed(d) < Signed(s))
          /\ (~g.z /\ g.n = g.v) = (Signed(d) > Signed(s)) /\ (g.z \/ g.n # g.v) = (Signed(d) <= Signed(s))
      <3> DEFINE a == Signed(d)
                 b == Signed(s)
                 z == g.z
                 n == g.n
                 v == g.v
      <3>1. a \in Int /\ b \in Int /\ z = (a = b) /\ (n = v) = (a >= b)
            /\ z \in BOOLEAN /\ n \in BOOLEAN /\ v \in BOOLEAN
        BY <1>7, <2>1, <2>2, <2>3
      <3> HIDE DEF a, b, z, n, v
      <3>2. (n # v) = (a < b)
        BY <3>1
      <3>5. (z <=> a = b) /\ (n = v <=> a >= b)
        BY <3>1
      <3>6. ((~z /\ n = v) <=> a > b) /\ ((z \/ n # v) <=> a <= b)
        BY <3>1, <3>5
      <3>3. (~z /\ n = v) = (a > b)
        BY <3>6
      <3>4. (z \/ n # v) = (a <= b)
        BY <3>6
      <3> QED BY <3>2, <3>3, <3>4 DEF a, b, z, n, v
    <2>6. /\ Holds(2, g) = (d > s) /\ Holds(3, g) = (d <= s)
          /\ Holds(4, g) = (d >= s) /\ Holds(5, g) = (d < s)
          /\ Holds(6, g) = (d # s) /\ Holds(7, g) = (d = s)
      BY <1>7, <2>4, HoldsIs, Zenon
    <2>7. /\ Holds(12, g) = (Signed(d) >= Signed(s)) /\ Holds(13, g) = (Signed(d) < Signed(s))
          /\ Holds(14, g) = (Signed(d) > Signed(s)) /\ Holds(15, g) = (Signed(d) <= Signed(s))
      BY <1>7, <2>5, HoldsIs, Zenon
    <2> QED BY <2>6, <2>7 DEF Decided
  <1> QED BY <1>2, <1>3, <1>6, <1>8

-----------------------------------------------------------------------------
\* The states of a shift, one for each bit.
ShiftStart(f, val) == [v |-> val, c |-> FALSE, x |-> f.x, o |-> FALSE]
ShiftRun(f, kind, left, val, count) ==
    CHOOSE run : run = [n \in 0..count |-> IF n = 0 THEN ShiftStart(f, val) ELSE ShiftOne(kind, left, run[n - 1])]

\* A shift goes bit by bit.
LEMMA ShiftRuns ==
  ASSUME NEW f, NEW kind, NEW left, NEW val, NEW count \in Nat
  PROVE  LET run == ShiftRun(f, kind, left, val, count) IN
         /\ run[0] = ShiftStart(f, val)
         /\ \A n \in 1..count : run[n] = ShiftOne(kind, left, run[n - 1])
  <1> DEFINE run == ShiftRun(f, kind, left, val, count)
             g == ShiftStart(f, val)
             F(s) == ShiftOne(kind, left, s)
             T == {k \in Nat : \E e : e = [n \in 0..k |-> IF n = 0 THEN g ELSE F(e[n - 1])]}
  <1>1. run = CHOOSE e : e = [n \in 0..count |-> IF n = 0 THEN g ELSE F(e[n - 1])]
    BY DEF ShiftRun
  <1> HIDE DEF run, g, F
  <1>2. 0 \in T
    <2> DEFINE e == [n \in 0..0 |-> g]
    <2>1. e = [n \in 0..0 |-> IF n = 0 THEN g ELSE F(e[n - 1])]
      OBVIOUS
    <2> QED BY <2>1
  <1>3. ASSUME NEW k \in Nat, k \in T PROVE k + 1 \in T
    <2>1. PICK e : e = [n \in 0..k |-> IF n = 0 THEN g ELSE F(e[n - 1])]
      BY <1>3
    <2> DEFINE h == [n \in 0..(k + 1) |-> IF n = k + 1 THEN F(e[k]) ELSE e[n]]
               j == [n \in 0..(k + 1) |-> IF n = 0 THEN g ELSE F(h[n - 1])]
    <2>2. ASSUME NEW n \in 0..(k + 1) PROVE h[n] = IF n = 0 THEN g ELSE F(h[n - 1])
      <3>1. \A i \in 0..k : e[i] = IF i = 0 THEN g ELSE F(e[i - 1])
        BY <2>1
      <3>2. CASE n = k + 1
        <4>1. n # 0 /\ n - 1 = k /\ k \in 0..(k + 1) /\ k # k + 1
          BY <3>2
        <4>2. h[n] = F(e[k]) /\ h[k] = e[k]
          BY <3>2, <4>1
        <4> HIDE DEF h
        <4> QED BY <4>1, <4>2
      <3>3. CASE n # k + 1 /\ n # 0
        <4>1. n \in 0..k /\ n - 1 \in 0..(k + 1) /\ n - 1 # k + 1
          BY <3>3
        <4>2. h[n] = e[n] /\ h[n - 1] = e[n - 1]
          BY <3>3, <4>1
        <4> HIDE DEF h
        <4> QED BY <3>1, <3>3, <4>1, <4>2
      <3>4. CASE n = 0
        <4>1. 0 \in 0..k /\ 0 \in 0..(k + 1) /\ 0 # k + 1
          OBVIOUS
        <4>2. h[0] = e[0]
          BY <4>1
        <4> HIDE DEF h
        <4> QED BY <3>1, <3>4, <4>1, <4>2
      <3> QED BY <3>2, <3>3, <3>4
    <2>3. h = [n \in 0..(k + 1) |-> h[n]] /\ j = [n \in 0..(k + 1) |-> j[n]]
      OBVIOUS
    <2>4. \A n \in 0..(k + 1) : j[n] = IF n = 0 THEN g ELSE F(h[n - 1])
      OBVIOUS
    <2> HIDE DEF h
    <2>5. h = j
      <3> HIDE DEF j
      <3> QED BY <2>2, <2>3, <2>4
    <2>6. h = [n \in 0..(k + 1) |-> IF n = 0 THEN g ELSE F(h[n - 1])]
      BY <2>5
    <2> QED BY <2>6
  <1>4. count \in T
    <2> HIDE DEF T
    <2> QED BY <1>2, <1>3, Induct
  <1>5. run = [n \in 0..count |-> IF n = 0 THEN g ELSE F(run[n - 1])]
    BY <1>1, <1>4
  <1>6. run[0] = g
    BY <1>5
  <1>7. ASSUME NEW n \in 1..count PROVE run[n] = F(run[n - 1])
    <2>1. n \in 0..count /\ n # 0
      OBVIOUS
    <2> QED BY <1>5, <2>1
  <1> QED BY <1>6, <1>7 DEF run, g, F

\* What a shift leaves is what its last bit left.
LEMMA ShiftValIs ==
  ASSUME NEW f \in Ccr, NEW kind \in Kinds, NEW left, NEW val, NEW count \in Nat
  PROVE  LET out == ShiftVal(f, kind, left, val, count)
             last == ShiftRun(f, kind, left, val, count)[count] IN
         /\ out.res = last.v
         /\ last.c \in BOOLEAN /\ last.x \in BOOLEAN /\ last.o \in BOOLEAN =>
              /\ out.flags \in Ccr /\ out.flags.v = last.o
              /\ kind \notin {"AS", "LS"} => out.flags.x = last.x
  <1> DEFINE out == ShiftVal(f, kind, left, val, count)
             run == ShiftRun(f, kind, left, val, count)
             s == run[count]
             nz == NZ(f, s.v, FALSE)
  <1>1. out = [res |-> s.v,
               flags |-> IF count = 0 THEN [nz EXCEPT !.v = FALSE, !.c = kind = "ROX" /\ f.x]
                         ELSE [nz EXCEPT !.v = s.o, !.c = s.c,
                                         !.x = IF kind \in {"AS", "LS"} THEN s.c ELSE s.x]]
    BY DEF ShiftVal, ShiftRun, ShiftStart
  <1>2. count = 0 => s.o = FALSE /\ s.x = f.x
    <2>1. run[0] = ShiftStart(f, val)
      BY ShiftRuns
    <2> HIDE DEF run
    <2> QED BY <2>1 DEF ShiftStart
  <1> HIDE DEF s, out
  <1>3. nz \in Ccr /\ nz.x = f.x
    <2> DEFINE r == s.v
               n == r >= Half
               z == (r = 0)
               g == [f EXCEPT !.n = n, !.z = z]
    <2>1. n \in BOOLEAN /\ z \in BOOLEAN
      OBVIOUS
    <2>2. nz = g
      BY DEF NZ, Negative
    <2> HIDE DEF n, z, nz
    <2>3. g \in Ccr /\ g.x = f.x
      BY <2>1 DEF Ccr
    <2> HIDE DEF g
    <2> QED BY <2>2, <2>3
  <1> HIDE DEF nz
  <1>4. out.res = s.v
    BY <1>1
  <1>5. ASSUME s.c \in BOOLEAN, s.x \in BOOLEAN, s.o \in BOOLEAN
        PROVE  /\ out.flags \in Ccr /\ out.flags.v = s.o
               /\ kind \notin {"AS", "LS"} => out.flags.x = s.x
    <2>1. CASE count = 0
      <3> DEFINE rotates == kind = "ROX" /\ f.x
                 g == [nz EXCEPT !.v = FALSE, !.c = rotates]
      <3>1. rotates \in BOOLEAN
        OBVIOUS
      <3>2. out.flags = g
        BY <1>1, <2>1
      <3> HIDE DEF rotates
      <3>3. g \in Ccr /\ g.v = FALSE /\ g.x = nz.x
        BY <1>3, <3>1 DEF Ccr
      <3> HIDE DEF g
      <3> QED BY <1>2, <1>3, <2>1, <3>2, <3>3
    <2>2. CASE count # 0
      <3> DEFINE o == s.o
                 c == s.c
                 x == IF kind \in {"AS", "LS"} THEN s.c ELSE s.x
                 g == [nz EXCEPT !.v = o, !.c = c, !.x = x]
      <3>1. o \in BOOLEAN /\ c \in BOOLEAN /\ x \in BOOLEAN /\ (kind \notin {"AS", "LS"} => x = s.x)
        BY <1>5
      <3>2. out.flags = g
        BY <1>1, <2>2
      <3> HIDE DEF o, c, x
      <3>3. g \in Ccr /\ g.v = o /\ g.x = x
        BY <1>3, <3>1 DEF Ccr
      <3> HIDE DEF g
      <3> QED BY <3>1, <3>2, <3>3 DEF o
    <2> QED BY <2>1, <2>2
  <1> QED BY <1>4, <1>5 DEF s, out

ShiftState == [v : Value, c : BOOLEAN, x : BOOLEAN, o : BOOLEAN]

\* One bit keeps the types.
LEMMA ShiftOneTyped ==
  ASSUME NEW kind \in Kinds, NEW left \in BOOLEAN, NEW s \in ShiftState
  PROVE  ShiftOne(kind, left, s) \in ShiftState
  <1> DEFINE out == IF left THEN Negative(s.v) ELSE s.v % 2 = 1
             in == CASE kind = "RO" -> out
                     [] kind = "ROX" -> s.x
                     [] kind = "AS" /\ ~left -> Negative(s.v)
                     [] OTHER -> FALSE
             v == IF left THEN (2 * s.v + Bit(in)) % M ELSE s.v \div 2 + Half * Bit(in)
             x == IF kind = "ROX" THEN out ELSE s.x
             o == s.o \/ (kind = "AS" /\ left /\ Negative(v) # Negative(s.v))
  <1>1. Half \in Nat /\ Half >= 2 /\ M = 2 * Half /\ s.v \in 0..(M - 1) /\ s.x \in BOOLEAN /\ s.o \in BOOLEAN
    BY Widths DEF ShiftState, Value
  <1>2. Bit(in) \in 0..1
    BY DEF Bit
  <1>3. v \in Value
    <2> DEFINE b == Bit(in)
               w == s.v
    <2>1. b \in 0..1 /\ w \in 0..(M - 1) /\ v = IF left THEN (2 * w + b) % M ELSE w \div 2 + Half * b
      BY <1>1, <1>2
    <2> HIDE DEF b, w, v
    <2>2. (2 * w + b) % M \in 0..(M - 1)
      <3> DEFINE a == 2 * w + b
      <3>1. a \in Int /\ M \in Nat \ {0}
        BY <1>1, <2>1
      <3> HIDE DEF a
      <3>2. a % M \in 0..(M - 1)
        BY <3>1, DivMod
      <3> QED BY <3>2 DEF a
    <2>3. w \div 2 + Half * b \in 0..(M - 1)
      <3>1. w \div 2 \in 0..(Half - 1) /\ Half * b \in {0, Half}
        BY <1>1, <2>1
      <3> QED BY <1>1, <3>1
    <2> QED BY <2>1, <2>2, <2>3 DEF Value
  <1>4. out \in BOOLEAN
    <2> DEFINE w == s.v
               high == w >= Half
               low == w % 2 = 1
    <2>1. high \in BOOLEAN /\ low \in BOOLEAN
      OBVIOUS
    <2>2. out = IF left THEN high ELSE low
      BY DEF Negative
    <2> HIDE DEF high, low, out
    <2> QED BY <2>1, <2>2
  <1> HIDE DEF v, in
  <1>5. x \in BOOLEAN
    <2> HIDE DEF out
    <2> QED BY <1>1, <1>4
  <1>6. o \in BOOLEAN
    BY <1>1
  <1>7. ShiftOne(kind, left, s) = [v |-> v, c |-> out, x |-> x, o |-> o]
    BY DEF ShiftOne, v, in
  <1> HIDE DEF out, x, o
  <1> QED BY <1>3, <1>4, <1>5, <1>6, <1>7 DEF ShiftState

\* Every state on the way is one of a shift.
LEMMA ShiftRunTyped ==
  ASSUME NEW f \in Ccr, NEW kind \in Kinds, NEW left \in BOOLEAN, NEW val \in Value, NEW count \in Nat
  PROVE  \A n \in 0..count : ShiftRun(f, kind, left, val, count)[n] \in ShiftState
  <1> DEFINE run == ShiftRun(f, kind, left, val, count)
             T == {n \in Nat : n <= count => run[n] \in ShiftState}
  <1>1. run[0] = ShiftStart(f, val) /\ \A n \in 1..count : run[n] = ShiftOne(kind, left, run[n - 1])
    BY ShiftRuns
  <1> HIDE DEF run
  <1>2. 0 \in T
    <2> DEFINE x == f.x
    <2>1. x \in BOOLEAN
      BY DEF Ccr
    <2>2. run[0] = [v |-> val, c |-> FALSE, x |-> x, o |-> FALSE]
      BY <1>1 DEF ShiftStart
    <2> HIDE DEF x
    <2>3. run[0] \in ShiftState
      BY <2>1, <2>2 DEF ShiftState
    <2> QED BY <2>3
  <1>3. ASSUME NEW n \in Nat, n \in T PROVE n + 1 \in T
    <2>1. SUFFICES ASSUME n + 1 <= count PROVE run[n + 1] \in ShiftState
      OBVIOUS
    <2>2. n + 1 \in 1..count /\ (n + 1) - 1 = n /\ run[n] \in ShiftState
      BY <1>3, <2>1
    <2>3. run[n + 1] = ShiftOne(kind, left, run[n])
      BY <1>1, <2>2
    <2> QED BY <2>2, <2>3, ShiftOneTyped
  <1>4. Nat \subseteq T
    <2> HIDE DEF T
    <2> QED BY <1>2, <1>3, Induct
  <1> QED BY <1>4 DEF run

\* What one bit does to the value, without the flags.
LEMMA ShiftOneIs ==
  ASSUME NEW kind \in Kinds, NEW left \in BOOLEAN, NEW s \in ShiftState
  PROVE  LET t == ShiftOne(kind, left, s) IN
         /\ left /\ kind \in {"AS", "LS"} => t.v = (2 * s.v) % M
         /\ left /\ kind = "AS" => t.o = (s.o \/ Negative(t.v) # Negative(s.v))
         /\ ~left /\ kind = "LS" => t.v = s.v \div 2
         /\ ~left /\ kind = "AS" => t.v = s.v \div 2 + Half * Bit(Negative(s.v))
         /\ left /\ kind = "RO" => t.v = (2 * s.v + Bit(Negative(s.v))) % M
         /\ ~left /\ kind = "RO" => t.v = s.v \div 2 + Half * Bit(s.v % 2 = 1)
         /\ left /\ kind = "ROX" => t.v = (2 * s.v + Bit(s.x)) % M /\ t.x = Negative(s.v)
         /\ ~left /\ kind = "ROX" => t.v = s.v \div 2 + Half * Bit(s.x) /\ t.x = (s.v % 2 = 1)
  <1> DEFINE out == IF left THEN Negative(s.v) ELSE s.v % 2 = 1
             in == CASE kind = "RO" -> out
                     [] kind = "ROX" -> s.x
                     [] kind = "AS" /\ ~left -> Negative(s.v)
                     [] OTHER -> FALSE
             v == IF left THEN (2 * s.v + Bit(in)) % M ELSE s.v \div 2 + Half * Bit(in)
             x == IF kind = "ROX" THEN out ELSE s.x
             o == s.o \/ (kind = "AS" /\ left /\ Negative(v) # Negative(s.v))
             t == ShiftOne(kind, left, s)
  <1>1. t = [v |-> v, c |-> out, x |-> x, o |-> o]
    BY DEF ShiftOne
  <1>2. t.v = v /\ t.x = x /\ t.o = o
    <2> HIDE DEF t, v, x, o, out
    <2> QED BY <1>1
  <1>3. s.v \in Int /\ Half \in Int
    BY Widths DEF ShiftState, Value
  <1> HIDE DEF t
  <1>4. kind \in {"AS", "LS"} /\ (left \/ kind = "LS") => in = FALSE
    BY DEF Kinds
  <1>5. /\ kind = "AS" /\ ~left => in = Negative(s.v)
        /\ kind = "RO" => in = out
        /\ kind = "ROX" => in = s.x
    OBVIOUS
  <1> HIDE DEF in
  <1>6. left /\ kind \in {"AS", "LS"} => t.v = (2 * s.v) % M
    <2>1. left /\ kind \in {"AS", "LS"} => Bit(in) = 0
      BY <1>4 DEF Bit
    <2> QED BY <1>2, <1>3, <2>1
  <1>7. left /\ kind = "AS" => t.o = (s.o \/ Negative(t.v) # Negative(s.v))
    BY <1>2, Zenon
  <1>8. ~left /\ kind = "LS" => t.v = s.v \div 2
    <2>1. ~left /\ kind = "LS" => Bit(in) = 0
      BY <1>4 DEF Bit
    <2> QED BY <1>2, <1>3, <2>1
  <1>9. ~left /\ kind = "AS" => t.v = s.v \div 2 + Half * Bit(Negative(s.v))
    BY <1>2, <1>5
  <1>10. /\ left /\ kind = "RO" => t.v = (2 * s.v + Bit(Negative(s.v))) % M
         /\ ~left /\ kind = "RO" => t.v = s.v \div 2 + Half * Bit(s.v % 2 = 1)
    BY <1>2, <1>5
  <1>11. /\ left /\ kind = "ROX" => t.v = (2 * s.v + Bit(s.x)) % M /\ t.x = Negative(s.v)
         /\ ~left /\ kind = "ROX" => t.v = s.v \div 2 + Half * Bit(s.x) /\ t.x = (s.v % 2 = 1)
    BY <1>2, <1>5
  <1> QED BY <1>6, <1>7, <1>8, <1>9, <1>10, <1>11 DEF t

-----------------------------------------------------------------------------
\* A remainder can be doubled.
LEMMA DoubleOfRest ==
  ASSUME NEW x \in Int, NEW y \in Nat \ {0}
  PROVE  (2 * (x % y)) % y = (2 * x) % y
  <1> DEFINE q == x \div y
             r == x % y
  <1>1. x = q * y + r /\ r \in 0..(y - 1) /\ q \in Int
    BY DivMod
  <1> HIDE DEF q, r
  <1> DEFINE p == (2 * r) \div y
             t == (2 * r) % y
  <1>2. 2 * r = p * y + t /\ t \in 0..(y - 1) /\ p \in Int
    <2> DEFINE a == 2 * r
    <2>1. a \in Int
      BY <1>1
    <2> HIDE DEF a
    <2>2. a = (a \div y) * y + (a % y) /\ a % y \in 0..(y - 1) /\ a \div y \in Int
      BY <2>1, DivMod
    <2> QED BY <2>2 DEF a
  <1> HIDE DEF p
  <1>3. t = (2 * r) % y
    OBVIOUS
  <1> HIDE DEF t
  <1>4. 2 * x = (2 * q + p) * y + t
    <2>1. (2 * q + p) * y = 2 * (q * y) + p * y
      BY <1>1, <1>2
    <2> HIDE DEF p
    <2> QED BY <1>1, <1>2, <2>1
  <1>5. (2 * x) % y = t
    <2> DEFINE a == 2 * x
               b == 2 * q + p
    <2>1. a \in Int /\ b \in Int /\ a = b * y + t
      BY <1>1, <1>2, <1>4
    <2> HIDE DEF a, b
    <2>2. a % y = t
      BY <1>2, <2>1, DivModIs
    <2> QED BY <2>2 DEF a
  <1> QED BY <1>3, <1>5 DEF r

\* A quotient can be divided again.
LEMMA DivTwice ==
  ASSUME NEW x \in Int, NEW y \in Nat \ {0}, NEW z \in Nat \ {0}
  PROVE  (x \div y) \div z = x \div (y * z)
  <1> DEFINE q == x \div y
             r == x % y
             p == q \div z
             t == q % z
             u == t * y + r
  <1>1. x = q * y + r /\ r \in 0..(y - 1) /\ q \in Int
    BY DivMod
  <1> HIDE DEF q, r
  <1>2. q = p * z + t /\ t \in 0..(z - 1) /\ p \in Int
    BY <1>1, DivMod
  <1> HIDE DEF p, t
  <1>3. u \in 0..(y * z - 1) /\ y * z \in Nat \ {0}
    <2>1. t <= z - 1 /\ t * y <= (z - 1) * y /\ (z - 1) * y = y * z - y /\ t * y >= 0
      BY <1>2
    <2> DEFINE a == t * y
               b == y * z
    <2>2. a \in Int /\ b \in Int /\ b >= 1
      BY <1>2
    <2>3. a <= b - y /\ a >= 0 /\ u = a + r
      BY <2>1
    <2> HIDE DEF a, b, u
    <2>4. u \in 0..(b - 1)
      BY <1>1, <2>2, <2>3
    <2> QED BY <2>2, <2>4 DEF b
  <1>4. x = p * (y * z) + u
    <2>1. (p * z + t) * y = p * (y * z) + t * y
      BY <1>2
    <2> QED BY <1>1, <1>2, <2>1
  <1>5. x \div (y * z) = p
    <2> DEFINE b == y * z
    <2>1. b \in Nat \ {0} /\ u \in 0..(b - 1) /\ x = p * b + u
      BY <1>3, <1>4
    <2> HIDE DEF b, u
    <2>2. x \div b = p
      BY <1>2, <2>1, DivModIs
    <2> QED BY <2>2 DEF b
  <1> QED BY <1>5 DEF p, q

\* A quotient can be halved.
LEMMA DivHalf ==
  ASSUME NEW x \in Int, NEW y \in Nat \ {0}
  PROVE  (x \div y) \div 2 = x \div (y * 2)
  <1> DEFINE z == 2
  <1>1. z \in Nat \ {0}
    OBVIOUS
  <1> HIDE DEF z
  <1>2. (x \div y) \div z = x \div (y * z)
    BY <1>1, DivTwice
  <1> QED BY <1>2 DEF z

-----------------------------------------------------------------------------
\* Shifts to the left multiply.
LEMMA LeftMultiplies ==
  ASSUME NEW f \in Ccr, NEW kind \in {"AS", "LS"}, NEW val \in Value, NEW count \in Nat, NEW left \in BOOLEAN
  PROVE  left => \A n \in 0..count : ShiftRun(f, kind, left, val, count)[n].v = (val * Pow2[n]) % M
  <1> DEFINE run == ShiftRun(f, kind, left, val, count)
             T == {n \in Nat : n <= count => run[n].v = (val * Pow2[n]) % M}
  <1>1. run[0] = ShiftStart(f, val) /\ \A n \in 1..count : run[n] = ShiftOne(kind, left, run[n - 1])
    BY ShiftRuns
  <1>2. \A n \in 0..count : run[n] \in ShiftState
    BY ShiftRunTyped DEF Kinds
  <1> HIDE DEF run
  <1>a. ASSUME NEW n \in Nat, n + 1 <= count PROVE left => run[n + 1].v = (2 * run[n].v) % M
    <2>1. n + 1 \in 1..count /\ (n + 1) - 1 = n /\ run[n] \in ShiftState
      BY <1>2, <1>a
    <2>2. run[n + 1] = ShiftOne(kind, left, run[n])
      BY <1>1, <2>1
    <2>3. kind \in Kinds
      BY DEF Kinds
    <2> QED BY <2>1, <2>2, <2>3, ShiftOneIs
  <1>b. SUFFICES ASSUME left PROVE \A n \in 0..count : run[n].v = (val * Pow2[n]) % M
    BY Zenon DEF run
  <1>3. M \in Nat \ {0} /\ val \in 0..(M - 1)
    BY Widths DEF Value
  <1>4. 0 \in T
    <2>1. run[0].v = val /\ Pow2[0] = 1
      BY <1>1, Powers DEF ShiftStart
    <2>2. val % M = val
      <3>1. val = 0 * M + val
        BY <1>3
      <3> QED BY <1>3, <3>1, DivModIs
    <2> QED BY <1>3, <2>1, <2>2
  <1>5. ASSUME NEW n \in Nat, n \in T PROVE n + 1 \in T
    <2>1. SUFFICES ASSUME n + 1 <= count PROVE run[n + 1].v = (val * Pow2[n + 1]) % M
      OBVIOUS
    <2>2. n + 1 \in 1..count /\ (n + 1) - 1 = n /\ run[n] \in ShiftState /\ run[n].v = (val * Pow2[n]) % M
      BY <1>2, <1>5, <2>1
    <2>3. run[n + 1].v = (2 * run[n].v) % M
      BY <1>a, <1>b, <2>1
    <2> DEFINE P == Pow2[n]
               x == val * P
    <2>4. P \in Nat /\ x \in Int /\ Pow2[n + 1] = 2 * P
      BY <1>3, Powers
    <2>5. val * (2 * P) = 2 * x
      <3> HIDE DEF P
      <3> QED BY <1>3, <2>4
    <2> HIDE DEF P, x
    <2>6. (2 * (x % M)) % M = (2 * x) % M
      BY <1>3, <2>4, DoubleOfRest
    <2> QED BY <2>2, <2>3, <2>4, <2>5, <2>6 DEF P, x
  <1>6. Nat \subseteq T
    <2> HIDE DEF T
    <2> QED BY <1>4, <1>5, Induct
  <1> QED BY <1>6

\* A doubled value has the doubled sign unless its top bit changes.
LEMMA DoubleSigned ==
  ASSUME NEW v \in Value
  PROVE  LET w == (2 * v) % M IN
         /\ Negative(w) = Negative(v) => Signed(w) = 2 * Signed(v)
         /\ Negative(w) # Negative(v) => 2 * Signed(v) \notin (-Half)..(Half - 1)
  <1> DEFINE w == (2 * v) % M
  <1>1. Half \in Nat /\ Half >= 2 /\ M = 2 * Half /\ v \in 0..(M - 1)
    BY Widths DEF Value
  <1>2. w = IF v < Half THEN 2 * v ELSE 2 * v - M
    <2> DEFINE a == 2 * v
               q == IF v < Half THEN 0 ELSE 1
               r == IF v < Half THEN 2 * v ELSE 2 * v - M
    <2>1. a \in Int /\ r \in 0..(M - 1) /\ a = q * M + r /\ q \in Int /\ M \in Nat \ {0}
      BY <1>1
    <2> HIDE DEF a, q, r
    <2>2. a % M = r
      BY <2>1, DivModIs
    <2> QED BY <2>2 DEF a, r
  <1> HIDE DEF w
  <1>3. (Negative(w) <=> w >= Half) /\ (Negative(v) <=> v >= Half)
    BY DEF Negative
  <1>4. Signed(v) = (IF v >= Half THEN v - M ELSE v) /\ Signed(w) = (IF w >= Half THEN w - M ELSE w)
    BY DEF Signed, Negative
  <1>5. Negative(w) \in BOOLEAN /\ Negative(v) \in BOOLEAN
    BY DEF Negative
  <1> DEFINE a == Negative(w)
             b == Negative(v)
  <1>6. (a <=> w >= Half) /\ (b <=> v >= Half) /\ a \in BOOLEAN /\ b \in BOOLEAN
    BY <1>3, <1>5
  <1> HIDE DEF a, b
  <1>7. a = b => Signed(w) = 2 * Signed(v)
    BY <1>1, <1>2, <1>4, <1>6
  <1>8. a # b => 2 * Signed(v) \notin (-Half)..(Half - 1)
    BY <1>1, <1>2, <1>4, <1>6
  <1> QED BY <1>7, <1>8 DEF a, b, w

\* An arithmetic shift to the left overflows if the product does.
LEMMA LeftOverflows ==
  ASSUME NEW f \in Ccr, NEW val \in Value, NEW count \in Nat, NEW left \in BOOLEAN
  PROVE  left => ShiftRun(f, "AS", left, val, count)[count].o
           = (Signed(val) * Pow2[count] \notin (-Half)..(Half - 1))
  <1> DEFINE run == ShiftRun(f, "AS", left, val, count)
             S == Signed(val)
             Fits(n) == S * Pow2[n] \in (-Half)..(Half - 1)
             T == {n \in Nat : n <= count => /\ run[n].o = ~Fits(n)
                                             /\ Fits(n) => Signed(run[n].v) = S * Pow2[n]}
  <1>1. run[0] = ShiftStart(f, val) /\ \A n \in 1..count : run[n] = ShiftOne("AS", left, run[n - 1])
    BY ShiftRuns
  <1>2. \A n \in 0..count : run[n] \in ShiftState
    BY ShiftRunTyped DEF Kinds
  <1> HIDE DEF run
  <1>a. ASSUME NEW n \in Nat, n + 1 <= count
        PROVE  left => /\ run[n + 1].v = (2 * run[n].v) % M
                       /\ run[n + 1].o = (run[n].o \/ Negative(run[n + 1].v) # Negative(run[n].v))
    <2>1. n + 1 \in 1..count /\ (n + 1) - 1 = n /\ run[n] \in ShiftState
      BY <1>2, <1>a
    <2>2. run[n + 1] = ShiftOne("AS", left, run[n])
      BY <1>1, <2>1
    <2>3. "AS" \in Kinds
      BY DEF Kinds
    <2> HIDE DEF S
    <2>4. LET t == ShiftOne("AS", left, run[n]) IN
          left => t.v = (2 * run[n].v) % M /\ t.o = (run[n].o \/ Negative(t.v) # Negative(run[n].v))
      BY <2>1, <2>3, ShiftOneIs
    <2> QED BY <2>2, <2>4, Zenon
  <1>b. SUFFICES ASSUME left PROVE run[count].o = (S * Pow2[count] \notin (-Half)..(Half - 1))
    BY Zenon DEF run
  <1>3. Half \in Nat /\ Half >= 2 /\ M = 2 * Half /\ val \in 0..(M - 1) /\ S \in (-Half)..(Half - 1)
    BY Widths DEF Value, Signed, Negative
  <1>4. 0 \in T
    <2>1. run[0].v = val /\ run[0].o = FALSE /\ Pow2[0] = 1
      BY <1>1, Powers DEF ShiftStart
    <2> HIDE DEF S
    <2>2. S * Pow2[0] = S
      BY <1>3, <2>1
    <2> QED BY <1>3, <2>1, <2>2 DEF S
  <1>5. ASSUME NEW n \in Nat, n \in T PROVE n + 1 \in T
    <2>1. SUFFICES ASSUME n + 1 <= count
                   PROVE  run[n + 1].o = ~Fits(n + 1) /\ (Fits(n + 1) => Signed(run[n + 1].v) = S * Pow2[n + 1])
      OBVIOUS
    <2> DEFINE P == Pow2[n]
               x == S * P
               v == run[n].v
               w == run[n + 1].v
               o == run[n].o
    <2>2. n + 1 \in 1..count /\ (n + 1) - 1 = n /\ run[n] \in ShiftState
          /\ o = ~Fits(n) /\ (Fits(n) => Signed(v) = x)
      BY <1>2, <1>5, <2>1
    <2>3. w = (2 * v) % M /\ run[n + 1].o = (o \/ Negative(w) # Negative(v))
      BY <1>a, <1>b, <2>1
    <2>4. P \in Nat /\ x \in Int /\ Pow2[n + 1] = 2 * P
      <3>1. P \in Nat /\ Pow2[n + 1] = 2 * P
        BY Powers
      <3> HIDE DEF P, S
      <3> QED BY <1>3, <3>1
    <2>5. S * Pow2[n + 1] = 2 * x
      <3> HIDE DEF P, S
      <3> QED BY <1>3, <2>4
    <2>6. v \in Value
      BY <2>2 DEF ShiftState
    <2> DEFINE differ == Negative(w) # Negative(v)
    <2>7. differ \in BOOLEAN /\ (~differ => Signed(w) = 2 * Signed(v))
          /\ (differ => 2 * Signed(v) \notin (-Half)..(Half - 1))
      BY <2>3, <2>6, DoubleSigned
    <2>8. Fits(n) = (x \in (-Half)..(Half - 1)) /\ Fits(n + 1) = (2 * x \in (-Half)..(Half - 1))
      BY <2>5
    <2> DEFINE fits == Fits(n)
               next == Fits(n + 1)
               sv == Signed(v)
               sw == Signed(w)
    <2>9. run[n + 1].o = (o \/ differ)
      BY <2>3
    <2>10. (fits <=> x \in (-Half)..(Half - 1)) /\ (next <=> 2 * x \in (-Half)..(Half - 1))
           /\ fits \in BOOLEAN /\ next \in BOOLEAN /\ o = ~fits /\ (fits => sv = x)
           /\ (~differ => sw = 2 * sv) /\ (differ => 2 * sv \notin (-Half)..(Half - 1))
           /\ sw \in (-Half)..(Half - 1)
      <3>1. w \in 0..(M - 1)
        BY <1>2, <2>2 DEF ShiftState, Value
      <3> HIDE DEF w
      <3>2. Signed(w) \in (-Half)..(Half - 1)
        BY <1>3, <3>1 DEF Signed, Negative
      <3> QED BY <2>2, <2>7, <2>8, <3>2
    <2> HIDE DEF fits, next, sv, sw, differ, x, o, P
    <2>11. (o \/ differ) = ~next
      <3>1. next => fits
        BY <1>3, <2>4, <2>10
      <3>2. (fits /\ ~differ) => next
        BY <1>3, <2>7, <2>10
      <3>3. (fits /\ differ) => ~next
        BY <2>10
      <3> HIDE DEF Fits
      <3> QED BY <2>7, <2>10, <3>1, <3>2, <3>3
    <2>12. next => sw = 2 * x
      BY <1>3, <2>4, <2>7, <2>10
    <2> QED BY <2>5, <2>9, <2>11, <2>12 DEF next, sw
  <1>6. Nat \subseteq T
    <2> HIDE DEF T
    <2> QED BY <1>4, <1>5, Induct
  <1>7. count \in T
    BY <1>6
  <1>8. run[count].o = ~Fits(count)
    BY <1>7
  <1> QED BY <1>8

\* A logical shift to the right divides.
LEMMA RightDivides ==
  ASSUME NEW f \in Ccr, NEW val \in Value, NEW count \in Nat, NEW left \in BOOLEAN, ~left
  PROVE  \A n \in 0..count : ShiftRun(f, "LS", left, val, count)[n].v = val \div Pow2[n]
  <1> DEFINE run == ShiftRun(f, "LS", left, val, count)
             T == {n \in Nat : n <= count => run[n].v = val \div Pow2[n]}
  <1>1. run[0] = ShiftStart(f, val) /\ \A n \in 1..count : run[n] = ShiftOne("LS", left, run[n - 1])
    BY ShiftRuns
  <1>2. \A n \in 0..count : run[n] \in ShiftState
    BY ShiftRunTyped DEF Kinds
  <1> HIDE DEF run
  <1>3. val \in Int
    BY Widths DEF Value
  <1>4. 0 \in T
    <2>1. run[0].v = val /\ Pow2[0] = 1
      BY <1>1, Powers DEF ShiftStart
    <2> QED BY <1>3, <2>1
  <1>5. ASSUME NEW n \in Nat, n \in T PROVE n + 1 \in T
    <2>1. SUFFICES ASSUME n + 1 <= count PROVE run[n + 1].v = val \div Pow2[n + 1]
      OBVIOUS
    <2>2. n + 1 \in 1..count /\ (n + 1) - 1 = n /\ run[n] \in ShiftState /\ run[n].v = val \div Pow2[n]
      BY <1>2, <1>5, <2>1
    <2>3. run[n + 1].v = run[n].v \div 2
      <3>1. run[n + 1] = ShiftOne("LS", left, run[n])
        BY <1>1, <2>2
      <3>2. "LS" \in Kinds
        BY DEF Kinds
      <3> QED BY <2>2, <3>1, <3>2, ShiftOneIs
    <2> DEFINE P == Pow2[n]
    <2>4. P \in Nat \ {0} /\ Pow2[n + 1] = P * 2
      <3>1. P \in Nat \ {0} /\ Pow2[n + 1] = 2 * P
        BY Powers
      <3> HIDE DEF P
      <3> QED BY <3>1
    <2> HIDE DEF P
    <2>5. (val \div P) \div 2 = val \div (P * 2)
      BY <1>3, <2>4, DivHalf
    <2> QED BY <2>2, <2>3, <2>4, <2>5 DEF P
  <1>6. Nat \subseteq T
    <2> HIDE DEF T
    <2> QED BY <1>4, <1>5, Induct
  <1> QED BY <1>6 DEF run

\* Half of a value, with its top bit kept, is half of its signed number.
LEMMA HalfSigned ==
  ASSUME NEW v \in Value
  PROVE  LET w == v \div 2 + Half * Bit(Negative(v)) IN w \in Value /\ Signed(w) = Signed(v) \div 2
  <1> DEFINE w == v \div 2 + Half * Bit(Negative(v))
  <1>1. Half \in Nat /\ Half >= 2 /\ M = 2 * Half /\ v \in 0..(M - 1)
    BY Widths DEF Value
  <1>2. w = IF v >= Half THEN v \div 2 + Half ELSE v \div 2
    <2> DEFINE a == Bit(Negative(v))
    <2>1. a = IF v >= Half THEN 1 ELSE 0
      BY DEF Bit, Negative
    <2>2. w = v \div 2 + Half * a
      OBVIOUS
    <2> HIDE DEF a, w
    <2> QED BY <1>1, <2>1, <2>2
  <1> HIDE DEF w
  <1>3. Signed(v) = (IF v >= Half THEN v - M ELSE v) /\ Signed(w) = (IF w >= Half THEN w - M ELSE w)
    BY DEF Signed, Negative
  <1>4. v \div 2 \in 0..(Half - 1)
    BY <1>1
  <1>5. (v - M) \div 2 = v \div 2 - Half
    BY <1>1
  <1>6. w \in 0..(M - 1) /\ Signed(w) = Signed(v) \div 2
    BY <1>1, <1>2, <1>3, <1>4, <1>5
  <1> QED BY <1>6 DEF w, Value

\* An arithmetic shift to the right divides the signed number.
LEMMA RightKeepsSign ==
  ASSUME NEW f \in Ccr, NEW val \in Value, NEW count \in Nat, NEW left \in BOOLEAN, ~left
  PROVE  \A n \in 0..count : Signed(ShiftRun(f, "AS", left, val, count)[n].v) = Signed(val) \div Pow2[n]
  <1> DEFINE run == ShiftRun(f, "AS", left, val, count)
             S == Signed(val)
             T == {n \in Nat : n <= count => Signed(run[n].v) = S \div Pow2[n]}
  <1>1. run[0] = ShiftStart(f, val) /\ \A n \in 1..count : run[n] = ShiftOne("AS", left, run[n - 1])
    BY ShiftRuns
  <1>2. \A n \in 0..count : run[n] \in ShiftState
    BY ShiftRunTyped DEF Kinds
  <1> HIDE DEF run
  <1>3. S \in Int
    BY Widths DEF Value, Signed
  <1>4. 0 \in T
    <2>1. run[0].v = val /\ Pow2[0] = 1
      BY <1>1, Powers DEF ShiftStart
    <2>2. Signed(run[0].v) = S
      BY <2>1
    <2> HIDE DEF S
    <2> QED BY <1>3, <2>1, <2>2
  <1>5. ASSUME NEW n \in Nat, n \in T PROVE n + 1 \in T
    <2>1. SUFFICES ASSUME n + 1 <= count PROVE Signed(run[n + 1].v) = S \div Pow2[n + 1]
      OBVIOUS
    <2> DEFINE v == run[n].v
    <2>2. n + 1 \in 1..count /\ (n + 1) - 1 = n /\ run[n] \in ShiftState /\ Signed(v) = S \div Pow2[n]
      BY <1>2, <1>5, <2>1
    <2>3. run[n + 1].v = v \div 2 + Half * Bit(Negative(v))
      <3>1. run[n + 1] = ShiftOne("AS", left, run[n])
        BY <1>1, <2>2
      <3>2. "AS" \in Kinds
        BY DEF Kinds
      <3> HIDE DEF S
      <3> QED BY <2>2, <3>1, <3>2, ShiftOneIs
    <2>4. v \in Value
      BY <2>2 DEF ShiftState
    <2>5. Signed(run[n + 1].v) = Signed(v) \div 2
      <3> HIDE DEF v
      <3> QED BY <2>3, <2>4, HalfSigned
    <2> DEFINE P == Pow2[n]
    <2>6. P \in Nat \ {0} /\ Pow2[n + 1] = P * 2
      <3>1. P \in Nat \ {0} /\ Pow2[n + 1] = 2 * P
        BY Powers
      <3> HIDE DEF P
      <3> QED BY <3>1
    <2> HIDE DEF P, S
    <2>7. (S \div P) \div 2 = S \div (P * 2)
      BY <1>3, <2>6, DivHalf
    <2> QED BY <2>2, <2>5, <2>6, <2>7 DEF P
  <1>6. Nat \subseteq T
    <2> HIDE DEF T
    <2> QED BY <1>4, <1>5, Induct
  <1> QED BY <1>6 DEF run, S

-----------------------------------------------------------------------------
\* A value of b bits turned to the left by n of them.
Turned(v, n, b) == LET moved == v * Pow2[n] IN (moved % Pow2[b]) + (moved \div Pow2[b])

\* A rotation by any count turns by the rest of it.
LEMMA RotatedIsTurned ==
  ASSUME NEW v, NEW b \in Nat \ {0}, NEW n \in Nat
  PROVE  Rotated(v, n, b) = Turned(v, n % b, b)
  BY DEF Rotated, Turned

\* Turning by no bit changes nothing, and so does turning by all of them.
LEMMA TurnedNone ==
  ASSUME NEW b \in Nat, NEW v \in 0..(Pow2[b] - 1)
  PROVE  Turned(v, 0, b) = v /\ Turned(v, b, b) = v
  <1> DEFINE B == Pow2[b]
  <1>1. B \in Nat \ {0} /\ v \in 0..(B - 1) /\ Pow2[0] = 1
    BY Powers
  <1> HIDE DEF B
  <1>2. v % B = v /\ v \div B = 0
    <2>1. v = 0 * B + v
      BY <1>1
    <2> QED BY <1>1, <2>1, DivModIs
  <1>3. (v * B) % B = 0 /\ (v * B) \div B = v
    <2> DEFINE a == v * B
    <2>1. a \in Int /\ a = v * B + 0 /\ 0 \in 0..(B - 1)
      BY <1>1
    <2> HIDE DEF a
    <2>2. a \div B = v /\ a % B = 0
      BY <1>1, <2>1, DivModIs
    <2> QED BY <2>2 DEF a
  <1>4. v * 1 = v
    BY <1>1
  <1>5. Turned(v, 0, b) = ((v * 1) % B) + ((v * 1) \div B) /\ Turned(v, b, b) = ((v * B) % B) + ((v * B) \div B)
    BY <1>1 DEF Turned, B
  <1> QED BY <1>1, <1>2, <1>3, <1>4, <1>5

\* A number v below B, of which a part P * Q is the half, turned by the power P.
TurnSizes(v, P, D, Q, H, B) == D = 2 * P /\ H = P * Q /\ B = 2 * H /\ v \in 0..(B - 1)
TurnsTo(R, N, H, B) == R \in 0..(B - 1) /\ N = IF R >= H THEN 2 * R + 1 - B ELSE 2 * R
TurnedBy(v, P, B) == ((v * P) % B) + ((v * P) \div B)

\* The arithmetic of one bit: turned by 2 * P instead of P.
LEMMA TurnOne ==
  ASSUME NEW P \in Nat \ {0}, NEW Q \in Nat \ {0}, NEW H, NEW B, NEW D, NEW v, TurnSizes(v, P, D, Q, H, B)
  PROVE  TurnsTo(TurnedBy(v, P, B), TurnedBy(v, D, B), H, B)
  <1> DEFINE x == v * P
             q == x \div B
             r == x % B
             k == v - 2 * (q * Q)
             h == P * k
  <1>0. H = P * Q /\ B = 2 * H /\ v \in 0..(B - 1)
    BY DEF TurnSizes
  <1> USE <1>0
  <1>1. H \in Nat \ {0} /\ B \in Nat \ {0} /\ v \in 0..(B - 1) /\ H = P * Q /\ B = 2 * H
    <2>1. P * Q \in Nat \ {0}
      OBVIOUS
    <2> QED BY <1>0, <2>1
  <1>2. x \in Int /\ x >= 0 /\ x < B * P /\ B * P \in Int
    BY <1>1
  <1> HIDE DEF x
  <1>3. x = q * B + r /\ r \in 0..(B - 1) /\ q \in Int
    BY <1>1, <1>2, DivMod
  <1> HIDE DEF q, r
  <1>4. q >= 0
    <2> SUFFICES ASSUME q <= -1 PROVE FALSE
      BY <1>3
    <2>1. q * B <= (-1) * B
      BY <1>1, <1>3
    <2> DEFINE a == q * B
    <2>2. a \in Int /\ a <= -B /\ x = a + r
      BY <1>1, <1>3, <2>1
    <2> HIDE DEF a
    <2> QED BY <1>1, <1>2, <1>3, <2>2
  <1>5. q <= P - 1
    <2> SUFFICES ASSUME q >= P PROVE FALSE
      BY <1>3
    <2>1. q * B >= B * P
      BY <1>1, <1>3
    <2> DEFINE a == q * B
               b == B * P
    <2>2. a \in Int /\ b \in Int /\ a >= b /\ x = a + r /\ x < b
      BY <1>1, <1>2, <1>3, <2>1
    <2> HIDE DEF a, b
    <2> QED BY <1>3, <2>2
  <1>6. k \in Int /\ r = h /\ h \in Int
    <2>1. q * B = P * (2 * (q * Q))
      BY <1>3
    <2>2. P * (v - 2 * (q * Q)) = P * v - P * (2 * (q * Q))
      BY <1>1, <1>3
    <2>3. P * v = x
      BY <1>1 DEF x
    <2>4. k \in Int
      BY <1>1, <1>3
    <2> HIDE DEF k
    <2>5. h \in Int
      BY <2>4
    <2>6. h = x - q * B
      BY <1>1, <1>2, <1>3, <2>1, <2>2, <2>3 DEF k
    <2> HIDE DEF h
    <2> QED BY <1>1, <1>2, <1>3, <2>4, <2>5, <2>6
  <1> HIDE DEF k
  <1>7. k < Q => h <= H - P
    <2> SUFFICES ASSUME k <= Q - 1 PROVE h <= H - P
      BY <1>6
    <2>1. P * k <= P * (Q - 1) /\ P * (Q - 1) = P * Q - P
      BY <1>6
    <2> QED BY <2>1
  <1>8. k >= Q => h >= H
    BY <1>6
  <1>9. h <= B - P
    <2>1. k <= 2 * Q - 1
      <3> SUFFICES ASSUME k >= 2 * Q PROVE FALSE
        BY <1>6
      <3>1. P * k >= P * (2 * Q) /\ P * (2 * Q) = 2 * (P * Q)
        BY <1>6
      <3> QED BY <1>3, <1>6, <3>1
    <2>2. P * k <= P * (2 * Q - 1) /\ P * (2 * Q - 1) = 2 * (P * Q) - P
      BY <1>6, <2>1
    <2> QED BY <2>2
  <1> HIDE DEF h
  <1> DEFINE R == r + q
  <1>10. R \in 0..(B - 1) /\ (R >= H <=> r >= H) /\ R \in Int
    <2>1. k < Q \/ k >= Q
      BY <1>6
    <2>2. r = h /\ r \in 0..(B - 1) /\ q \in 0..(P - 1)
      BY <1>3, <1>4, <1>5, <1>6
    <2> QED BY <1>1, <1>6, <1>7, <1>8, <1>9, <2>1, <2>2
  <1> DEFINE y == v * (2 * P)
             t == IF r >= H THEN 1 ELSE 0
             p == 2 * q + t
             s == 2 * r - t * B
  <1>11. y = 2 * x
    BY <1>1 DEF x
  <1>12. y = p * B + s /\ s \in 0..(B - 1) /\ p \in Int
    <2>1. p * B = 2 * (q * B) + t * B /\ p \in Int
      BY <1>1, <1>3
    <2>2. t * B = IF r >= H THEN B ELSE 0
      BY <1>1
    <2> DEFINE a == q * B
               b == t * B
               c == p * B
    <2>3. a \in Int /\ b \in Int /\ c = 2 * a + b /\ x = a + r /\ s = 2 * r - b /\ b = IF r >= H THEN B ELSE 0
      BY <1>1, <1>3, <2>1, <2>2
    <2> HIDE DEF a, b, c, y, s
    <2>4. y = c + s /\ s \in 0..(B - 1)
      BY <1>1, <1>3, <1>11, <2>3
    <2> QED BY <2>1, <2>4 DEF c
  <1>13. y \div B = p /\ y % B = s
    <2> HIDE DEF y, p, s
    <2>1. y \in Int
      BY <1>2, <1>11
    <2> QED BY <1>1, <1>12, <2>1, DivModIs
  <1>14. s + p = IF R >= H THEN 2 * R + 1 - B ELSE 2 * R
    <2>1. s + p = IF r >= H THEN 2 * r - B + 2 * q + 1 ELSE 2 * r + 2 * q
      BY <1>1, <1>3
    <2> HIDE DEF s, p
    <2> QED BY <1>1, <1>3, <1>10, <2>1
  <1> DEFINE N == (y % B) + (y \div B)
  <1>15. R \in 0..(B - 1) /\ N = IF R >= H THEN 2 * R + 1 - B ELSE 2 * R
    BY <1>10, <1>13, <1>14
  <1>16. D = 2 * P
    BY DEF TurnSizes
  <1> QED BY <1>15, <1>16 DEF R, N, q, r, x, y, TurnedBy, TurnsTo

\* Turning by one bit more brings the top bit to the bottom.
LEMMA TurnedStep ==
  ASSUME NEW b \in Nat \ {0}, NEW n \in 0..(b - 1), NEW v \in 0..(Pow2[b] - 1)
  PROVE  LET R == Turned(v, n, b) IN
         /\ R \in 0..(Pow2[b] - 1)
         /\ Turned(v, n + 1, b) = IF R >= Pow2[b - 1] THEN 2 * R + 1 - Pow2[b] ELSE 2 * R
  <1> DEFINE P == Pow2[n]
             Q == Pow2[b - 1 - n]
             H == Pow2[b - 1]
             B == Pow2[b]
  <1>1. n \in Nat /\ b - 1 - n \in Nat /\ b - 1 \in Nat /\ n + (b - 1 - n) = b - 1 /\ (b - 1) + 1 = b
    OBVIOUS
  <1>2. P \in Nat \ {0} /\ Q \in Nat \ {0} /\ Pow2[n + 1] = 2 * P /\ B = 2 * H
    BY <1>1, Powers
  <1>3. H = P * Q
    BY <1>1, PowerOfSum
  <1> HIDE DEF P, Q, H, B
  <1>4. v \in 0..(B - 1)
    BY DEF B
  <1> DEFINE R == TurnedBy(v, P, B)
             D == 2 * P
             N == TurnedBy(v, D, B)
  <1>5. R \in 0..(B - 1) /\ N = IF R >= H THEN 2 * R + 1 - B ELSE 2 * R
    <2> HIDE DEF D
    <2>1. TurnSizes(v, P, D, Q, H, B)
      BY <1>2, <1>3, <1>4 DEF TurnSizes, D
    <2>2. P \in Nat \ {0} /\ Q \in Nat \ {0}
      BY <1>2
    <2>3. TurnsTo(R, N, H, B)
      BY <2>1, <2>2, TurnOne
    <2> QED BY <2>3 DEF TurnsTo
  <1>6. Turned(v, n, b) = R /\ Turned(v, n + 1, b) = N
    BY <1>2 DEF Turned, TurnedBy, P, B
  <1> HIDE DEF R, N
  <1> QED BY <1>5, <1>6 DEF B, H

\* A turned value has no more bits.
LEMMA TurnedIn ==
  ASSUME NEW b \in Nat \ {0}, NEW n \in 0..b, NEW v \in 0..(Pow2[b] - 1)
  PROVE  Turned(v, n, b) \in 0..(Pow2[b] - 1)
  <1>1. CASE n = b
    BY <1>1, TurnedNone
  <1>2. CASE n # b
    <2>1. n \in 0..(b - 1)
      BY <1>2
    <2> QED BY <2>1, TurnedStep
  <1> QED BY <1>1, <1>2

\* Counting around.
LEMMA NextRest ==
  ASSUME NEW b \in Nat \ {0}, NEW n \in Nat
  PROVE  n % b \in 0..(b - 1) /\ (n + 1) % b = IF n % b = b - 1 THEN 0 ELSE (n % b) + 1
  <1> DEFINE q == n \div b
             r == n % b
             m == n + 1
             p == IF r = b - 1 THEN q + 1 ELSE q
             s == IF r = b - 1 THEN 0 ELSE r + 1
  <1>1. n = q * b + r /\ r \in 0..(b - 1) /\ q \in Int
    BY DivMod
  <1> HIDE DEF q, r
  <1>2. (q + 1) * b = q * b + b
    BY <1>1
  <1>3. m = p * b + s /\ s \in 0..(b - 1) /\ p \in Int /\ m \in Int
    <2> DEFINE a == q * b
    <2>1. a \in Int /\ n = a + r /\ p * b = IF r = b - 1 THEN a + b ELSE a
      BY <1>1, <1>2
    <2>2. p \in Int
      BY <1>1
    <2> HIDE DEF a, p
    <2> QED BY <1>1, <2>1, <2>2
  <1> HIDE DEF m, p, s
  <1>4. m % b = s
    BY <1>3, DivModIs
  <1> QED BY <1>1, <1>4 DEF m, s, r

\* One bit to the right undoes one bit to the left.
LEMMA RightUndoes ==
  ASSUME NEW H \in Nat \ {0}, NEW u \in 0..(2 * H - 1), NEW w \in Int,
         u >= H => w = 2 * u + 1 - 2 * H, u < H => w = 2 * u
  PROVE  w \div 2 + H * (w % 2) = u
  <1>1. CASE u >= H
    <2>1. w = 2 * (u - H) + 1 /\ w \in Int
      BY <1>1
    <2>2. w \div 2 = u - H /\ w % 2 = 1
      BY <2>1
    <2> QED BY <2>1, <2>2
  <1>2. CASE ~(u >= H)
    <2>1. w = 2 * u /\ w \in Int
      BY <1>2
    <2>2. w \div 2 = u /\ w % 2 = 0
      BY <2>1
    <2> QED BY <2>1, <2>2
  <1> QED BY <1>1, <1>2

\* The value a rotation turns, with X on top of it in a ROXL or ROXR, its bits
\* and the weight of the uppermost.
TurnedBits(kind) == IF kind = "RO" THEN W ELSE W + 1
TurnedTop(kind) == IF kind = "RO" THEN Half ELSE M
WithX(kind, v, x) == IF kind = "RO" THEN v ELSE v + M * Bit(x)

\* The bits that turn: those of the operand, and X above them for ROX.
LEMMA TurnedWidths ==
  ASSUME NEW kind \in {"RO", "ROX"}
  PROVE  LET b == TurnedBits(kind)  H == TurnedTop(kind) IN
         /\ b \in Nat \ {0} /\ H \in Nat \ {0} /\ Pow2[b] = 2 * H /\ Pow2[b - 1] = H
         /\ \A v \in Value, x \in BOOLEAN : WithX(kind, v, x) \in 0..(2 * H - 1)
  <1>1. W \in Nat \ {0} /\ Half \in Nat \ {0} /\ M = 2 * Half /\ Pow2[W - 1] = Half /\ Pow2[W] = M
    BY Widths
  <1>2. Pow2[W + 1] = 2 * M /\ (W + 1) - 1 = W
    BY <1>1, Powers
  <1>3. CASE kind = "RO"
    <2>1. TurnedBits(kind) = W /\ TurnedTop(kind) = Half /\ \A v, x : WithX(kind, v, x) = v
      BY <1>3 DEF TurnedBits, TurnedTop, WithX
    <2> QED BY <1>1, <2>1 DEF Value
  <1>4. CASE kind = "ROX"
    <2>1. TurnedBits(kind) = W + 1 /\ TurnedTop(kind) = M /\ \A v, x : WithX(kind, v, x) = v + M * Bit(x)
      BY <1>4 DEF TurnedBits, TurnedTop, WithX
    <2>2. ASSUME NEW v \in Value, NEW x \in BOOLEAN PROVE v + M * Bit(x) \in 0..(2 * M - 1)
      <3>1. Bit(x) \in {0, 1} /\ v \in 0..(M - 1)
        BY DEF Bit, Value
      <3> QED BY <1>1, <3>1
    <2> QED BY <1>1, <1>2, <2>1, <2>2
  <1> QED BY <1>3, <1>4

\* One bit of a rotation to the left.
LEMMA RotateOneLeft ==
  ASSUME NEW kind \in {"RO", "ROX"}, NEW s \in ShiftState, NEW left \in BOOLEAN, left
  PROVE  LET t == ShiftOne(kind, left, s)  H == TurnedTop(kind)  w == WithX(kind, s.v, s.x) IN
         WithX(kind, t.v, t.x) = IF w >= H THEN 2 * w + 1 - 2 * H ELSE 2 * w
  <1> DEFINE t == ShiftOne(kind, left, s)
             v == s.v
             x == s.x
             y == t.v
             z == t.x
             n == Bit(Negative(v))
  <1>1. Half \in Nat /\ Half >= 2 /\ M = 2 * Half /\ v \in 0..(M - 1) /\ x \in BOOLEAN /\ t \in ShiftState
    <2>1. kind \in Kinds
      BY DEF Kinds
    <2> HIDE DEF t
    <2>2. ShiftOne(kind, left, s) \in ShiftState
      BY <2>1, ShiftOneTyped
    <2> QED BY <2>2, Widths DEF ShiftState, Value, t
  <1>2. n = IF v >= Half THEN 1 ELSE 0
    BY DEF Bit, Negative
  <1>3. CASE kind = "RO"
    <2>1. y = (2 * v + n) % M
      <3>1. "RO" \in Kinds
        BY DEF Kinds
      <3> QED BY <1>3, <3>1, ShiftOneIs
    <2>2. WithX(kind, y, z) = y /\ WithX(kind, v, x) = v /\ TurnedTop(kind) = Half
      BY <1>3 DEF WithX, TurnedTop
    <2> HIDE DEF y, v, n, z, x
    <2> DEFINE a == 2 * v + n
               r == IF v >= Half THEN 2 * v + 1 - M ELSE 2 * v
    <2>3. a \in Int /\ r \in 0..(M - 1) /\ a = n * M + r /\ n \in Int /\ M \in Nat \ {0}
      BY <1>1, <1>2
    <2> HIDE DEF a, r
    <2>4. a % M = r
      BY <2>3, DivModIs
    <2>5. y = IF v >= Half THEN 2 * v + 1 - M ELSE 2 * v
      BY <2>1, <2>4 DEF a, r
    <2> QED BY <1>1, <2>2, <2>5 DEF y, v, x, z
  <1>4. CASE kind = "ROX"
    <2> DEFINE c == Bit(x)
    <2>1. y = (2 * v + c) % M /\ z = Negative(v)
      <3>1. "ROX" \in Kinds
        BY DEF Kinds
      <3> QED BY <1>4, <3>1, ShiftOneIs
    <2>2. WithX(kind, y, z) = y + M * n /\ WithX(kind, v, x) = v + M * c /\ TurnedTop(kind) = M
      BY <1>4, <2>1 DEF WithX, TurnedTop
    <2>3. c \in {0, 1}
      BY DEF Bit
    <2> HIDE DEF y, v, n, z, x, c
    <2> DEFINE a == 2 * v + c
               r == a - n * M
    <2>4. a \in Int /\ r \in 0..(M - 1) /\ a = n * M + r /\ n \in Int /\ M \in Nat \ {0}
      BY <1>1, <1>2, <2>3
    <2> HIDE DEF a, r
    <2>5. a % M = r
      BY <2>4, DivModIs
    <2> DEFINE w == v + M * c
    <2>6. y + M * n = 2 * v + c
      <3>1. y = r /\ M * n = n * M
        BY <1>1, <2>1, <2>4, <2>5 DEF a
      <3> QED BY <1>1, <2>3, <2>4, <3>1 DEF a
    <2>7. (w >= M <=> c = 1) /\ w = IF c = 1 THEN v + M ELSE v
      BY <1>1, <2>3
    <2>8. 2 * v + c = IF w >= M THEN 2 * w + 1 - 2 * M ELSE 2 * w
      <3> HIDE DEF w
      <3> QED BY <1>1, <2>3, <2>7
    <2> QED BY <2>2, <2>6, <2>8 DEF y, v, x, z
  <1> QED BY <1>3, <1>4

\* One bit of a rotation to the right.
LEMMA RotateOneRight ==
  ASSUME NEW kind \in {"RO", "ROX"}, NEW s \in ShiftState, NEW left \in BOOLEAN, ~left
  PROVE  LET t == ShiftOne(kind, left, s)  H == TurnedTop(kind)  w == WithX(kind, s.v, s.x) IN
         WithX(kind, t.v, t.x) = w \div 2 + H * (w % 2)
  <1> DEFINE t == ShiftOne(kind, left, s)
             v == s.v
             x == s.x
             y == t.v
             z == t.x
             n == Bit(v % 2 = 1)
  <1>1. Half \in Nat /\ Half >= 2 /\ M = 2 * Half /\ v \in 0..(M - 1) /\ x \in BOOLEAN
    BY Widths DEF ShiftState, Value
  <1>2. n = v % 2 /\ n \in {0, 1}
    BY <1>1 DEF Bit
  <1>3. CASE kind = "RO"
    <2>1. y = v \div 2 + Half * n
      <3>1. "RO" \in Kinds
        BY DEF Kinds
      <3> QED BY <1>3, <3>1, ShiftOneIs
    <2>2. WithX(kind, y, z) = y /\ WithX(kind, v, x) = v /\ TurnedTop(kind) = Half
      BY <1>3 DEF WithX, TurnedTop
    <2> HIDE DEF y, v, n, z, x
    <2>3. y = v \div 2 + Half * (v % 2)
      BY <1>2, <2>1
    <2> QED BY <2>2, <2>3 DEF y, v, x, z
  <1>4. CASE kind = "ROX"
    <2> DEFINE c == Bit(x)
    <2>1. y = v \div 2 + Half * c /\ z = (v % 2 = 1)
      <3>1. "ROX" \in Kinds
        BY DEF Kinds
      <3> QED BY <1>4, <3>1, ShiftOneIs
    <2>2. WithX(kind, y, z) = y + M * n /\ WithX(kind, v, x) = v + M * c /\ TurnedTop(kind) = M
      BY <1>4, <2>1 DEF WithX, TurnedTop
    <2>3. c \in {0, 1}
      BY DEF Bit
    <2> HIDE DEF y, v, n, z, x, c
    <2> DEFINE w == v + M * c
    <2>4. w \div 2 = v \div 2 + Half * c /\ w % 2 = v % 2 /\ w \in Int
      <3>1. CASE c = 0
        <4>1. w = v /\ Half * c = 0
          BY <1>1, <3>1
        <4> HIDE DEF w
        <4> QED BY <1>1, <4>1
      <3>2. CASE c = 1
        <4>1. w = v + 2 * Half /\ Half * c = Half
          BY <1>1, <3>2
        <4> HIDE DEF w
        <4> QED BY <1>1, <4>1
      <3> QED BY <2>3, <3>1, <3>2
    <2>5. y + M * n = w \div 2 + M * (w % 2)
      <3> HIDE DEF w
      <3> QED BY <1>2, <2>1, <2>4
    <2> QED BY <2>2, <2>5 DEF y, v, x, z
  <1> QED BY <1>3, <1>4

\* A rotation to the left turns by its count.
LEMMA RotatesLeft ==
  ASSUME NEW f \in Ccr, NEW kind \in {"RO", "ROX"}, NEW val \in Value, NEW count \in Nat, NEW left \in BOOLEAN
  PROVE  left => LET s == ShiftRun(f, kind, left, val, count)[count]  b == TurnedBits(kind) IN
         WithX(kind, s.v, s.x) = Turned(WithX(kind, val, f.x), count % b, b)
  <1> DEFINE run == ShiftRun(f, kind, left, val, count)
             b == TurnedBits(kind)
             H == TurnedTop(kind)
             start == WithX(kind, val, f.x)
             Wide(n) == WithX(kind, run[n].v, run[n].x)
             T == {n \in Nat : n <= count => Wide(n) = Turned(start, n % b, b)}
  <1>1. run[0] = ShiftStart(f, val) /\ \A n \in 1..count : run[n] = ShiftOne(kind, left, run[n - 1])
    BY ShiftRuns
  <1>2. \A n \in 0..count : run[n] \in ShiftState
    BY ShiftRunTyped DEF Kinds
  <1>3. b \in Nat \ {0} /\ H \in Nat \ {0} /\ Pow2[b] = 2 * H /\ Pow2[b - 1] = H /\ start \in 0..(Pow2[b] - 1)
    <2>1. f.x \in BOOLEAN
      BY DEF Ccr
    <2> QED BY <2>1, TurnedWidths
  <1>4. ASSUME NEW n \in Nat, n + 1 <= count
        PROVE  left => LET w == Wide(n) IN Wide(n + 1) = IF w >= H THEN 2 * w + 1 - 2 * H ELSE 2 * w
    <2>1. n + 1 \in 1..count /\ (n + 1) - 1 = n /\ run[n] \in ShiftState
      BY <1>2, <1>4
    <2>2. run[n + 1] = ShiftOne(kind, left, run[n])
      BY <1>1, <2>1
    <2> HIDE DEF run, H
    <2> QED BY <2>1, <2>2, RotateOneLeft DEF H
  <1>5. run[0].v = val /\ run[0].x = f.x
    BY <1>1 DEF ShiftStart
  <1> HIDE DEF run, b, H, start
  <1>b. SUFFICES ASSUME left PROVE Wide(count) = Turned(start, count % b, b)
    BY DEF run, b, start
  <1>6. 0 \in T
    <2>1. 0 % b = 0 /\ Wide(0) = start
      BY <1>3, <1>5 DEF start
    <2>2. Turned(start, 0, b) = start
      BY <1>3, TurnedNone
    <2> QED BY <2>1, <2>2
  <1>7. ASSUME NEW n \in Nat, n \in T PROVE n + 1 \in T
    <2>1. SUFFICES ASSUME n + 1 <= count PROVE Wide(n + 1) = Turned(start, (n + 1) % b, b)
      OBVIOUS
    <2> DEFINE r == n % b
               w == Wide(n)
    <2>2. w = Turned(start, r, b)
      BY <1>7, <2>1
    <2>3. r \in 0..(b - 1) /\ (n + 1) % b = IF r = b - 1 THEN 0 ELSE r + 1
      BY <1>3, NextRest
    <2>4. Wide(n + 1) = IF w >= H THEN 2 * w + 1 - 2 * H ELSE 2 * w
      BY <1>b, <1>4, <2>1
    <2> HIDE DEF w, r, Wide
    <2>5. Turned(start, r + 1, b) = IF w >= H THEN 2 * w + 1 - 2 * H ELSE 2 * w
      <3>1. LET R == Turned(start, r, b) IN
            Turned(start, r + 1, b) = IF R >= Pow2[b - 1] THEN 2 * R + 1 - Pow2[b] ELSE 2 * R
        BY <1>3, <2>3, TurnedStep
      <3> QED BY <1>3, <2>2, <3>1
    <2>6. Turned(start, 0, b) = Turned(start, b, b)
      BY <1>3, TurnedNone
    <2>7. CASE r = b - 1
      <3>1. r + 1 = b /\ (n + 1) % b = 0
        BY <1>3, <2>3, <2>7
      <3> QED BY <2>4, <2>5, <2>6, <3>1
    <2>8. CASE r # b - 1
      BY <2>3, <2>4, <2>5, <2>8
    <2> QED BY <2>7, <2>8
  <1>8. Nat \subseteq T
    <2> HIDE DEF T
    <2> QED BY <1>6, <1>7, Induct
  <1> QED BY <1>8

\* A rotation to the right turns by what is left of the whole turn.
LEMMA RotatesRight ==
  ASSUME NEW f \in Ccr, NEW kind \in {"RO", "ROX"}, NEW val \in Value, NEW count \in Nat, NEW left \in BOOLEAN, ~left
  PROVE  LET s == ShiftRun(f, kind, left, val, count)[count]  b == TurnedBits(kind) IN
         WithX(kind, s.v, s.x) = Turned(WithX(kind, val, f.x), b - (count % b), b)
  <1> DEFINE run == ShiftRun(f, kind, left, val, count)
             b == TurnedBits(kind)
             H == TurnedTop(kind)
             start == WithX(kind, val, f.x)
             Wide(n) == WithX(kind, run[n].v, run[n].x)
             T == {n \in Nat : n <= count => Wide(n) = Turned(start, b - (n % b), b)}
  <1>1. run[0] = ShiftStart(f, val) /\ \A n \in 1..count : run[n] = ShiftOne(kind, left, run[n - 1])
    BY ShiftRuns
  <1>2. \A n \in 0..count : run[n] \in ShiftState
    BY ShiftRunTyped DEF Kinds
  <1>3. b \in Nat \ {0} /\ H \in Nat \ {0} /\ Pow2[b] = 2 * H /\ Pow2[b - 1] = H /\ start \in 0..(Pow2[b] - 1)
    <2>1. f.x \in BOOLEAN
      BY DEF Ccr
    <2> QED BY <2>1, TurnedWidths
  <1>4. ASSUME NEW n \in Nat, n + 1 <= count
        PROVE  LET w == Wide(n) IN Wide(n + 1) = w \div 2 + H * (w % 2)
    <2>1. n + 1 \in 1..count /\ (n + 1) - 1 = n /\ run[n] \in ShiftState
      BY <1>2, <1>4
    <2>2. run[n + 1] = ShiftOne(kind, left, run[n])
      BY <1>1, <2>1
    <2> HIDE DEF run, H
    <2> QED BY <2>1, <2>2, RotateOneRight DEF H
  <1>5. run[0].v = val /\ run[0].x = f.x
    BY <1>1 DEF ShiftStart
  <1> HIDE DEF run, b, H, start
  <1>6. 0 \in T
    <2>1. 0 % b = 0 /\ Wide(0) = start /\ b - 0 = b
      BY <1>3, <1>5 DEF start
    <2>2. Turned(start, b, b) = start
      BY <1>3, TurnedNone
    <2> QED BY <2>1, <2>2
  <1>7. ASSUME NEW n \in Nat, n \in T PROVE n + 1 \in T
    <2>1. SUFFICES ASSUME n + 1 <= count PROVE Wide(n + 1) = Turned(start, b - ((n + 1) % b), b)
      OBVIOUS
    <2> DEFINE r == n % b
               w == Wide(n)
               k == b - 1 - r
               u == Turned(start, k, b)
    <2>2. w = Turned(start, b - r, b)
      BY <1>7, <2>1
    <2>3. r \in 0..(b - 1) /\ (n + 1) % b = IF r = b - 1 THEN 0 ELSE r + 1
      BY <1>3, NextRest
    <2>4. Wide(n + 1) = w \div 2 + H * (w % 2)
      BY <1>4, <2>1
    <2> HIDE DEF w, r, Wide
    <2>5. k \in 0..(b - 1) /\ k + 1 = b - r
      BY <1>3, <2>3
    <2>6. u \in 0..(2 * H - 1) /\ w = IF u >= H THEN 2 * u + 1 - 2 * H ELSE 2 * u
      <3> HIDE DEF k
      <3>1. LET R == Turned(start, k, b) IN
            /\ R \in 0..(Pow2[b] - 1)
            /\ Turned(start, k + 1, b) = IF R >= Pow2[b - 1] THEN 2 * R + 1 - Pow2[b] ELSE 2 * R
        BY <1>3, <2>5, TurnedStep
      <3> QED BY <1>3, <2>2, <2>5, <3>1
    <2>7. w \div 2 + H * (w % 2) = u
      <3> HIDE DEF u
      <3>1. u >= H => w = 2 * u + 1 - 2 * H
        BY <2>6
      <3>2. u < H => w = 2 * u
        BY <1>3, <2>6
      <3>3. w \in Int
        BY <1>3, <2>6
      <3> QED BY <1>3, <2>6, <3>1, <3>2, <3>3, RightUndoes
    <2>8. Turned(start, 0, b) = Turned(start, b, b)
      BY <1>3, TurnedNone
    <2>9. CASE r = b - 1
      <3>1. k = 0 /\ b - ((n + 1) % b) = b
        BY <1>3, <2>3, <2>9
      <3> HIDE DEF k
      <3> QED BY <2>4, <2>7, <2>8, <3>1
    <2>10. CASE r # b - 1
      <3>1. b - ((n + 1) % b) = k
        BY <1>3, <2>3, <2>10
      <3> HIDE DEF k
      <3> QED BY <2>4, <2>7, <3>1
    <2> QED BY <2>9, <2>10
  <1>8. Nat \subseteq T
    <2> HIDE DEF T
    <2> QED BY <1>6, <1>7, Induct
  <1> QED BY <1>8 DEF run, b, start

\* Counting the turns from the other side.
LEMMA RotatedBack ==
  ASSUME NEW b \in Nat \ {0}, NEW v \in 0..(Pow2[b] - 1), NEW n \in Nat
  PROVE  Rotated(v, b - (n % b), b) = Turned(v, b - (n % b), b)
  <1> DEFINE m == n % b
  <1>1. m \in 0..(b - 1)
    BY NextRest
  <1> HIDE DEF m
  <1>2. b - m \in Nat
    BY <1>1
  <1>3. Rotated(v, b - m, b) = Turned(v, (b - m) % b, b)
    <2> DEFINE k == b - m
    <2> HIDE DEF k
    <2>1. k \in Nat
      BY <1>2 DEF k
    <2>2. Rotated(v, k, b) = Turned(v, k % b, b)
      BY <2>1, RotatedIsTurned
    <2> QED BY <2>2 DEF k
  <1>4. CASE m = 0
    <2>1. b - m = b /\ b % b = 0
      <3>1. b = 1 * b + 0 /\ 0 \in 0..(b - 1)
        OBVIOUS
      <3> QED BY <1>4, <3>1, DivModIs
    <2>2. Turned(v, 0, b) = Turned(v, b, b)
      BY TurnedNone
    <2> QED BY <1>3, <2>1, <2>2 DEF m
  <1>5. CASE m # 0
    <2> DEFINE k == b - m
    <2>1. k \in 0..(b - 1) /\ k = 0 * b + k
      BY <1>1, <1>5
    <2> HIDE DEF k
    <2>2. k % b = k
      BY <2>1, DivModIs
    <2> QED BY <1>3, <2>2 DEF k, m
  <1> QED BY <1>4, <1>5

\* What a mnemonic says.
LEMMA MnemonicIs ==
  ASSUME NEW kind \in Kinds, NEW left \in BOOLEAN
  PROVE  LET op == Mnemonic(kind, left) IN
         /\ op \in {"ASL", "LSL", "ASR", "LSR", "ROL", "ROR", "ROXL", "ROXR"}
         /\ op = "ASL" => kind = "AS" /\ left
         /\ op = "LSL" => kind = "LS" /\ left
         /\ op = "ASR" => kind = "AS" /\ ~left
         /\ op = "LSR" => kind = "LS" /\ ~left
         /\ op = "ROL" => kind = "RO" /\ left
         /\ op = "ROR" => kind = "RO" /\ ~left
         /\ op = "ROXL" => kind = "ROX" /\ left
         /\ op = "ROXR" => kind = "ROX" /\ ~left
  <1>1. left = TRUE \/ left = FALSE
    OBVIOUS
  <1>2. kind = "AS" \/ kind = "LS" \/ kind = "ROX" \/ kind = "RO"
    BY DEF Kinds
  <1>3. CASE kind = "AS"
    <2>1. Mnemonic(kind, left) = IF left THEN "ASL" ELSE "ASR"
      BY <1>3 DEF Mnemonic
    <2> QED BY <1>1, <1>3, <2>1
  <1>4. CASE kind = "LS"
    <2>1. Mnemonic(kind, left) = IF left THEN "LSL" ELSE "LSR"
      BY <1>4 DEF Mnemonic
    <2> QED BY <1>1, <1>4, <2>1
  <1>5. CASE kind = "ROX"
    <2>1. Mnemonic(kind, left) = IF left THEN "ROXL" ELSE "ROXR"
      BY <1>5 DEF Mnemonic
    <2> QED BY <1>1, <1>5, <2>1
  <1>6. CASE kind = "RO"
    <2>1. Mnemonic(kind, left) = IF left THEN "ROL" ELSE "ROR"
      BY <1>6 DEF Mnemonic
    <2> QED BY <1>1, <1>6, <2>1
  <1> QED BY <1>2, <1>3, <1>4, <1>5, <1>6

\* Each shift does what its mnemonic says.
LEMMA ShiftAgrees ==
  ASSUME flags \in Ccr, NEW kind \in Kinds, NEW left \in BOOLEAN, NEW d \in Value, NEW count \in Nat,
         Shift(kind, left, d, count)
  PROVE  flags' \in Ccr /\ ShiftsAgree'
         /\ executed'.op \in {"ASL", "LSL", "ASR", "LSR", "ROL", "ROR", "ROXL", "ROXR"}
  <1> DEFINE f == flags
             out == ShiftVal(f, kind, left, d, count)
             last == ShiftRun(f, kind, left, d, count)[count]
             g == flags'
             res == executed'.res
             op == Mnemonic(kind, left)
  <1>1. /\ executed'.op = op /\ executed'.d = d /\ executed'.s = count /\ executed'.x = f.x
        /\ res = out.res /\ g = out.flags
    <2>1. Executes(op, d, count, f.x, out)
      BY DEF Shift
    <2> HIDE DEF out, op
    <2> QED BY <2>1 DEF Executes
  <1>2. last \in ShiftState /\ f \in Ccr
    BY ShiftRunTyped
  <1>3. /\ res = last.v /\ g \in Ccr /\ g.v = last.o
        /\ kind \notin {"AS", "LS"} => g.x = last.x
    <2>1. last.c \in BOOLEAN /\ last.x \in BOOLEAN /\ last.o \in BOOLEAN
      <3> HIDE DEF last
      <3> QED BY <1>2 DEF ShiftState
    <2>2. /\ out.res = last.v
          /\ last.c \in BOOLEAN /\ last.x \in BOOLEAN /\ last.o \in BOOLEAN =>
               /\ out.flags \in Ccr /\ out.flags.v = last.o
               /\ kind \notin {"AS", "LS"} => out.flags.x = last.x
      BY <1>2, ShiftValIs
    <2> HIDE DEF out, last
    <2> QED BY <1>1, <2>1, <2>2
  <1>4. W \in Nat \ {0} /\ Pow2[W] = M /\ M \in Nat \ {0} /\ count \in 0..count
    BY Widths
  <1>5. op = "ASL" \/ op = "LSL" => res = (d * Pow2[count]) % M
    <2> SUFFICES ASSUME kind \in {"AS", "LS"}, left PROVE last.v = (d * Pow2[count]) % M
      BY <1>3, MnemonicIs
    <2>1. f \in Ccr /\ kind \in {"AS", "LS"} /\ left
      BY <1>2
    <2> HIDE DEF f
    <2>2. \A n \in 0..count : ShiftRun(f, kind, left, d, count)[n].v = (d * Pow2[n]) % M
      BY <2>1, LeftMultiplies, Zenon
    <2>3. count \in 0..count
      BY <1>4
    <2> QED BY <2>2, <2>3, Zenon
  <1>6. op = "ASL" => g.v = (Signed(d) * Pow2[count] \notin (-Half)..(Half - 1))
    <2> SUFFICES ASSUME kind = "AS", left
                 PROVE  last.o = (Signed(d) * Pow2[count] \notin (-Half)..(Half - 1))
      BY <1>3, MnemonicIs
    <2> QED BY <1>2, LeftOverflows
  <1>7. op = "LSR" => res = d \div Pow2[count]
    <2> SUFFICES ASSUME kind = "LS", ~left PROVE last.v = d \div Pow2[count]
      BY <1>3, MnemonicIs
    <2> QED BY <1>2, <1>4, RightDivides
  <1>8. op = "ASR" => Signed(res) = Signed(d) \div Pow2[count]
    <2> SUFFICES ASSUME kind = "AS", ~left PROVE Signed(last.v) = Signed(d) \div Pow2[count]
      BY <1>3, MnemonicIs
    <2> QED BY <1>2, <1>4, RightKeepsSign
  <1>9. op = "ROL" => res = Rotated(d, count, W)
    <2> SUFFICES ASSUME kind = "RO", left PROVE last.v = Rotated(d, count, W)
      BY <1>3, MnemonicIs
    <2>1. LET b == TurnedBits(kind) IN
          WithX(kind, last.v, last.x) = Turned(WithX(kind, d, f.x), count % b, b)
      BY <1>2, RotatesLeft
    <2>2. last.v = Turned(d, count % W, W)
      <3> HIDE DEF last
      <3> QED BY <2>1 DEF WithX, TurnedBits
    <2> QED BY <1>4, <2>2, RotatedIsTurned
  <1>10. op = "ROR" => res = Rotated(d, W - (count % W), W)
    <2> SUFFICES ASSUME kind = "RO", ~left PROVE last.v = Rotated(d, W - (count % W), W)
      BY <1>3, MnemonicIs
    <2>1. LET b == TurnedBits(kind) IN
          WithX(kind, last.v, last.x) = Turned(WithX(kind, d, f.x), b - (count % b), b)
      BY <1>2, RotatesRight
    <2>2. last.v = Turned(d, W - (count % W), W)
      <3> HIDE DEF last
      <3> QED BY <2>1 DEF WithX, TurnedBits
    <2>3. d \in 0..(Pow2[W] - 1)
      BY <1>4 DEF Value
    <2> QED BY <1>4, <2>2, <2>3, RotatedBack
  <1> DEFINE wide == d + M * Bit(f.x)
             L == W + 1
  <1>11. L \in Nat \ {0} /\ wide \in 0..(Pow2[L] - 1)
    <2>1. "ROX" \in {"RO", "ROX"} /\ f.x \in BOOLEAN
      BY <1>2 DEF Ccr
    <2>2. Pow2[TurnedBits("ROX")] = 2 * TurnedTop("ROX") /\ WithX("ROX", d, f.x) \in 0..(2 * TurnedTop("ROX") - 1)
      BY <2>1, TurnedWidths
    <2> HIDE DEF f
    <2> QED BY <1>4, <2>2 DEF WithX, TurnedBits
  <1>12. op = "ROXL" => res + M * Bit(g.x) = Rotated(wide, count, L)
    <2> SUFFICES ASSUME kind = "ROX", left PROVE last.v + M * Bit(last.x) = Rotated(wide, count, L)
      BY <1>3, MnemonicIs
    <2>1. LET b == TurnedBits(kind) IN
          WithX(kind, last.v, last.x) = Turned(WithX(kind, d, f.x), count % b, b)
      BY <1>2, RotatesLeft
    <2>2. last.v + M * Bit(last.x) = Turned(wide, count % L, L)
      <3> HIDE DEF last, f
      <3> QED BY <2>1 DEF WithX, TurnedBits
    <2> HIDE DEF wide, L
    <2> QED BY <1>11, <2>2, RotatedIsTurned
  <1>13. op = "ROXR" => res + M * Bit(g.x) = Rotated(wide, L - (count % L), L)
    <2> SUFFICES ASSUME kind = "ROX", ~left PROVE last.v + M * Bit(last.x) = Rotated(wide, L - (count % L), L)
      BY <1>3, MnemonicIs
    <2>1. LET b == TurnedBits(kind) IN
          WithX(kind, last.v, last.x) = Turned(WithX(kind, d, f.x), b - (count % b), b)
      BY <1>2, RotatesRight
    <2>2. last.v + M * Bit(last.x) = Turned(wide, L - (count % L), L)
      <3> HIDE DEF last, f
      <3> QED BY <2>1 DEF WithX, TurnedBits
    <2> HIDE DEF wide, L
    <2> QED BY <1>11, <2>2, RotatedBack
  <1>14. op \in {"ASL", "LSL", "ASR", "LSR", "ROL", "ROR", "ROXL", "ROXR"}
    BY MnemonicIs
  <1> HIDE DEF op, out, last, f, g, res
  <1>15. ShiftsAgree'
    <2>1. /\ executed'.op = op /\ executed'.d = d /\ executed'.s = count /\ executed'.x = f.x
          /\ executed'.res = res /\ flags' = g
      BY <1>1 DEF res, g
    <2>2. executed'.op \in {"ASL", "LSL"} => executed'.res = (executed'.d * Pow2[executed'.s]) % M
      BY <1>5, <2>1
    <2>3. executed'.op = "ASL" =>
            flags'.v = (Signed(executed'.d) * Pow2[executed'.s] \notin (-Half)..(Half - 1))
      BY <1>6, <2>1
    <2>4. executed'.op = "LSR" => executed'.res = executed'.d \div Pow2[executed'.s]
      BY <1>7, <2>1
    <2>5. executed'.op = "ASR" => Signed(executed'.res) = Signed(executed'.d) \div Pow2[executed'.s]
      BY <1>8, <2>1
    <2>6. executed'.op = "ROL" => executed'.res = Rotated(executed'.d, executed'.s, W)
      BY <1>9, <2>1
    <2>7. executed'.op = "ROR" => executed'.res = Rotated(executed'.d, W - (executed'.s % W), W)
      BY <1>10, <2>1
    <2>8. executed'.op = "ROXL" =>
            executed'.res + M * Bit(flags'.x) = Rotated(executed'.d + M * Bit(executed'.x), executed'.s, W + 1)
      BY <1>12, <2>1
    <2>9. executed'.op = "ROXR" =>
            executed'.res + M * Bit(flags'.x)
            = Rotated(executed'.d + M * Bit(executed'.x), W + 1 - (executed'.s % (W + 1)), W + 1)
      <3> DEFINE K == L - (count % L)
                 a == executed'.d + M * Bit(executed'.x)
                 k == W + 1 - (executed'.s % (W + 1))
                 l == W + 1
      <3>1. a = wide
        BY <2>1
      <3>2. k = K
        <4>1. executed'.s = count
          BY <2>1
        <4> DEFINE m == count % L
        <4>2. m \in Int /\ W \in Int
          BY <1>4, <1>11, DivMod
        <4>3. k = W + (1 - m)
          BY <4>1, Zenon
        <4>4. K = (W + 1) - m
          OBVIOUS
        <4> HIDE DEF m, k, K
        <4> QED BY <4>2, <4>3, <4>4
      <3>3. l = L
        OBVIOUS
      <3> HIDE DEF K, a, k, l, wide, L
      <3>4. executed'.op = "ROXR" => executed'.res + M * Bit(flags'.x) = Rotated(wide, K, L)
        BY <1>13, <2>1 DEF K
      <3>5. executed'.op = "ROXR" => executed'.res + M * Bit(flags'.x) = Rotated(a, k, l)
        BY <3>1, <3>2, <3>3, <3>4
      <3> QED BY <3>5 DEF a, k, l
    <2> QED BY <2>2, <2>3, <2>4, <2>5, <2>6, <2>7, <2>8, <2>9, Zenon DEF ShiftsAgree
  <1> QED BY <1>1, <1>3, <1>14, <1>15 DEF g

-----------------------------------------------------------------------------
\* The flags of a decimal instruction.
LEMMA DecimalFlagsIs ==
  ASSUME NEW f \in Ccr, NEW r, NEW carry \in BOOLEAN, NEW v \in BOOLEAN
  PROVE  DecimalFlags(f, r, carry, v) \in Ccr /\ DecimalFlags(f, r, carry, v).x = carry
  <1> DEFINE n == BitOf(r, 7)
             z == f.z /\ r % 256 = 0
             g == [f EXCEPT !.c = carry, !.x = carry, !.v = v, !.n = n, !.z = z]
  <1>1. n \in BOOLEAN
    BY DEF BitOf
  <1>2. z \in BOOLEAN
    OBVIOUS
  <1>3. DecimalFlags(f, r, carry, v) = g
    BY DEF DecimalFlags
  <1> HIDE DEF n, z
  <1>4. g \in Ccr /\ g.x = carry
    BY <1>1, <1>2 DEF Ccr
  <1> HIDE DEF g
  <1> QED BY <1>3, <1>4

\* The bit in which a difference of 16 bits tells its sign.
LEMMA BitEight ==
  ASSUME NEW v \in Int
  PROVE  BitOf(v, 8) <=> (v \div 256) % 2 = 1
  <1>1. Pow2[8] = 256
    <2>1. /\ Pow2[0] = 1 /\ Pow2[0 + 1] = 2 * Pow2[0] /\ Pow2[1 + 1] = 2 * Pow2[1] /\ Pow2[2 + 1] = 2 * Pow2[2]
          /\ Pow2[3 + 1] = 2 * Pow2[3] /\ Pow2[4 + 1] = 2 * Pow2[4] /\ Pow2[5 + 1] = 2 * Pow2[5]
          /\ Pow2[6 + 1] = 2 * Pow2[6] /\ Pow2[7 + 1] = 2 * Pow2[7]
      BY Powers
    <2> QED BY <2>1
  <1> QED BY <1>1 DEF BitOf

\* Two decimal digits in a byte.
LEMMA DigitsOf ==
  ASSUME NEW b \in 0..255, IsDecimal(b)
  PROVE  \E h \in 0..9, l \in 0..9 : b = 16 * h + l /\ b % 16 = l /\ Number(b) = 10 * h + l
  <1> DEFINE h == b \div 16
             l == b % 16
  <1>1. h \in 0..9 /\ l \in 0..9 /\ b = 16 * h + l
    BY DEF IsDecimal
  <1>2. Number(b) = 10 * h + l
    BY DEF Number
  <1> HIDE DEF h, l
  <1>3. b % 16 = l
    BY DEF l
  <1> QED BY <1>1, <1>2, <1>3

\* And back: the digits of a byte put together.
LEMMA DigitsAre ==
  ASSUME NEW h \in 0..9, NEW l \in 0..9, NEW b, b = 16 * h + l
  PROVE  IsDecimal(b) /\ Number(b) = 10 * h + l
  <1>1. b \div 16 = h /\ b % 16 = l
    OBVIOUS
  <1> QED BY <1>1 DEF IsDecimal, Number

\* `DecimalAgrees` of an addition and of a subtraction.
AddsDigits(f, d, s, out) ==
    LET n == Number(d) + Number(s) + Bit(f.x) IN
    /\ out.flags \in Ccr
    /\ IsDecimal(d) /\ IsDecimal(s) =>
         IsDecimal(out.res) /\ Number(out.res) = n % 100 /\ out.flags.x = (n > 99)
SubtractsDigits(f, d, s, out) ==
    LET n == Number(d) - Number(s) - Bit(f.x) IN
    /\ out.flags \in Ccr
    /\ IsDecimal(d) /\ IsDecimal(s) =>
         IsDecimal(out.res) /\ Number(out.res) = n % 100 /\ out.flags.x = (n < 0)

\* The sum of two decimal bytes.
LEMMA BcdAddIs ==
  ASSUME NEW f \in Ccr, NEW d \in 0..255, NEW s \in 0..255
  PROVE  AddsDigits(f, d, s, BcdAdd(f, d, s))
  <1> DEFINE x == Bit(f.x)
             r1 == d + s + x
             low == r1 + IF (d % 16) + (s % 16) + x > 9 THEN 6 ELSE 0
             r == IF low > 159 THEN low + 96 ELSE low
             carry == (r \div 256) % 4 # 0
             v == BitOf(r, 7) /\ ~BitOf(r1, 7)
             out == BcdAdd(f, d, s)
  <1>1. out = [res |-> r % 256, flags |-> DecimalFlags(f, r, carry, v)]
    BY DEF BcdAdd
  <1>2. x \in {0, 1}
    BY DEF Bit
  <1> HIDE DEF x
  <1>3. carry \in BOOLEAN /\ v \in BOOLEAN
    <2> HIDE DEF r, r1
    <2> QED BY DEF BitOf
  <1> HIDE DEF v, out
  <1>4. out.res = r % 256 /\ out.flags = DecimalFlags(f, r, carry, v)
    <2> HIDE DEF r, carry
    <2> QED BY <1>1
  <1>5. out.flags \in Ccr /\ out.flags.x = carry
    <2> HIDE DEF r, carry
    <2> QED BY <1>3, <1>4, DecimalFlagsIs
  <1>6. ASSUME IsDecimal(d), IsDecimal(s)
        PROVE  LET n == Number(d) + Number(s) + x IN
               IsDecimal(out.res) /\ Number(out.res) = n % 100 /\ carry = (n > 99)
    <2>1. PICK a \in 0..9, b \in 0..9 : d = 16 * a + b /\ d % 16 = b /\ Number(d) = 10 * a + b
      BY <1>6, DigitsOf
    <2>2. PICK c \in 0..9, e \in 0..9 : s = 16 * c + e /\ s % 16 = e /\ Number(s) = 10 * c + e
      BY <1>6, DigitsOf
    <2> DEFINE up == IF b + e + x > 9 THEN 1 ELSE 0
               h == a + c + up
               l == b + e + x - 10 * up
               n == 10 * h + l
    <2>3. h \in 0..19 /\ l \in 0..9 /\ low = 16 * h + l /\ Number(d) + Number(s) + x = n
      BY <1>2, <2>1, <2>2
    <2> HIDE DEF h, l
    <2>4. CASE h > 9
      <3>1. r = 256 + (16 * (h - 10) + l)
        BY <2>3, <2>4
      <3> DEFINE k == h - 10
                 y == 16 * k + l
      <3>2. k \in 0..9 /\ y \in 0..159 /\ n = 100 + (10 * k + l)
        BY <2>3, <2>4
      <3> HIDE DEF r, k, n
      <3>3. r \div 256 = 1 /\ r % 256 = y
        BY <2>3, <3>1, <3>2 DEF k
      <3>4. n % 100 = 10 * k + l /\ n > 99
        BY <2>3, <3>2
      <3>5. IsDecimal(y) /\ Number(y) = 10 * k + l
        BY <2>3, <3>2, DigitsAre
      <3>6. carry = TRUE
        BY <3>3
      <3> QED BY <1>4, <2>3, <3>3, <3>4, <3>5, <3>6
    <2>5. CASE ~(h > 9)
      <3>1. r = 16 * h + l /\ h \in 0..9 /\ r \in 0..159
        BY <2>3, <2>5
      <3>2. n \in 0..99
        BY <2>3, <3>1
      <3>7. n = 10 * h + l
        OBVIOUS
      <3> HIDE DEF r, n
      <3>3. r \div 256 = 0 /\ r % 256 = r
        BY <3>1
      <3>4. n % 100 = n /\ ~(n > 99)
        BY <3>2
      <3>5. IsDecimal(r) /\ Number(r) = 10 * h + l
        BY <2>3, <3>1, DigitsAre
      <3>6. carry = FALSE
        BY <3>3
      <3> QED BY <1>4, <2>3, <3>3, <3>4, <3>5, <3>6, <3>7
    <2> QED BY <2>4, <2>5
  <1> HIDE DEF carry
  <1> QED BY <1>5, <1>6 DEF x, out, AddsDigits

\* The difference of two decimal bytes.
LEMMA BcdSubIs ==
  ASSUME NEW f \in Ccr, NEW d \in 0..255, NEW s \in 0..255
  PROVE  SubtractsDigits(f, d, s, BcdSub(f, d, s))
  <1> DEFINE x == Bit(f.x)
             r1 == (d - s - x) % 65536
             low == r1 - IF (d % 16) - (s % 16) - x < 0 THEN 6 ELSE 0
             r == (IF BitOf(r1, 8) THEN low - 96 ELSE low) % 65536
             carry == (r \div 256) % 4 # 0
             v == ~BitOf(r, 7) /\ BitOf(r1, 7)
             out == BcdSub(f, d, s)
  <1>1. out = [res |-> r % 256, flags |-> DecimalFlags(f, r, carry, v)]
    BY DEF BcdSub
  <1>2. x \in {0, 1}
    BY DEF Bit
  <1> HIDE DEF x
  <1>3. carry \in BOOLEAN /\ v \in BOOLEAN
    <2> HIDE DEF r, r1
    <2> QED BY DEF BitOf
  <1> HIDE DEF v, out
  <1>4. out.res = r % 256 /\ out.flags = DecimalFlags(f, r, carry, v)
    <2> HIDE DEF r, carry
    <2> QED BY <1>1
  <1>5. out.flags \in Ccr /\ out.flags.x = carry
    <2> HIDE DEF r, carry
    <2> QED BY <1>3, <1>4, DecimalFlagsIs
  <1>6. ASSUME IsDecimal(d), IsDecimal(s)
        PROVE  LET n == Number(d) - Number(s) - x IN
               IsDecimal(out.res) /\ Number(out.res) = n % 100 /\ carry = (n < 0)
    <2>1. PICK a \in 0..9, b \in 0..9 : d = 16 * a + b /\ d % 16 = b /\ Number(d) = 10 * a + b
      BY <1>6, DigitsOf
    <2>2. PICK c \in 0..9, e \in 0..9 : s = 16 * c + e /\ s % 16 = e /\ Number(s) = 10 * c + e
      BY <1>6, DigitsOf
    <2> DEFINE borrow == IF b - e - x < 0 THEN 1 ELSE 0
               h == a - c - borrow
               l == b - e - x + 10 * borrow
               n == 10 * h + l
               y == d - s - x
               six == IF (d % 16) - (s % 16) - x < 0 THEN 6 ELSE 0
    <2>3. /\ h \in (-10)..9 /\ l \in 0..9 /\ Number(d) - Number(s) - x = n
          /\ y \in (-255)..255 /\ y - six = 16 * h + l /\ (y < 0 <=> h < 0) /\ six \in 0..6
      BY <1>2, <2>1, <2>2
    <2>4. r1 = y % 65536 /\ low = r1 - six
      OBVIOUS
    <2> HIDE DEF h, l, y, six, r1, low
    <2>5. CASE h < 0
      <3>1. r1 = y + 65536 /\ r1 \in Int
        BY <2>3, <2>4, <2>5
      <3>2. BitOf(r1, 8)
        <4>1. r1 \div 256 = 255
          BY <2>3, <2>5, <3>1
        <4>2. (r1 \div 256) % 2 = 1
          BY <4>1
        <4>3. BitOf(r1, 8) <=> (r1 \div 256) % 2 = 1
          BY <3>1, BitEight
        <4> QED BY <4>2, <4>3
      <3> DEFINE k == h + 10
                 z == 16 * k + l
      <3>3. k \in 0..9 /\ z \in 0..159 /\ n = 10 * k + l - 100
        BY <2>3, <2>5
      <3>4. low - 96 = 65280 + z
        BY <2>3, <2>4, <3>1
      <3>5. r = 65280 + z
        <4>1. r = (low - 96) % 65536
          BY <3>2
        <4> HIDE DEF r, z
        <4> QED BY <3>3, <3>4, <4>1
      <3> HIDE DEF r, k, n
      <3>6. r \div 256 = 255 /\ r % 256 = z
        BY <3>3, <3>5
      <3>7. n % 100 = 10 * k + l /\ n < 0
        BY <2>3, <3>3
      <3>8. IsDecimal(z) /\ Number(z) = 10 * k + l
        BY <2>3, <3>3, DigitsAre
      <3>9. carry = TRUE
        BY <3>6
      <3> QED BY <1>4, <2>3, <3>6, <3>7, <3>8, <3>9
    <2>6. CASE ~(h < 0)
      <3> DEFINE z == 16 * h + l
      <3>1. r1 = y /\ r1 \in 0..255 /\ h \in 0..9 /\ z \in 0..159 /\ n \in 0..99 /\ n = 10 * h + l
        BY <2>3, <2>4, <2>6
      <3>2. ~BitOf(r1, 8)
        <4>1. r1 \div 256 = 0
          BY <3>1
        <4>2. ~((r1 \div 256) % 2 = 1)
          BY <4>1
        <4>3. BitOf(r1, 8) <=> (r1 \div 256) % 2 = 1
          BY <3>1, BitEight
        <4> QED BY <4>2, <4>3
      <3>3. low = z
        BY <2>3, <2>4, <3>1
      <3>4. r = z
        <4>1. r = low % 65536
          BY <3>2
        <4> HIDE DEF r, z
        <4> QED BY <3>1, <3>3, <4>1
      <3>5. IsDecimal(z) /\ Number(z) = 10 * h + l
        BY <2>3, <3>1, DigitsAre
      <3> HIDE DEF r, n, z
      <3>6. r \div 256 = 0 /\ r % 256 = z
        BY <3>1, <3>4
      <3>7. n % 100 = n /\ ~(n < 0)
        BY <3>1
      <3>8. carry = FALSE
        BY <3>6
      <3> QED BY <1>4, <2>3, <3>1, <3>5, <3>6, <3>7, <3>8
    <2> QED BY <2>5, <2>6
  <1> HIDE DEF carry
  <1> QED BY <1>5, <1>6 DEF x, out, SubtractsDigits

\* A decimal instruction adds or subtracts digits.
LEMMA BcdAgrees ==
  ASSUME flags \in Ccr, NEW op \in {"ABCD", "SBCD"}, NEW d \in Decimal, NEW s \in Decimal, Bcd(op, d, s)
  PROVE  flags' \in Ccr /\ DecimalAgrees' /\ executed'.op \in {"ABCD", "SBCD"}
  <1> DEFINE f == flags
             add == BcdAdd(f, d, s)
             sub == BcdSub(f, d, s)
             out == IF op = "ABCD" THEN add ELSE sub
             x == f.x
  <1>1. /\ executed'.op = op /\ executed'.d = d /\ executed'.s = s /\ executed'.x = x
        /\ executed'.res = out.res /\ flags' = out.flags
    <2>1. Executes(op, d, s, x, out)
      BY DEF Bcd
    <2> HIDE DEF out
    <2> QED BY <2>1 DEF Executes
  <1>2. d \in 0..255 /\ s \in 0..255 /\ f \in Ccr
    BY WidthAssumption
  <1>3. LET n == Number(d) + Number(s) + Bit(x) IN
        /\ add.flags \in Ccr
        /\ IsDecimal(d) /\ IsDecimal(s) =>
             IsDecimal(add.res) /\ Number(add.res) = n % 100 /\ add.flags.x = (n > 99)
    <2> HIDE DEF f
    <2>1. AddsDigits(f, d, s, BcdAdd(f, d, s))
      BY <1>2, BcdAddIs, Zenon
    <2> QED BY <2>1, Zenon DEF AddsDigits
  <1>4. LET n == Number(d) - Number(s) - Bit(x) IN
        /\ sub.flags \in Ccr
        /\ IsDecimal(d) /\ IsDecimal(s) =>
             IsDecimal(sub.res) /\ Number(sub.res) = n % 100 /\ sub.flags.x = (n < 0)
    <2> HIDE DEF f
    <2>1. SubtractsDigits(f, d, s, BcdSub(f, d, s))
      BY <1>2, BcdSubIs, Zenon
    <2> QED BY <2>1, Zenon DEF SubtractsDigits
  <1> HIDE DEF add, sub, x
  <1>5. flags' \in Ccr
    BY <1>1, <1>3, <1>4
  <1>6. CASE op = "ABCD"
    <2>1. out = add
      BY <1>6
    <2> HIDE DEF out
    <2>2. DecimalAgrees'
      BY <1>1, <1>3, <1>6, <2>1 DEF DecimalAgrees
    <2> QED BY <1>1, <1>5, <2>2
  <1>7. CASE op = "SBCD"
    <2>1. out = sub
      BY <1>7
    <2> HIDE DEF out
    <2>2. DecimalAgrees'
      BY <1>1, <1>4, <1>7, <2>1 DEF DecimalAgrees
    <2> QED BY <1>1, <1>5, <2>2
  <1> QED BY <1>6, <1>7

-----------------------------------------------------------------------------
\* Flags that do not depend on the operands' sum.
LEMMA LogicFlagsIs ==
  ASSUME NEW f \in Ccr, NEW r
  PROVE  LogicFlags(f, r) \in Ccr /\ LogicFlags(f, r).v = FALSE /\ LogicFlags(f, r).x = f.x
  <1> DEFINE n == r >= Half
             z == (r = 0)
             g == [f EXCEPT !.n = n, !.z = z, !.v = FALSE, !.c = FALSE]
  <1>1. n \in BOOLEAN /\ z \in BOOLEAN
    OBVIOUS
  <1>2. LogicFlags(f, r) = g
    BY DEF LogicFlags, NZ, Negative
  <1> HIDE DEF n, z
  <1>3. g \in Ccr /\ g.v = FALSE /\ g.x = f.x
    BY <1>1 DEF Ccr
  <1> HIDE DEF g
  <1> QED BY <1>2, <1>3

\* A number that fits is what its rest is read as.
LEMMA SignedRest ==
  ASSUME NEW y \in (-Half)..(Half - 1)
  PROVE  y % M \in Value /\ Signed(y % M) = y
  <1> DEFINE r == IF y < 0 THEN y + M ELSE y
             q == IF y < 0 THEN -1 ELSE 0
  <1>1. Half \in Nat /\ Half >= 2 /\ M = 2 * Half
    BY Widths
  <1>2. r \in 0..(M - 1) /\ q \in Int /\ y = q * M + r /\ y \in Int /\ M \in Nat \ {0}
    BY <1>1
  <1> HIDE DEF r, q
  <1>3. y % M = r
    BY <1>2, DivModIs
  <1>4. Signed(r) = IF r >= Half THEN r - M ELSE r
    BY DEF Signed, Negative
  <1>5. Signed(r) = y
    BY <1>1, <1>2, <1>4 DEF r
  <1> QED BY <1>2, <1>3, <1>5 DEF Value

\* Division that rounds to zero.
LEMMA QuotientIs ==
  ASSUME NEW a \in Int, NEW b \in Int \ {0}
  PROVE  LET q == Quotient(a, b)  r == a - b * q IN
         /\ q \in Int /\ r \in Int /\ a = q * b + r
         /\ Magnitude(r) < Magnitude(b) /\ (r # 0 => (r < 0) = (a < 0))
         /\ a >= 0 /\ b > 0 => q = a \div b /\ r \in 0..(b - 1)
  <1> DEFINE x == Magnitude(a)
             y == Magnitude(b)
             k == x \div y
             t == x % y
             q == Quotient(a, b)
             r == a - b * q
  <1>1. x = (IF a < 0 THEN -a ELSE a) /\ y = (IF b < 0 THEN -b ELSE b) /\ x \in Nat /\ y \in Nat \ {0}
    BY DEF Magnitude
  <1>2. q = IF (a < 0) = (b < 0) THEN k ELSE -k
    BY DEF Quotient
  <1> HIDE DEF x, y, q
  <1>3. x = k * y + t /\ t \in 0..(y - 1) /\ k \in Int
    <2>1. x \in Int /\ x \in Nat /\ y \in Nat \ {0}
      BY <1>1
    <2>2. x = (x \div y) * y + (x % y) /\ x % y \in 0..(y - 1) /\ x \div y \in Int
      BY <2>1, DivMod
    <2> QED BY <2>2
  <1>4. a >= 0 /\ b > 0 => k = a \div b
    BY <1>1
  <1> HIDE DEF k, t
  <1>5. b * q = IF a < 0 THEN -(k * y) ELSE k * y
    <2>1. CASE a < 0 /\ b < 0
      <3>1. y = -b /\ q = k
        BY <1>1, <1>2, <2>1
      <3>2. b * k = -(k * (-b))
        BY <1>3
      <3> QED BY <2>1, <3>1, <3>2
    <2>2. CASE a < 0 /\ ~(b < 0)
      <3>1. y = b /\ q = -k
        BY <1>1, <1>2, <2>2
      <3>2. b * (-k) = -(k * b)
        BY <1>3
      <3> QED BY <2>2, <3>1, <3>2
    <2>3. CASE ~(a < 0) /\ b < 0
      <3>1. y = -b /\ q = -k
        BY <1>1, <1>2, <2>3
      <3>2. b * (-k) = k * (-b)
        BY <1>3
      <3> QED BY <2>3, <3>1, <3>2
    <2>4. CASE ~(a < 0) /\ ~(b < 0)
      <3>1. y = b /\ q = k
        BY <1>1, <1>2, <2>4
      <3>2. b * k = k * b
        BY <1>3
      <3> QED BY <2>4, <3>1, <3>2
    <2> QED BY <2>1, <2>2, <2>3, <2>4
  <1>6. r = (IF a < 0 THEN -t ELSE t) /\ q \in Int /\ r \in Int
    <2> DEFINE c == k * y
               e == b * q
    <2>1. c \in Int /\ e = (IF a < 0 THEN -c ELSE c) /\ x = c + t /\ r = a - e
      BY <1>1, <1>3, <1>5
    <2>2. q \in Int
      BY <1>2, <1>3
    <2> HIDE DEF c, e, r
    <2> QED BY <1>1, <1>3, <2>1, <2>2
  <1>7. a = q * b + r
    <2>1. q * b = b * q /\ b * q \in Int
      BY <1>6
    <2> QED BY <2>1
  <1> HIDE DEF r
  <1>8. Magnitude(r) = t
    BY <1>3, <1>6 DEF Magnitude
  <1>9. t < y /\ (r # 0 => (r < 0) = (a < 0))
    BY <1>1, <1>3, <1>6
  <1>10. a >= 0 /\ b > 0 => q = a \div b /\ r \in 0..(b - 1)
    BY <1>1, <1>2, <1>3, <1>4, <1>6
  <1> QED BY <1>6, <1>7, <1>8, <1>9, <1>10 DEF q, r, y

\* What a division leaves.
DivisionLeaves(f, d, s, signed, out) ==
    LET a == IF signed THEN SignedLong(d) ELSE d
        b == IF signed THEN Signed(s) ELSE s
        q == IF signed THEN Signed(out.res % M) ELSE out.res % M
        r == IF signed THEN Signed(out.res \div M) ELSE out.res \div M
    IN IF out.flags.v THEN out.res = d
       ELSE /\ a = q * b + r
            /\ Magnitude(r) < Magnitude(b) /\ (r # 0 => (r < 0) = (a < 0))

\* Each of the four ways a division ends leaves what `DivisionLeaves` says.
LEMMA DivIs ==
  ASSUME NEW f \in Ccr, NEW signed \in BOOLEAN, NEW d \in 0..(M * M - 1), NEW s \in Value, s # 0
  PROVE  Div(f, d, s, signed).flags \in Ccr /\ DivisionLeaves(f, d, s, signed, Div(f, d, s, signed))
  <1> DEFINE out == Div(f, d, s, signed)
             a == IF signed THEN SignedLong(d) ELSE d
             b == IF signed THEN Signed(s) ELSE s
             wraps == a = -(M * Half) /\ b = -1
             k == Quotient(a, b)
             q == IF signed THEN WrappedQuotient(a, b) ELSE a \div b
             r == IF signed /\ a = -(M * Half) /\ b = -1 THEN 0 ELSE a - b * Quotient(a, b)
             overflow == IF signed THEN q > Half - 1 \/ q < -Half ELSE q > M - 1
             over == [f EXCEPT !.v = TRUE, !.c = FALSE, !.n = TRUE, !.z = FALSE]
             logic == LogicFlags(f, q % M)
             both == (r % M) * M + (q % M)
  <1>1. out = IF overflow THEN [res |-> d, flags |-> over] ELSE [res |-> both, flags |-> logic]
    BY DEF Div
  <1>2. Half \in Nat /\ Half >= 2 /\ M = 2 * Half /\ s \in 1..(M - 1) /\ M * M \in Int /\ M * Half \in Int /\ d \in Int
    <2>1. Half \in Nat /\ Half >= 2 /\ M = 2 * Half
      BY Widths
    <2>2. s \in 1..(M - 1)
      BY <2>1 DEF Value
    <2> QED BY <2>1, <2>2
  <1>3. a \in Int /\ b \in Int \ {0} /\ (signed => Magnitude(b) <= Half) /\ (~signed => a >= 0 /\ b > 0 /\ b <= M - 1)
    <2>1. SignedLong(d) \in Int
      BY <1>2 DEF SignedLong
    <2>2. Signed(s) = IF s >= Half THEN s - M ELSE s
      BY DEF Signed, Negative
    <2>3. Signed(s) \in (-Half)..(Half - 1) /\ Signed(s) # 0
      BY <1>2, <2>2
    <2> DEFINE w == Signed(s)
    <2>4. Magnitude(w) <= Half
      <3> HIDE DEF w
      <3>1. w \in (-Half)..(Half - 1)
        BY <2>3 DEF w
      <3> QED BY <1>2, <3>1 DEF Magnitude
    <2> HIDE DEF w
    <2>5. signed => a \in Int /\ b = w /\ w \in Int \ {0}
      BY <1>2, <2>1, <2>3 DEF w
    <2>6. ~signed => a = d /\ b = s
      OBVIOUS
    <2> HIDE DEF a, b
    <2> QED BY <1>2, <2>4, <2>5, <2>6
  <1>4. /\ k \in Int /\ a - b * k \in Int /\ a = k * b + (a - b * k)
        /\ Magnitude(a - b * k) < Magnitude(b) /\ (a - b * k # 0 => (a - b * k < 0) = (a < 0))
        /\ a >= 0 /\ b > 0 => k = a \div b /\ a - b * k \in 0..(b - 1)
    <2> HIDE DEF a, b
    <2> QED BY <1>3, QuotientIs
  <1>5. q = IF signed THEN (IF wraps THEN a ELSE k) ELSE k
    <2>1. ~signed => a \div b = k
      BY <1>3, <1>4
    <2>2. WrappedQuotient(a, b) = IF wraps THEN a ELSE k
      BY DEF WrappedQuotient
    <2> HIDE DEF a, b, k, wraps
    <2> QED BY <2>1, <2>2
  <1> DEFINE rest == a - b * k
  <1>6. r = IF signed /\ wraps THEN 0 ELSE rest
    OBVIOUS
  <1> HIDE DEF q, r
  <1>7. f.x \in BOOLEAN /\ over \in Ccr /\ over.v = TRUE
    BY DEF Ccr
  <1>8. logic \in Ccr /\ logic.v = FALSE
    BY LogicFlagsIs
  <1> HIDE DEF out, over, logic, both
  <1>9. CASE overflow
    <2>1. out.res = d /\ out.flags = over
      <3> HIDE DEF overflow
      <3> QED BY <1>1, <1>9
    <2> QED BY <1>7, <2>1 DEF DivisionLeaves, out
  <1>10. CASE ~overflow
    <2>1. out.res = both /\ out.flags = logic
      <3> HIDE DEF overflow
      <3> QED BY <1>1, <1>10
    <2>2. ~(signed /\ wraps)
      <3> SUFFICES ASSUME signed, wraps PROVE FALSE
        OBVIOUS
      <3>1. q = -(M * Half) /\ ~(q < -Half)
        BY <1>5, <1>10
      <3>2. M * Half >= 2 * Half
        BY <1>2
      <3> QED BY <1>2, <3>1, <3>2
    <2>3. q = k /\ r = rest
      <3> HIDE DEF wraps, k, rest
      <3> QED BY <1>5, <1>6, <2>2
    <2> HIDE DEF wraps, k, a, b
    <2>4. /\ q \in Int /\ rest \in Int /\ a = q * b + rest
          /\ Magnitude(rest) < Magnitude(b) /\ (rest # 0 => (rest < 0) = (a < 0))
          /\ a >= 0 /\ b > 0 => rest \in 0..(b - 1) /\ q = a \div b
      BY <1>4, <2>3
    <2> HIDE DEF rest
    <2> DEFINE low == q % M
               high == r % M
    <2>5. /\ low \in Value /\ high \in Value
          /\ (IF signed THEN Signed(low) ELSE low) = q /\ (IF signed THEN Signed(high) ELSE high) = rest
      <3>1. CASE signed
        <4>1. q \in (-Half)..(Half - 1)
          BY <1>2, <1>10, <2>4, <3>1
        <4>2. r \in (-Half)..(Half - 1)
          <5>1. Magnitude(r) < Half
            <6>1. Magnitude(r) \in Int /\ Magnitude(b) \in Int
              BY <1>3, <2>3, <2>4 DEF Magnitude
            <6> QED BY <1>2, <1>3, <2>3, <2>4, <3>1, <6>1
          <5> QED BY <1>2, <2>3, <2>4, <5>1 DEF Magnitude
        <4> QED BY <2>3, <3>1, <4>1, <4>2, SignedRest
      <3>2. CASE ~signed
        <4>1. a >= 0 /\ b > 0 /\ b <= M - 1 /\ a \in Int /\ b \in Int
          BY <1>3, <3>2
        <4>2. r \in 0..(M - 1)
          BY <1>2, <2>3, <2>4, <4>1
        <4>3. q >= 0
          <5>1. q * b >= 0 - (b - 1) /\ a = q * b + rest /\ rest \in 0..(b - 1)
            <6> DEFINE c == q * b
            <6>1. c \in Int /\ a = c + rest /\ rest \in 0..(b - 1)
              BY <2>4, <4>1
            <6> HIDE DEF c
            <6>2. c >= 0 - (b - 1)
              BY <4>1, <6>1
            <6> QED BY <6>1, <6>2 DEF c
          <5> SUFFICES ASSUME q <= -1 PROVE FALSE
            BY <2>4
          <5>2. q * b <= (-1) * b
            BY <2>4, <4>1
          <5> DEFINE c == q * b
          <5>3. c \in Int /\ c >= 0 - (b - 1) /\ c <= -b
            BY <2>4, <4>1, <5>1, <5>2
          <5> HIDE DEF c
          <5> QED BY <4>1, <5>3
        <4>4. q \in 0..(M - 1)
          BY <1>2, <1>10, <2>4, <3>2, <4>3
        <4>5. q % M = q /\ r % M = r
          <5>1. q = 0 * M + q /\ r = 0 * M + r /\ 0 \in Int /\ q \in Int /\ r \in Int /\ M \in Nat \ {0}
            BY <1>2, <4>2, <4>4
          <5> QED BY <4>2, <4>4, <5>1, DivModIs
        <4> QED BY <2>3, <3>2, <4>2, <4>4, <4>5 DEF Value
      <3> QED BY <3>1, <3>2
    <2>6. both % M = low /\ both \div M = high
      <3>1. both = high * M + low /\ low \in 0..(M - 1) /\ high \in Int /\ M \in Nat \ {0}
        BY <1>2, <2>5 DEF both, Value
      <3> HIDE DEF low, high
      <3>2. both \in Int
        BY <2>5, <3>1
      <3> QED BY <3>1, <3>2, DivModIs
    <2> DEFINE Q == IF signed THEN Signed(out.res % M) ELSE out.res % M
               R == IF signed THEN Signed(out.res \div M) ELSE out.res \div M
    <2>7. Q = q /\ R = rest
      <3> HIDE DEF low, high
      <3> QED BY <2>1, <2>5, <2>6
    <2>8. a = Q * b + R /\ Magnitude(R) < Magnitude(b) /\ (R # 0 => (R < 0) = (a < 0))
      <3> HIDE DEF Q, R
      <3> QED BY <2>4, <2>7
    <2>9. DivisionLeaves(f, d, s, signed, out)
      <3>1. out.flags.v = FALSE
        BY <1>8, <2>1
      <3> QED BY <2>8, <3>1 DEF DivisionLeaves, a, b
    <2> QED BY <1>8, <2>1, <2>9 DEF out
  <1> QED BY <1>9, <1>10

\* A division leaves a quotient and a remainder, or the register.
LEMMA DivideAgrees ==
  ASSUME flags \in Ccr, NEW signed \in BOOLEAN, NEW d \in 0..(M * M - 1), NEW s \in Value, Divide(signed, d, s)
  PROVE  flags' \in Ccr /\ DivisionAgrees' /\ executed'.op \in {"DIVS", "DIVU"}
  <1> DEFINE out == Div(flags, d, s, signed)
             op == IF signed THEN "DIVS" ELSE "DIVU"
  <1>1. s # 0 /\ Executes(op, d, s, flags.x, out)
    BY DEF Divide
  <1>2. out.flags \in Ccr /\ DivisionLeaves(flags, d, s, signed, out)
    BY <1>1, DivIs
  <1> HIDE DEF out
  <1>3. /\ executed'.op = op /\ executed'.d = d /\ executed'.s = s
        /\ executed'.res = out.res /\ flags' = out.flags
    BY <1>1 DEF Executes
  <1>4. (op = "DIVS") = signed /\ op \in {"DIVS", "DIVU"}
    OBVIOUS
  <1> HIDE DEF op
  <1>5. DivisionAgrees'
    BY <1>2, <1>3, <1>4 DEF DivisionAgrees, DivisionLeaves
  <1> QED BY <1>2, <1>3, <1>4, <1>5

-----------------------------------------------------------------------------
\* A bit instruction changes one bit: numbers that differ in it.
LEMMA BitChange ==
  ASSUME NEW k \in 0..(W - 1), NEW h \in Int, NEW l \in 0..(Pow2[k] - 1), NEW b \in {0, 1}, NEW c \in {0, 1},
         NEW d \in Value, NEW e, d = (2 * h + b) * Pow2[k] + l, e = (2 * h + c) * Pow2[k] + l
  PROVE  /\ e \in Value
         /\ \A j \in 0..(W - 1) : j # k => BitOf(e, j) = BitOf(d, j)
         /\ BitOf(e, k) = (c = 1) /\ BitOf(d, k) = (b = 1)
  <1> DEFINE P == Pow2[k]
  <1>1. k \in Nat /\ P \in Nat \ {0} /\ l \in 0..(P - 1)
    BY Powers, Widths
  <1>2. /\ d = 2 * (h * P) + b * P + l /\ e = 2 * (h * P) + c * P + l
        /\ h * P \in Int /\ b * P \in {0, P} /\ c * P \in {0, P} /\ d \in Int /\ e \in Int
    <2>1. d \in Int
      BY Widths DEF Value
    <2> HIDE DEF P
    <2>2. d = (2 * h + b) * P + l /\ e = (2 * h + c) * P + l
      BY DEF P
    <2>3. (2 * h + b) * P = 2 * (h * P) + b * P /\ (2 * h + c) * P = 2 * (h * P) + c * P
      BY <1>1
    <2>4. h * P \in Int /\ b * P \in {0, P} /\ c * P \in {0, P} /\ e \in Int
      BY <1>1, <2>2
    <2> QED BY <2>1, <2>2, <2>3, <2>4
  <1>3. d \div P = 2 * h + b /\ e \div P = 2 * h + c
    <2> DEFINE m == 2 * h + b
               n == 2 * h + c
    <2>1. m \in Int /\ n \in Int /\ d = m * P + l /\ e = n * P + l
      OBVIOUS
    <2> HIDE DEF P, m, n
    <2>2. d \div P = m /\ e \div P = n
      BY <1>1, <1>2, <2>1, DivModIs
    <2> QED BY <2>2 DEF m, n
  <1>4. BitOf(e, k) = (c = 1) /\ BitOf(d, k) = (b = 1)
    <2>1. (2 * h + c) % 2 = c /\ (2 * h + b) % 2 = b
      OBVIOUS
    <2> QED BY <1>3, <2>1 DEF BitOf
  <1> DEFINE D == P * 2
  <1>5. D \in Nat \ {0} /\ d \div D = h /\ e \div D = h
    <2> DEFINE m == b * P + l
               n == c * P + l
    <2>1. D \in Nat \ {0} /\ m \in 0..(D - 1) /\ n \in 0..(D - 1)
      <3> HIDE DEF P
      <3> QED BY <1>1, <1>2
    <2>2. h * D = 2 * (h * P)
      <3> HIDE DEF P
      <3> QED BY <1>1
    <2>3. d = h * D + m /\ e = h * D + n
      <3> DEFINE x == h * P
                 y == h * D
                 u == b * P
                 w == c * P
      <3>1. x \in Int /\ y = 2 * x /\ d = 2 * x + u + l /\ e = 2 * x + w + l /\ u \in Int /\ w \in Int /\ l \in Int
        <4>1. l \in Int /\ P \in Int
          BY <1>1
        <4> HIDE DEF P, D
        <4>2. u \in Int /\ w \in Int
          BY <1>2, <4>1
        <4> QED BY <1>2, <2>2, <4>1, <4>2
      <3>2. m = u + l /\ n = w + l
        OBVIOUS
      <3> HIDE DEF x, y, u, w, m, n
      <3>3. d = y + m /\ e = y + n
        BY <3>1, <3>2
      <3> QED BY <3>3 DEF y
    <2> HIDE DEF P, D, m, n
    <2>4. d \div D = h
      BY <1>2, <2>1, <2>3, DivModIs
    <2>5. e \div D = h
      BY <1>2, <2>1, <2>3, DivModIs
    <2> QED BY <2>1, <2>4, <2>5
  <1>6. e \in Value
    <2> DEFINE K == Pow2[W - 1 - k]
               H == h * D
    <2>1. W - 1 - k \in Nat /\ k + 1 \in Nat /\ (k + 1) + (W - 1 - k) = W
      BY Widths
    <2>2. M = D * K /\ K \in Nat \ {0}
      <3>1. Pow2[k + 1] = 2 * P /\ K \in Nat \ {0}
        BY <1>1, <2>1, Powers
      <3>2. Pow2[(k + 1) + (W - 1 - k)] = Pow2[k + 1] * K
        BY <2>1, PowerOfSum
      <3>3. 2 * P = D
        <4> HIDE DEF P
        <4> QED BY <1>1
      <3>4. Pow2[W] = M
        BY Widths
      <3> QED BY <2>1, <3>1, <3>2, <3>3, <3>4
    <2> HIDE DEF K
    <2>3. H \in Int /\ H = 2 * (h * P)
      <3> HIDE DEF P
      <3> QED BY <1>1
    <2>4. d \in 0..(M - 1) /\ M \in Int
      BY Widths DEF Value
    <2>5. D = 2 * P
      <3> HIDE DEF P
      <3> QED BY <1>1
    <2> HIDE DEF P, D
    <2>6. h >= 0
      <3> SUFFICES ASSUME h <= -1 PROVE FALSE
        OBVIOUS
      <3>1. h * D <= (-1) * D
        BY <1>5
      <3>2. H <= -D
        BY <1>5, <3>1
      <3> HIDE DEF H
      <3> QED BY <1>1, <1>2, <2>3, <2>4, <2>5, <3>2
    <2>7. h <= K - 1
      <3> SUFFICES ASSUME h >= K PROVE FALSE
        BY <2>2
      <3>1. h * D >= D * K
        BY <1>5, <2>2
      <3>2. H >= M
        BY <2>2, <3>1
      <3> HIDE DEF H
      <3> QED BY <1>1, <1>2, <2>3, <2>4, <2>5, <3>2
    <2>8. H <= M - D /\ H >= 0
      <3>1. h * D <= (K - 1) * D /\ (K - 1) * D = D * K - D /\ h * D >= 0
        BY <1>5, <2>2, <2>6, <2>7
      <3> QED BY <2>2, <3>1
    <2> HIDE DEF H
    <2>9. e \in 0..(M - 1)
      BY <1>1, <1>2, <2>3, <2>4, <2>5, <2>8
    <2> QED BY <2>9 DEF Value
  <1>7. ASSUME NEW j \in 0..(W - 1), j # k PROVE BitOf(e, j) = BitOf(d, j)
    <2>1. CASE j > k
      <3> DEFINE R == Pow2[j - k - 1]
      <3>1. j - k - 1 \in Nat /\ k + 1 \in Nat /\ (k + 1) + (j - k - 1) = j
        BY <1>1, <2>1, Widths
      <3>2. Pow2[j] = D * R /\ R \in Nat \ {0}
        <4>1. Pow2[k + 1] = 2 * P /\ R \in Nat \ {0}
          BY <1>1, <3>1, Powers
        <4>2. Pow2[(k + 1) + (j - k - 1)] = Pow2[k + 1] * R
          BY <3>1, PowerOfSum
        <4>3. 2 * P = D
          <5> HIDE DEF P
          <5> QED BY <1>1
        <4> QED BY <3>1, <4>1, <4>2, <4>3
      <3> HIDE DEF R, D, P
      <3>3. (d \div D) \div R = d \div (D * R) /\ (e \div D) \div R = e \div (D * R)
        BY <1>2, <1>5, <3>2, DivTwice
      <3>4. d \div Pow2[j] = e \div Pow2[j]
        BY <1>5, <3>2, <3>3
      <3> QED BY <3>4 DEF BitOf
    <2>2. CASE j < k
      <3> DEFINE J == Pow2[j]
                 R == Pow2[k - j - 1]
      <3>1. j \in Nat /\ k - j - 1 \in Nat /\ j + 1 \in Nat /\ (j + 1) + (k - j - 1) = k
        BY <1>1, <2>2, Widths
      <3>2. P = (2 * J) * R /\ R \in Nat \ {0} /\ J \in Nat \ {0}
        <4>1. Pow2[j + 1] = 2 * J /\ R \in Nat \ {0} /\ J \in Nat \ {0}
          BY <3>1, Powers
        <4>2. Pow2[(j + 1) + (k - j - 1)] = Pow2[j + 1] * R
          BY <3>1, PowerOfSum
        <4> QED BY <3>1, <4>1, <4>2
      <3> HIDE DEF J, R, P
      <3> DEFINE q == d \div J
                 r == d % J
                 m == (c - b) * R
                 p == q + 2 * m
      <3>3. d = q * J + r /\ r \in 0..(J - 1) /\ q \in Int
        BY <1>2, <3>2, DivMod
      <3> HIDE DEF q, r
      <3>4. m \in Int /\ e = d + 2 * (m * J)
        <4>1. m \in Int
          BY <3>2
        <4>2. c * P - b * P = 2 * (((c - b) * R) * J)
          BY <3>2
        <4>3. e = d + (c * P - b * P)
          BY <1>2, <1>1
        <4> QED BY <4>1, <4>2, <4>3
      <3>5. p * J = q * J + 2 * (m * J) /\ p \in Int
        <4> HIDE DEF m
        <4> QED BY <3>2, <3>3, <3>4
      <3>6. e = p * J + r
        <4> DEFINE x == q * J
                   y == m * J
        <4>1. x \in Int /\ y \in Int /\ d = x + r /\ e = d + 2 * y /\ p * J = x + 2 * y
          <5> HIDE DEF m, p
          <5> QED BY <3>2, <3>3, <3>4, <3>5
        <4> HIDE DEF x, y, p
        <4> QED BY <3>3, <4>1
      <3>7. e \div J = p
        <4> HIDE DEF p
        <4> QED BY <1>2, <3>2, <3>3, <3>5, <3>6, DivModIs
      <3>8. p % 2 = q % 2
        <4> HIDE DEF m
        <4> QED BY <3>3, <3>4
      <3> QED BY <3>7, <3>8 DEF BitOf, J, q
    <2> QED BY <1>1, <1>7, <2>1, <2>2, Widths
  <1> QED BY <1>4, <1>6, <1>7

\* A number is what is above a bit, the bit, and what is below it.
LEMMA BitParts ==
  ASSUME NEW k \in 0..(W - 1), NEW d \in Value
  PROVE  \E h \in Int, b \in {0, 1}, l \in 0..(Pow2[k] - 1) :
            d = (2 * h + b) * Pow2[k] + l /\ BitOf(d, k) = (b = 1)
  <1> DEFINE P == Pow2[k]
             q == d \div P
             h == q \div 2
             b == q % 2
             l == d % P
  <1>1. P \in Nat \ {0} /\ d \in Int
    BY Powers, Widths DEF Value
  <1>2. BitOf(d, k) = (b = 1)
    BY DEF BitOf
  <1> HIDE DEF P
  <1>3. d = q * P + l /\ l \in 0..(P - 1) /\ q \in Int
    BY <1>1, DivMod
  <1> HIDE DEF q, l
  <1>4. q = 2 * h + b /\ h \in Int /\ b \in {0, 1}
    BY <1>3
  <1> HIDE DEF h, b
  <1>5. d = (2 * h + b) * P + l
    BY <1>3, <1>4
  <1> QED BY <1>2, <1>3, <1>4, <1>5 DEF P

\* A bit instruction tells its bit, and changes no other.
LEMMA BitOpAgrees ==
  ASSUME flags \in Ccr, NEW op \in {"BTST", "BCHG", "BCLR", "BSET"}, NEW d \in Value, NEW number \in Nat,
         BitOp(op, d, number)
  PROVE  flags' \in Ccr /\ BitsAgree' /\ executed'.op \in {"BTST", "BCHG", "BCLR", "BSET"}
  <1> DEFINE k == number % W
             P == Pow2[k]
             was == BitOf(d, k)
             r == CASE op = "BTST" -> d
                    [] op = "BCHG" -> IF was THEN d - P ELSE d + P
                    [] op = "BCLR" -> IF was THEN d - P ELSE d
                    [] op = "BSET" -> IF was THEN d ELSE d + P
             z == ~was
             g == [flags EXCEPT !.z = z]
             out == [res |-> r, flags |-> g]
  <1>1. Executes(op, d, number, flags.x, out)
    BY DEF BitOp
  <1>2. was \in BOOLEAN
    BY DEF BitOf
  <1>3. k \in 0..(W - 1)
    BY Widths, DivMod
  <1> HIDE DEF was, r, k
  <1>4. z \in BOOLEAN
    BY <1>2
  <1> HIDE DEF z
  <1>5. g \in Ccr /\ g.z = z /\ g.x = flags.x
    BY <1>4 DEF Ccr
  <1> HIDE DEF g
  <1>6. /\ executed'.op = op /\ executed'.d = d /\ executed'.s = number /\ executed'.x = flags.x
        /\ executed'.res = r /\ flags' = g
    BY <1>1 DEF Executes
  <1>7. PICK h \in Int, b \in {0, 1}, l \in 0..(P - 1) : d = (2 * h + b) * P + l /\ was = (b = 1)
    BY <1>3, BitParts DEF was
  <1> DEFINE c == CASE op = "BTST" -> b [] op = "BCHG" -> 1 - b [] op = "BCLR" -> 0 [] op = "BSET" -> 1
  <1>8. c \in {0, 1}
    OBVIOUS
  <1>9. r = (2 * h + c) * P + l
    <2>1. P \in Nat \ {0}
      BY <1>3, Powers, Widths
    <2> DEFINE a == 2 * h * P
    <2>2. \A i \in {0, 1} : (2 * h + i) * P + l = a + i * P + l
      <3> HIDE DEF P
      <3> QED BY <2>1
    <2>3. a \in Int
      <3> HIDE DEF P
      <3> QED BY <2>1
    <2>4. 0 * P = 0 /\ 1 * P = P
      <3> HIDE DEF P
      <3> QED BY <2>1
    <2>5. was <=> b = 1
      BY <1>7
    <2> HIDE DEF P, a
    <2>6. d = a + b * P + l /\ (2 * h + c) * P + l = a + c * P + l
      <3> HIDE DEF c
      <3> QED BY <1>7, <1>8, <2>2
    <2>7. l \in Int
      BY <1>7, <2>1
    <2>8. CASE b = 1
      <3>1. d = a + P + l /\ was
        BY <2>4, <2>5, <2>6, <2>8
      <3>2. CASE op = "BTST"
        BY <2>4, <2>6, <2>8, <3>1, <3>2 DEF r
      <3>3. CASE op = "BCHG"
        BY <2>1, <2>3, <2>4, <2>6, <2>7, <2>8, <3>1, <3>3 DEF r
      <3>4. CASE op = "BCLR"
        BY <2>1, <2>3, <2>4, <2>6, <2>7, <2>8, <3>1, <3>4 DEF r
      <3>5. CASE op = "BSET"
        BY <2>4, <2>6, <2>8, <3>1, <3>5 DEF r
      <3> QED BY <3>2, <3>3, <3>4, <3>5
    <2>9. CASE b = 0
      <3>1. d = a + l /\ ~was
        BY <2>3, <2>4, <2>5, <2>6, <2>7, <2>9
      <3>2. CASE op = "BTST"
        BY <2>4, <2>6, <2>9, <3>1, <3>2 DEF r
      <3>3. CASE op = "BCHG"
        BY <2>1, <2>3, <2>4, <2>6, <2>7, <2>9, <3>1, <3>3 DEF r
      <3>4. CASE op = "BCLR"
        BY <2>1, <2>3, <2>4, <2>6, <2>7, <2>9, <3>1, <3>4 DEF r
      <3>5. CASE op = "BSET"
        BY <2>1, <2>3, <2>4, <2>6, <2>7, <2>9, <3>1, <3>5 DEF r
      <3> QED BY <3>2, <3>3, <3>4, <3>5
    <2> QED BY <2>8, <2>9
  <1> DEFINE is == BitOf(r, k)
  <1>10. r \in Value /\ (\A j \in 0..(W - 1) : j # k => BitOf(r, j) = BitOf(d, j)) /\ is = (c = 1)
    <2> HIDE DEF c
    <2> QED BY <1>3, <1>7, <1>8, <1>9, BitChange
  <1> HIDE DEF P, is
  <1>11. CASE op = "BTST"
    <2>1. is = was
      BY <1>7, <1>10, <1>11
    <2> HIDE DEF c
    <2>2. BitsAgree'
      BY <1>5, <1>6, <1>10, <1>11, <2>1 DEF BitsAgree, k, was, is, z
    <2> QED BY <1>5, <1>6, <2>2
  <1>12. CASE op = "BCHG"
    <2>1. is = ~was
      <3>1. (b = 0 \/ b = 1) /\ c = 1 - b
        BY <1>12
      <3>2. (was <=> b = 1) /\ (is <=> c = 1) /\ was \in BOOLEAN /\ is \in BOOLEAN
        BY <1>2, <1>7, <1>10 DEF is, BitOf
      <3> HIDE DEF c
      <3> QED BY <3>1, <3>2
    <2> HIDE DEF c
    <2>2. BitsAgree'
      BY <1>5, <1>6, <1>10, <1>12, <2>1 DEF BitsAgree, k, was, is, z
    <2> QED BY <1>5, <1>6, <2>2
  <1>13. CASE op \in {"BCLR", "BSET"}
    <2>1. is = (op = "BSET")
      <3>1. c = IF op = "BSET" THEN 1 ELSE 0
        BY <1>13
      <3> HIDE DEF c
      <3> QED BY <1>10, <3>1
    <2> HIDE DEF c
    <2>2. BitsAgree'
      BY <1>5, <1>6, <1>10, <1>13, <2>1 DEF BitsAgree, k, was, is, z
    <2> QED BY <1>5, <1>6, <2>2
  <1> QED BY <1>11, <1>12, <1>13

-----------------------------------------------------------------------------
\* What a chain's flags say of the carry that goes on into the next word.
LEMMA CarryOfWhole ==
  ASSUME NEW op \in {"ADD", "SUB"}, NEW f \in Ccr, NEW U \in Nat \ {0},
         NEW d \in 0..(U - 1), NEW s \in 0..(U - 1), NEW r \in 0..(U - 1), Whole(op, d, s, r, U, f)
  PROVE  Joined(op, d, s, r, Bit(f.x), U) /\ f.z = (r = 0)
  <1> DEFINE natural == IF op = "ADD" THEN d + s ELSE d - s
             c == f.c
  <1>1. r = natural % U /\ c = (natural \notin 0..(U - 1)) /\ f.x = c /\ f.z = (r = 0)
    <2> HIDE DEF c
    <2> QED BY DEF Whole, c
  <1>2. natural \in Int
    OBVIOUS
  <1>3. CASE natural \in 0..(U - 1)
    <2>1. natural % U = natural
      <3> DEFINE n == natural
      <3>1. n \in Int /\ n = 0 * U + n /\ n \in 0..(U - 1)
        BY <1>2, <1>3
      <3> HIDE DEF n
      <3>2. n % U = n
        BY <3>1, DivModIs
      <3> QED BY <3>2 DEF n
    <2>2. r = natural /\ ~c /\ f.x = c
      BY <1>1, <1>3, <2>1
    <2>3. Bit(f.x) = 0 /\ 0 * U = 0
      BY <2>2 DEF Bit
    <2>4. Joined(op, d, s, r, 0, U)
      BY <2>2, <2>3 DEF Joined
    <2> QED BY <1>1, <2>3, <2>4
  <1>4. CASE natural \notin 0..(U - 1)
    <2>1. c /\ f.x = c
      BY <1>1, <1>4
    <2>2. Bit(f.x) = 1 /\ 1 * U = U
      BY <2>1 DEF Bit
    <2>3. CASE op = "ADD"
      <3> DEFINE n == d + s
                 t == n - U
      <3>1. n \in Int /\ t \in 0..(U - 1) /\ n = 1 * U + t
        BY <1>4, <2>3
      <3>2. r = n % U
        BY <1>1, <2>3
      <3> HIDE DEF n, t
      <3>3. r = t
        <4>1. n % U = t
          BY <3>1, DivModIs
        <4> QED BY <3>2, <4>1
      <3>4. n = r + 1 * U
        BY <3>1, <3>3
      <3>5. Joined(op, d, s, r, 1, U)
        BY <2>3, <3>4 DEF Joined, n
      <3> QED BY <1>1, <2>2, <3>5
    <2>4. CASE op = "SUB"
      <3> DEFINE n == d - s
                 t == n + U
                 k == -1
      <3>1. n \in Int /\ t \in 0..(U - 1) /\ n = k * U + t /\ k \in Int
        BY <1>4, <2>4
      <3>2. r = n % U
        BY <1>1, <2>4
      <3> HIDE DEF n, t, k
      <3>3. r = t
        <4>1. n % U = t
          BY <3>1, DivModIs
        <4> QED BY <3>2, <4>1
      <3>4. n = r - 1 * U
        BY <3>1, <3>3 DEF k
      <3>5. Joined(op, d, s, r, 1, U)
        BY <2>4, <3>4 DEF Joined, n
      <3> QED BY <1>1, <2>2, <3>5
    <2> QED BY <2>3, <2>4
  <1> QED BY <1>3, <1>4

\* The first word of a number.
LEMMA FirstWord ==
  ASSUME NEW op \in {"ADD", "SUB"}, NEW f \in Ccr, NEW d \in Value, NEW s \in Value
  PROVE  LET out == WordOf(op, f, d, s, FALSE) IN
         out.res \in Value /\ out.flags \in Ccr /\ Whole(op, d, s, out.res, M, out.flags)
  <1>1. PICK e \in BOOLEAN, U \in Nat \ {0}, o \in Nat : e = FALSE /\ U = 1 /\ o = 0
    <2>1. FALSE \in BOOLEAN /\ 1 \in Nat \ {0} /\ 0 \in Nat
      OBVIOUS
    <2> QED BY <2>1
  <1>0. o \in 0..(U - 1)
    BY <1>1
  <1> DEFINE out == WordOf(op, f, d, s, e)
             r == out.res
             g == out.flags
             base == U * M
  <1>2. Joined(op, o, o, o, Bit(e /\ f.x), U) /\ (e => f.z = (o = 0)) /\ (~e => o = 0)
    <2>1. ~e /\ Bit(e /\ f.x) = 0
      BY <1>1 DEF Bit
    <2>2. Joined(op, o, o, o, 0, U)
      BY <1>1 DEF Joined
    <2> QED BY <1>1, <2>1, <2>2
  <1>3. r \in Value /\ g \in Ccr /\ Whole(op, o + d * U, o + s * U, o + r * U, base, g)
    <2> HIDE DEF out
    <2> QED BY <1>0, <1>2, WordJoins DEF out
  <1> HIDE DEF g, r, base
  <1>4. M \in Int /\ \A v \in Value : o + v * U = v
    BY <1>1, Widths DEF Value
  <1>5. base = M
    BY <1>1, <1>4 DEF base
  <1>6. Whole(op, d, s, r, M, g)
    <2>1. o + d * U = d /\ o + s * U = s /\ o + r * U = r
      BY <1>3, <1>4
    <2> QED BY <1>3, <1>5, <2>1
  <1>7. out = WordOf(op, f, d, s, FALSE)
    BY <1>1
  <1> HIDE DEF out
  <1> QED BY <1>3, <1>6, <1>7 DEF g, r

\* The word after it.
LEMMA NextWord ==
  ASSUME NEW op \in {"ADD", "SUB"}, NEW f \in Ccr, NEW d \in Value, NEW s \in Value, NEW U \in Nat \ {0},
         NEW dLow \in 0..(U - 1), NEW sLow \in 0..(U - 1), NEW rLow \in 0..(U - 1), Whole(op, dLow, sLow, rLow, U, f)
  PROVE  LET out == WordOf(op, f, d, s, TRUE)
             base == U * M IN
         /\ out.res \in Value /\ out.flags \in Ccr
         /\ dLow + d * U \in 0..(base - 1) /\ sLow + s * U \in 0..(base - 1) /\ rLow + out.res * U \in 0..(base - 1)
         /\ Whole(op, dLow + d * U, sLow + s * U, rLow + out.res * U, base, out.flags)
  <1>1. PICK e \in BOOLEAN : e = TRUE
    OBVIOUS
  <1> DEFINE q == Bit(e /\ f.x)
             out == WordOf(op, f, d, s, e)
             base == U * M
  <1>2. q = Bit(f.x)
    BY <1>1 DEF Bit
  <1>3. Joined(op, dLow, sLow, rLow, q, U) /\ (e => f.z = (rLow = 0)) /\ (~e => rLow = 0)
    <2> HIDE DEF q
    <2> QED BY <1>1, <1>2, CarryOfWhole
  <1>4. /\ out.res \in Value /\ out.flags \in Ccr
        /\ dLow + d * U \in 0..(base - 1) /\ sLow + s * U \in 0..(base - 1) /\ rLow + out.res * U \in 0..(base - 1)
        /\ Whole(op, dLow + d * U, sLow + s * U, rLow + out.res * U, base, out.flags)
    <2> HIDE DEF out, base
    <2> QED BY <1>3, WordJoins DEF out, base
  <1>5. out = WordOf(op, f, d, s, TRUE)
    BY <1>1
  <1> HIDE DEF out
  <1> QED BY <1>4, <1>5

-----------------------------------------------------------------------------
\* A chain has the words of an ADD or a SUB, and its numbers no more bits.
ChainTyped ==
    /\ chain.op \in {"none", "ADD", "SUB"} /\ chain.words \in Nat
    /\ LET base == Pow2[W * chain.words] IN
       chain.words > 0 =>
          /\ chain.op # "none"
          /\ chain.d \in 0..(base - 1) /\ chain.s \in 0..(base - 1) /\ chain.r \in 0..(base - 1)

\* The inductive invariant.
AluIInv == AluInv /\ ChainTyped

\* A chain whose flags are those of the whole.
LEMMA ChainIs ==
  ASSUME NEW op \in {"ADD", "SUB"}, NEW n \in Nat \ {0}, NEW base, base = Pow2[W * n],
         NEW d \in 0..(base - 1), NEW s \in 0..(base - 1), NEW r \in 0..(base - 1),
         chain' = [op |-> op, d |-> d, s |-> s, r |-> r, words |-> n], flags' \in Ccr, Whole(op, d, s, r, base, flags')
  PROVE  AluTypeOK' /\ ChainTyped' /\ ChainFlagsOfTheWhole'
  <1>1. chain'.op = op /\ chain'.d = d /\ chain'.s = s /\ chain'.r = r /\ chain'.words = n
    OBVIOUS
  <1>2. n \in Nat /\ n > 0 /\ op # "none" /\ op \in {"none", "ADD", "SUB"}
    OBVIOUS
  <1> DEFINE g == flags'
  <1>3. Whole(op, d, s, r, base, g) /\ base = Pow2[W * n]
    OBVIOUS
  <1>4. /\ r = (IF op = "ADD" THEN d + s ELSE d - s) % base
        /\ g.c = ((IF op = "ADD" THEN d + s ELSE d - s) \notin 0..(base - 1)) /\ g.x = g.c
        /\ LET top == base \div 2
               signed(v) == IF v >= top THEN v - base ELSE v
               exact == IF op = "ADD" THEN signed(d) + signed(s) ELSE signed(d) - signed(s)
           IN g.v = (exact \notin (-top)..(top - 1)) /\ g.z = (r = 0) /\ g.n = (r >= top)
    BY <1>3, Zenon DEF Whole
  <1>5. ChainTyped'
    BY <1>1, <1>2, <1>3, Zenon DEF ChainTyped
  <1>6. AluTypeOK'
    BY <1>1, <1>2 DEF AluTypeOK
  <1>7. ChainFlagsOfTheWhole'
    BY <1>1, <1>3, <1>4, Zenon DEF ChainFlagsOfTheWhole
  <1> QED BY <1>5, <1>6, <1>7

\* No chain.
LEMMA NoChainIs ==
  ASSUME chain' = NoChain, flags' \in Ccr
  PROVE  AluTypeOK' /\ ChainTyped' /\ ChainFlagsOfTheWhole'
  <1>1. chain'.op = "none" /\ chain'.words = 0 /\ 0 \in Nat /\ ~(0 > 0)
    BY DEF NoChain
  <1>2. ChainTyped'
    BY <1>1, Zenon DEF ChainTyped
  <1>3. AluTypeOK'
    BY <1>1 DEF AluTypeOK
  <1>4. ChainFlagsOfTheWhole'
    BY <1>1, Zenon DEF ChainFlagsOfTheWhole
  <1> QED BY <1>2, <1>3, <1>4

\* What the other predicates say of an instruction that is not theirs.
LEMMA OtherInstructions ==
  /\ executed'.op # "CMP" => ConditionsDecideOrder'
  /\ executed'.op \notin {"ASL", "LSL", "ASR", "LSR", "ROL", "ROR", "ROXL", "ROXR"} => ShiftsAgree'
  /\ executed'.op \notin {"ABCD", "SBCD"} => DecimalAgrees'
  /\ executed'.op \notin {"DIVS", "DIVU"} => DivisionAgrees'
  /\ executed'.op \notin {"BTST", "BCHG", "BCLR", "BSET"} => BitsAgree'
  <1>1. executed'.op # "CMP" => ConditionsDecideOrder'
    BY Zenon DEF ConditionsDecideOrder
  <1>2. executed'.op \notin {"ASL", "LSL", "ASR", "LSR", "ROL", "ROR", "ROXL", "ROXR"} => ShiftsAgree'
    <2> DEFINE o == executed'.op
    <2>1. SUFFICES ASSUME o \notin {"ASL", "LSL", "ASR", "LSR", "ROL", "ROR", "ROXL", "ROXR"} PROVE ShiftsAgree'
      OBVIOUS
    <2>2. /\ o \notin {"ASL", "LSL"} /\ o # "ASL" /\ o # "LSR" /\ o # "ASR" /\ o # "ROL" /\ o # "ROR"
          /\ o # "ROXL" /\ o # "ROXR"
      BY <2>1
    <2> QED BY <2>2, Zenon DEF ShiftsAgree
  <1>3. executed'.op \notin {"ABCD", "SBCD"} => DecimalAgrees'
    BY Zenon DEF DecimalAgrees
  <1>4. executed'.op \notin {"DIVS", "DIVU"} => DivisionAgrees'
    BY Zenon DEF DivisionAgrees
  <1>5. executed'.op \notin {"BTST", "BCHG", "BCLR", "BSET"} => BitsAgree'
    BY Zenon DEF BitsAgree
  <1> QED BY <1>1, <1>2, <1>3, <1>4, <1>5

\* One more word has the type of a word.
LEMMA WordTyped ==
  ASSUME NEW op \in {"ADD", "SUB"}, NEW f \in Ccr, NEW d \in Value, NEW s \in Value
  PROVE  LET out == WordOf(op, f, d, s, TRUE) IN out.flags \in Ccr /\ out.res \in Value
  <1>1. PICK e \in BOOLEAN : e = TRUE
    OBVIOUS
  <1>2. DoAdd(f, d, s, e).flags \in Ccr /\ DoAdd(f, d, s, e).res \in Value
    BY AddIs
  <1>3. DoSub(f, d, s, e, e).flags \in Ccr /\ DoSub(f, d, s, e, e).res \in Value
    BY SubIs
  <1>4. CASE op = "ADD"
    BY <1>1, <1>2, <1>4 DEF WordOf
  <1>5. CASE op = "SUB"
    BY <1>1, <1>3, <1>5 DEF WordOf
  <1> QED BY <1>4, <1>5

\* The first word of a chain.
LEMMA ChainBegins ==
  ASSUME flags \in Ccr, NEW op \in {"ADD", "SUB"}, NEW d \in Value, NEW s \in Value,
         NEW out, out = WordOf(op, flags, d, s, FALSE), flags' = out.flags, BeginsChain(op, d, s, out.res)
  PROVE  AluTypeOK' /\ ChainTyped' /\ ChainFlagsOfTheWhole'
  <1> DEFINE r == out.res
  <1>1. r \in Value /\ flags' \in Ccr /\ Whole(op, d, s, r, M, flags')
    BY FirstWord
  <1>2. chain' = [op |-> op, d |-> d, s |-> s, r |-> r, words |-> 1]
    BY DEF BeginsChain
  <1> HIDE DEF r
  <1>3. M = Pow2[W * 1] /\ d \in 0..(M - 1) /\ s \in 0..(M - 1) /\ r \in 0..(M - 1) /\ 1 \in Nat \ {0}
    <2>1. W * 1 = W /\ Pow2[W] = M
      BY Widths
    <2>2. \A v \in Value : v \in 0..(M - 1)
      BY DEF Value
    <2> QED BY <1>1, <2>1, <2>2
  <1> DEFINE n == 1
  <1> HIDE DEF n
  <1>4. n \in Nat \ {0} /\ M = Pow2[W * n] /\ chain' = [op |-> op, d |-> d, s |-> s, r |-> r, words |-> n]
    BY <1>2, <1>3 DEF n
  <1> QED BY <1>1, <1>3, <1>4, ChainIs

\* One word more, or the end of a chain.
LEMMA ChainGoesOn ==
  ASSUME flags \in Ccr, ChainTyped, ChainFlagsOfTheWhole, chain.words > 0,
         NEW op \in {"ADD", "SUB"}, NEW d \in Value, NEW s \in Value,
         NEW out, out = WordOf(op, flags, d, s, TRUE), flags' = out.flags, Continues(op, d, s, out.res)
  PROVE  AluTypeOK' /\ ChainTyped' /\ ChainFlagsOfTheWhole'
  <1> DEFINE n == chain.words
             dLow == chain.d
             sLow == chain.s
             rLow == chain.r
             U == Pow2[W * n]
             r == out.res
             base == U * M
             D == dLow + d * U
             S == sLow + s * U
             R == rLow + r * U
             m == n + 1
  <1>1. CASE chain.op = op
    <2>1. n \in Nat \ {0} /\ dLow \in 0..(U - 1) /\ sLow \in 0..(U - 1) /\ rLow \in 0..(U - 1)
      <3>1. n \in Nat /\ n > 0
        BY DEF ChainTyped
      <3>2. dLow \in 0..(U - 1) /\ sLow \in 0..(U - 1) /\ rLow \in 0..(U - 1)
        BY Zenon DEF ChainTyped
      <3> HIDE DEF n
      <3>3. n \in Nat \ {0}
        BY <3>1
      <3> QED BY <3>2, <3>3
    <2>2. Whole(op, dLow, sLow, rLow, U, flags)
      BY <1>1, Zenon DEF ChainFlagsOfTheWhole, Whole
    <2>3. U \in Nat \ {0} /\ base = Pow2[W * m] /\ m \in Nat \ {0}
      <3> HIDE DEF n
      <3>1. W * n \in Nat /\ W \in Nat /\ W * m = W * n + W /\ Pow2[W] = M /\ m \in Nat \ {0}
        BY <2>1, Widths
      <3>2. Pow2[W * n + W] = Pow2[W * n] * Pow2[W]
        BY <3>1, PowerOfSum
      <3>3. Pow2[W * n] \in Nat \ {0}
        BY <3>1, Powers
      <3> QED BY <3>1, <3>2, <3>3
    <2>4. chain' = [op |-> op, d |-> D, s |-> S, r |-> R, words |-> m]
      BY <1>1 DEF Continues
    <2> HIDE DEF n, dLow, sLow, rLow, U, m
    <2>5. /\ r \in Value /\ flags' \in Ccr
          /\ D \in 0..(base - 1) /\ S \in 0..(base - 1) /\ R \in 0..(base - 1)
          /\ Whole(op, D, S, R, base, flags')
      BY <2>1, <2>2, <2>3, NextWord
    <2> HIDE DEF D, S, R, base
    <2> QED BY <2>3, <2>4, <2>5, ChainIs
  <1>2. CASE chain.op # op
    <2>1. chain' = NoChain
      BY <1>2 DEF Continues
    <2>2. flags' \in Ccr
      BY WordTyped
    <2> QED BY <2>1, <2>2, NoChainIs
  <1> QED BY <1>1, <1>2

\* An addition or a subtraction.
LEMMA AddSubKeeps ==
  ASSUME AluIInv, NEW op \in {"ADD", "SUB"}, NEW d \in Value, NEW s \in Value, AddSub(op, d, s)
  PROVE  AluIInv'
  <1> DEFINE out == WordOf(op, flags, d, s, FALSE)
  <1>1. flags \in Ccr
    BY DEF AluIInv, AluInv, AluTypeOK
  <1>2. Executes(op, d, s, flags.x, out) /\ BeginsChain(op, d, s, out.res)
    BY DEF AddSub, WordOf
  <1> HIDE DEF out
  <1>3. executed'.op = op /\ flags' = out.flags
    BY <1>2 DEF Executes
  <1>4. AluTypeOK' /\ ChainTyped' /\ ChainFlagsOfTheWhole'
    BY <1>1, <1>2, <1>3, ChainBegins DEF out
  <1> QED BY <1>3, <1>4, OtherInstructions DEF AluIInv, AluInv

\* An addition or a subtraction with the carry of the word before.
LEMMA AddSubXKeeps ==
  ASSUME AluIInv, LongerChain, NEW op \in {"ADD", "SUB"}, NEW d \in Value, NEW s \in Value, AddSubX(op, d, s)
  PROVE  AluIInv'
  <1> DEFINE out == WordOf(op, flags, d, s, TRUE)
             o == IF op = "ADD" THEN "ADDX" ELSE "SUBX"
  <1>1. flags \in Ccr /\ ChainTyped /\ ChainFlagsOfTheWhole /\ chain.words > 0
    <2>1. chain.words > 0
      BY WidthAssumption DEF LongerChain
    <2> QED BY <2>1 DEF AluIInv, AluInv, AluTypeOK
  <1>2. Executes(o, d, s, flags.x, out) /\ Continues(op, d, s, out.res)
    BY DEF AddSubX, WordOf
  <1> HIDE DEF out
  <1>3. executed'.op = o /\ flags' = out.flags
    BY <1>2 DEF Executes
  <1>4. AluTypeOK' /\ ChainTyped' /\ ChainFlagsOfTheWhole'
    BY <1>1, <1>2, <1>3, ChainGoesOn DEF out
  <1> QED BY <1>3, <1>4, OtherInstructions DEF AluIInv, AluInv

\* A negation.
LEMMA NegKeeps ==
  ASSUME AluIInv, NEW s \in Value, Neg(s)
  PROVE  AluIInv'
  <1>1. PICK op \in {"ADD", "SUB"}, d \in Value : op = "SUB" /\ d = 0
    <2>1. 0 \in Value
      BY Widths DEF Value
    <2> QED BY <2>1
  <1> DEFINE out == WordOf(op, flags, d, s, FALSE)
  <1>2. flags \in Ccr
    BY DEF AluIInv, AluInv, AluTypeOK
  <1>3. Executes("NEG", d, s, flags.x, out) /\ BeginsChain(op, d, s, out.res)
    BY <1>1 DEF Neg, WordOf
  <1> HIDE DEF out
  <1>4. executed'.op = "NEG" /\ flags' = out.flags
    BY <1>3 DEF Executes
  <1>5. AluTypeOK' /\ ChainTyped' /\ ChainFlagsOfTheWhole'
    BY <1>2, <1>3, <1>4, ChainBegins DEF out
  <1> QED BY <1>4, <1>5, OtherInstructions DEF AluIInv, AluInv

\* A negation with the borrow of the word before.
LEMMA NegXKeeps ==
  ASSUME AluIInv, LongerChain, NEW s \in Value, NegX(s)
  PROVE  AluIInv'
  <1>1. PICK op \in {"ADD", "SUB"}, d \in Value : op = "SUB" /\ d = 0
    <2>1. 0 \in Value
      BY Widths DEF Value
    <2> QED BY <2>1
  <1> DEFINE out == WordOf(op, flags, d, s, TRUE)
  <1>2. flags \in Ccr /\ ChainTyped /\ ChainFlagsOfTheWhole /\ chain.words > 0
    <2>1. chain.words > 0
      BY WidthAssumption DEF LongerChain
    <2> QED BY <2>1 DEF AluIInv, AluInv, AluTypeOK
  <1>3. Executes("NEGX", d, s, flags.x, out) /\ Continues(op, d, s, out.res)
    BY <1>1 DEF NegX, WordOf
  <1> HIDE DEF out
  <1>4. executed'.op = "NEGX" /\ flags' = out.flags
    BY <1>3 DEF Executes
  <1>5. AluTypeOK' /\ ChainTyped' /\ ChainFlagsOfTheWhole'
    BY <1>2, <1>3, <1>4, ChainGoesOn DEF out
  <1> QED BY <1>4, <1>5, OtherInstructions DEF AluIInv, AluInv

\* A comparison.
LEMMA CmpKeeps ==
  ASSUME AluIInv, NEW d \in Value, NEW s \in Value, Cmp(d, s)
  PROVE  AluIInv'
  <1> DEFINE out == DoSub(flags, d, s, FALSE, FALSE)
             f == flags
             g == flags'
  <1>1. f \in Ccr
    BY DEF AluIInv, AluInv, AluTypeOK
  <1>2. Executes("CMP", d, s, f.x, out) /\ chain' = NoChain
    BY DEF Cmp
  <1>3. out.flags \in Ccr /\ out.flags.x = f.x /\ Decided(d, s, out.flags)
    BY <1>1, ComparisonDecides
  <1> HIDE DEF out
  <1>4. executed'.op = "CMP" /\ executed'.d = d /\ executed'.s = s /\ executed'.x = f.x /\ g = out.flags
    BY <1>2 DEF Executes
  <1>5. g \in Ccr /\ g.x = executed'.x /\ Decided(d, s, g)
    BY <1>3, <1>4
  <1>6. Decided(executed'.d, executed'.s, g)
    BY <1>4, <1>5
  <1>7. ConditionsDecideOrder'
    BY <1>5, <1>6, Zenon DEF ConditionsDecideOrder, Decided
  <1>8. AluTypeOK' /\ ChainTyped' /\ ChainFlagsOfTheWhole'
    BY <1>2, <1>5, NoChainIs
  <1> QED BY <1>4, <1>7, <1>8, OtherInstructions DEF AluIInv, AluInv

\* A move.
LEMMA LogicKeeps ==
  ASSUME AluIInv, NEW r \in Value, Logic(r)
  PROVE  AluIInv'
  <1> DEFINE out == [res |-> r, flags |-> LogicFlags(flags, r)]
  <1>1. flags \in Ccr
    BY DEF AluIInv, AluInv, AluTypeOK
  <1>2. Executes("MOVE", r, r, flags.x, out) /\ chain' = NoChain
    BY DEF Logic
  <1>3. out.flags \in Ccr
    BY <1>1, LogicFlagsIs
  <1> HIDE DEF out
  <1>4. executed'.op = "MOVE" /\ flags' \in Ccr
    BY <1>2, <1>3 DEF Executes
  <1>5. AluTypeOK' /\ ChainTyped' /\ ChainFlagsOfTheWhole'
    BY <1>2, <1>4, NoChainIs
  <1> QED BY <1>4, <1>5, OtherInstructions DEF AluIInv, AluInv

\* A product.
LEMMA MultiplyKeeps ==
  ASSUME AluIInv, NEW signed \in BOOLEAN, NEW d \in Value, NEW s \in Value, Multiply(signed, d, s)
  PROVE  AluIInv'
  <1> DEFINE out == Mul(flags, d, s, signed)
             op == IF signed THEN "MULS" ELSE "MULU"
             r == (IF signed THEN Signed(d) * Signed(s) ELSE d * s) % (M * M)
             n == r >= M * Half
             z == r = 0
  <1>1. flags \in Ccr
    BY DEF AluIInv, AluInv, AluTypeOK
  <1>2. Executes(op, d, s, flags.x, out) /\ chain' = NoChain
    BY DEF Multiply
  <1>3. out = [res |-> r, flags |-> [flags EXCEPT !.n = n, !.z = z, !.v = FALSE, !.c = FALSE]]
    BY DEF Mul
  <1>4. n \in BOOLEAN /\ z \in BOOLEAN
    OBVIOUS
  <1> HIDE DEF n, z, r, out
  <1>5. out.flags \in Ccr
    BY <1>1, <1>3, <1>4 DEF Ccr
  <1>6. executed'.op = op /\ flags' \in Ccr
    BY <1>2, <1>5 DEF Executes
  <1>7. AluTypeOK' /\ ChainTyped' /\ ChainFlagsOfTheWhole'
    BY <1>2, <1>6, NoChainIs
  <1> QED BY <1>6, <1>7, OtherInstructions DEF AluIInv, AluInv

\* Flags that are loaded.
LEMMA MoveToCcrKeeps ==
  ASSUME AluIInv, NEW f \in Ccr, MoveToCcr(f)
  PROVE  AluIInv'
  <1>1. flags' \in Ccr /\ chain' = NoChain /\ executed'.op = "MOVE CCR"
    BY DEF MoveToCcr
  <1>2. AluTypeOK' /\ ChainTyped' /\ ChainFlagsOfTheWhole'
    BY <1>1, NoChainIs
  <1> QED BY <1>1, <1>2, OtherInstructions DEF AluIInv, AluInv

\* An instruction with a predicate of its own ends the chain.
LEMMA OthersKeep ==
  ASSUME flags' \in Ccr, chain' = NoChain,
         \/ executed'.op \in {"ASL", "LSL", "ASR", "LSR", "ROL", "ROR", "ROXL", "ROXR"} /\ ShiftsAgree'
         \/ executed'.op \in {"ABCD", "SBCD"} /\ DecimalAgrees'
         \/ executed'.op \in {"DIVS", "DIVU"} /\ DivisionAgrees'
         \/ executed'.op \in {"BTST", "BCHG", "BCLR", "BSET"} /\ BitsAgree'
  PROVE  AluIInv'
  <1>1. AluTypeOK' /\ ChainTyped' /\ ChainFlagsOfTheWhole'
    BY NoChainIs
  <1> QED BY <1>1, OtherInstructions DEF AluIInv, AluInv

\* Each step keeps the invariant.
LEMMA AluStepKeeps ==
  ASSUME AluIInv, AluStep
  PROVE  AluIInv'
  <1>1. flags \in Ccr
    BY DEF AluIInv, AluInv, AluTypeOK
  <1>2. ASSUME NEW op \in {"ADD", "SUB"}, NEW d \in Value, NEW s \in Value,
               AddSub(op, d, s) \/ (LongerChain /\ AddSubX(op, d, s))
        PROVE  AluIInv'
    BY <1>2, AddSubKeeps, AddSubXKeeps
  <1>3. ASSUME NEW s \in Value, Neg(s) \/ (LongerChain /\ NegX(s)) PROVE AluIInv'
    BY <1>3, NegKeeps, NegXKeeps
  <1>4. ASSUME NEW op \in {"BTST", "BCHG", "BCLR", "BSET"}, NEW d \in Value, NEW number \in 0..(2 * W),
               BitOp(op, d, number)
        PROVE  AluIInv'
    <2>1. number \in Nat
      OBVIOUS
    <2>2. flags' \in Ccr /\ BitsAgree' /\ executed'.op \in {"BTST", "BCHG", "BCLR", "BSET"}
      BY <1>1, <1>4, <2>1, BitOpAgrees
    <2>3. chain' = NoChain
      BY <1>4 DEF BitOp
    <2> QED BY <2>2, <2>3, OthersKeep
  <1>5. ASSUME NEW kind \in Kinds, NEW left \in BOOLEAN, NEW d \in Value, NEW count \in 0..(W + 2),
               Shift(kind, left, d, count)
        PROVE  AluIInv'
    <2>1. count \in Nat
      OBVIOUS
    <2>2. /\ flags' \in Ccr /\ ShiftsAgree'
          /\ executed'.op \in {"ASL", "LSL", "ASR", "LSR", "ROL", "ROR", "ROXL", "ROXR"}
      BY <1>1, <1>5, <2>1, ShiftAgrees
    <2>3. chain' = NoChain
      BY <1>5 DEF Shift
    <2> QED BY <2>2, <2>3, OthersKeep
  <1>6. ASSUME NEW op \in {"ABCD", "SBCD"}, NEW d \in Decimal, NEW s \in Decimal, Bcd(op, d, s) PROVE AluIInv'
    <2>1. flags' \in Ccr /\ DecimalAgrees' /\ executed'.op \in {"ABCD", "SBCD"}
      BY <1>1, <1>6, BcdAgrees
    <2>2. chain' = NoChain
      BY <1>6 DEF Bcd
    <2> QED BY <2>1, <2>2, OthersKeep
  <1>7. ASSUME NEW signed \in BOOLEAN, NEW d \in 0..(M * M - 1), NEW s \in Value, Divide(signed, d, s)
        PROVE  AluIInv'
    <2>1. flags' \in Ccr /\ DivisionAgrees' /\ executed'.op \in {"DIVS", "DIVU"}
      BY <1>1, <1>7, DivideAgrees
    <2>2. chain' = NoChain
      BY <1>7 DEF Divide
    <2> QED BY <2>1, <2>2, OthersKeep
  <1>8. ASSUME NEW d \in Value, NEW s \in Value, Cmp(d, s) PROVE AluIInv'
    BY <1>8, CmpKeeps
  <1>9. ASSUME NEW r \in Value, Logic(r) PROVE AluIInv'
    BY <1>9, LogicKeeps
  <1>10. ASSUME NEW signed \in BOOLEAN, NEW d \in Value, NEW s \in Value, Multiply(signed, d, s) PROVE AluIInv'
    BY <1>10, MultiplyKeeps
  <1> QED BY <1>2, <1>3, <1>4, <1>5, <1>6, <1>7, <1>8, <1>9, <1>10, Zenon DEF AluStep

\* The arithmetic instructions agree with arithmetic, for operands of any
\* width and chains of any length: ADD, ADDX, SUB, SUBX, NEG and NEGX leave the
\* flags of the whole number, a comparison decides every order, shifts and
\* rotates are the products, quotients and periods they stand for, decimal sums
\* are those of the digits, divisions leave a remainder below the divisor, and
\* a bit instruction changes its bit alone (exec.rs).
THEOREM AluInvariant == AluSpec => []AluInv
  <1>1. AluInit => AluIInv
    <2> SUFFICES ASSUME AluInit PROVE AluIInv
      OBVIOUS
    <2>1. flags \in Ccr
      BY DEF AluInit, Ccr
    <2>2. chain.op = "none" /\ chain.words = 0 /\ executed.op = "none" /\ 0 \in Nat /\ ~(0 > 0)
      BY DEF AluInit, NoChain
    <2>3. ChainTyped
      BY <2>2, Zenon DEF ChainTyped
    <2>4. AluTypeOK /\ ChainFlagsOfTheWhole
      <3>1. ChainFlagsOfTheWhole
        BY <2>2, Zenon DEF ChainFlagsOfTheWhole
      <3> QED BY <2>1, <2>2, <3>1 DEF AluTypeOK
    <2>5. ConditionsDecideOrder
      BY <2>2 DEF ConditionsDecideOrder
    <2>6. ShiftsAgree
      BY <2>2 DEF ShiftsAgree
    <2>7. DecimalAgrees
      BY <2>2 DEF DecimalAgrees
    <2>8. DivisionAgrees
      BY <2>2 DEF DivisionAgrees
    <2>9. BitsAgree
      BY <2>2 DEF BitsAgree
    <2> QED BY <2>3, <2>4, <2>5, <2>6, <2>7, <2>8, <2>9 DEF AluIInv, AluInv
  <1>2. AluIInv /\ [AluNext]_aluVars => AluIInv'
    <2> SUFFICES ASSUME AluIInv, [AluNext]_aluVars PROVE AluIInv'
      OBVIOUS
    <2>1. ASSUME NEW x \in BOOLEAN, NEW z \in BOOLEAN,
                 MoveToCcr([x |-> x, n |-> FALSE, z |-> z, v |-> FALSE, c |-> FALSE])
          PROVE  AluIInv'
      <3>1. [x |-> x, n |-> FALSE, z |-> z, v |-> FALSE, c |-> FALSE] \in Ccr
        BY DEF Ccr
      <3> QED BY <2>1, <3>1, MoveToCcrKeeps
    <2>2. CASE AluStep
      BY <2>2, AluStepKeeps
    <2>3. CASE UNCHANGED aluVars
      BY <2>3 DEF aluVars, AluIInv, AluInv, AluTypeOK, ChainTyped, ChainFlagsOfTheWhole, ConditionsDecideOrder,
         ShiftsAgree, DecimalAgrees, DivisionAgrees, BitsAgree
    <2> QED BY <2>1, <2>2, <2>3 DEF AluNext
  <1>3. AluIInv => AluInv
    BY DEF AluIInv
  <1> QED BY <1>1, <1>2, <1>3, PTL DEF AluSpec
=============================================================================
