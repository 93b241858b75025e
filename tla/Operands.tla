------------------------------ MODULE Operands ------------------------------
(***************************************************************************)
(* Operands of the SCC68070's instructions (ea.rs and the data movement of *)
(* exec.rs) where they are hardest to get right: on a stack addressed by   *)
(* postincrement and predecrement with operands of three sizes, by MOVEM   *)
(* and by LINK and UNLK. A value is its bytes, the highest first.          *)
(***************************************************************************)
EXTENDS Integers, Sequences

CONSTANTS
    Base,       \* values of a byte
    Bottom,     \* where A7 starts; the stack grows down to address 0
    Words,      \* values loaded into registers, each of four bytes
    Displacement \* bytes LINK reserves

ASSUME StackAssumption ==
    /\ Base \in Nat \ {0} /\ Base % 2 = 0
    /\ Bottom \in 0..(Base ^ 4 - 1) /\ Bottom % 2 = 0
    /\ Displacement \in Nat /\ Displacement % 2 = 0
    /\ Words \subseteq [1..4 -> 0..(Base - 1)]

Byte == 0..(Base - 1)
Long == [1..4 -> Byte]
Address == 0..Bottom

VARIABLES
    d0, a0,     \* two registers: data, and an address or anything
    sp,
    ram,     \* address -> byte
    pushed      \* history: what is on the stack, the last pushed at the end

operandVars == <<d0, a0, sp, ram, pushed>>

Uppermost == pushed[Len(pushed)]

Sizes == {"byte", "word", "long"}
Bytes(size) == CASE size = "byte" -> 1 [] size = "word" -> 2 [] OTHER -> 4
\* `step_size` for A7: it stays even.
StepA7(size) == IF size = "byte" THEN 2 ELSE Bytes(size)

Low(v, n) == [i \in 1..n |-> v[4 - n + i]]
\* A write to Dn keeps the bytes above the operand.
Merge(old, v) == [i \in 1..4 |-> IF i > 4 - Len(v) THEN v[i - 4 + Len(v)] ELSE old[i]]
\* `sext`, to a whole register.
Sext(v) == [i \in 1..4 |-> IF i > 4 - Len(v) THEN v[i - 4 + Len(v)]
                           ELSE IF v[1] >= Base \div 2 THEN Base - 1 ELSE 0]

Read(addr, n) == [i \in 1..n |-> ram[addr + i - 1]]
Write(mem, addr, v) ==
    [x \in DOMAIN mem |-> IF x \in addr..(addr + Len(v) - 1) THEN v[x - addr + 1] ELSE mem[x]]

\* An address as a register value.
AsLong(addr) ==
    LET b == addr \div Base  c == b \div Base  d == c \div Base IN <<d % Base, c % Base, b % Base, addr % Base>>

-----------------------------------------------------------------------------
\* MOVE.size D0,-(A7).
PushD(size) ==
    LET to == sp - StepA7(size)  v == Low(d0, Bytes(size)) IN
    /\ to >= 0
    /\ sp' = to
    /\ ram' = Write(ram, to, v)
    /\ pushed' = Append(pushed, [kind |-> size, at |-> to, value |-> v])
    /\ UNCHANGED <<d0, a0>>

\* MOVE.size (A7)+,D0.
PopD(size) ==
    /\ pushed # <<>> /\ Uppermost.kind = size
    /\ d0' = Merge(d0, Read(sp, Bytes(size)))
    /\ sp' = sp + StepA7(size)
    /\ pushed' = SubSeq(pushed, 1, Len(pushed) - 1)
    /\ UNCHANGED <<a0, ram>>

\* MOVEQ, LEA and the like: a register gets a value.
Load(v) == d0' = v /\ UNCHANGED <<a0, sp, ram, pushed>>
LoadA(v) == a0' = v /\ UNCHANGED <<d0, sp, ram, pushed>>

\* MOVEM list,-(A7) for a list of D0, A0 and A7, in the order they are written.
\* A7 is stored as it was before.
RegisterLists == {<<"a0", "d0">>, <<"sp", "d0">>, <<"sp", "a0", "d0">>}

Stored(reg, size) == Low(CASE reg = "d0" -> d0 [] reg = "a0" -> a0 [] OTHER -> AsLong(sp), Bytes(size))

MovemPush(size, list) ==
    LET n == Bytes(size)
        at(i) == sp - i * n
        write[i \in 0..Len(list)] ==
            IF i = 0 THEN ram ELSE Write(write[i - 1], at(i), Stored(list[i], size))
        saved == [d0 |-> d0, a0 |-> a0]
    IN /\ size # "byte" /\ at(Len(list)) >= 0
       /\ sp' = at(Len(list))
       /\ ram' = write[Len(list)]
       /\ pushed' = Append(pushed, [kind |-> "movem", at |-> sp', size |-> size, list |-> list,
                                    saved |-> saved, sp |-> sp])
       /\ UNCHANGED <<d0, a0>>

\* Mutant: a list is read in the order it was written.
OperandsBelowAsWritten(list, k) == k - 1

\* The operands between A7 and that of the k-th register written.
OperandsBelow(list, k) == Len(list) - k

\* MOVEM (A7)+,list: read in the other order, words fill whole registers with
\* their sign; A7 itself ends behind the operands, whatever was read into it.
MovemPop ==
    /\ pushed # <<>> /\ Uppermost.kind = "movem"
    /\ LET list == Uppermost.list  n == Bytes(Uppermost.size)
           has(reg) == \E k \in DOMAIN list : list[k] = reg
           place(reg) == CHOOSE k \in DOMAIN list : list[k] = reg
           got(reg) == Sext(Read(sp + n * OperandsBelow(list, place(reg)), n))
       IN /\ d0' = IF has("d0") THEN got("d0") ELSE d0
          /\ a0' = IF has("a0") THEN got("a0") ELSE a0
          /\ sp' = sp + n * Len(list)
    /\ pushed' = SubSeq(pushed, 1, Len(pushed) - 1)
    /\ UNCHANGED ram

\* LINK A0,#-Displacement and UNLK A0: whatever was pushed since goes with it.
Link ==
    LET to == sp - 4 IN
    /\ to - Displacement >= 0
    /\ ram' = Write(ram, to, a0)
    /\ a0' = AsLong(to)
    /\ sp' = to - Displacement
    /\ pushed' = Append(pushed, [kind |-> "frame", at |-> to - Displacement, value |-> a0])
    /\ UNCHANGED d0

\* Bound: A0 is still what the last LINK made it.
LinkFrames == {i \in DOMAIN pushed : pushed[i].kind = "frame"}
Unlk ==
    \E i \in LinkFrames :
        LET at == pushed[i].at + Displacement IN
        /\ \A j \in LinkFrames : j <= i
        /\ a0 = AsLong(at)
        /\ a0' = Read(at, 4)
        /\ sp' = at + 4
        /\ pushed' = SubSeq(pushed, 1, i - 1)
        /\ UNCHANGED <<d0, ram>>

OperandsInit ==
    /\ d0 = [i \in 1..4 |-> 0] /\ a0 = d0
    /\ sp = Bottom
    /\ ram = [x \in 0..(Bottom - 1) |-> 0]
    /\ pushed = <<>>

OperandsNext ==
    \/ \E size \in Sizes : PushD(size) \/ PopD(size) \/ \E list \in RegisterLists : MovemPush(size, list)
    \/ \E v \in Words : Load(v) \/ LoadA(v)
    \/ MovemPop \/ Link \/ Unlk

OperandsSpec == OperandsInit /\ [][OperandsNext]_operandVars

-----------------------------------------------------------------------------
OperandsTypeOK ==
    /\ d0 \in Long /\ a0 \in Long /\ sp \in Address
    /\ \A x \in DOMAIN ram : ram[x] \in Byte

\* The stack pointer is even at every instruction, byte operands included
\* (ea.rs:72).
StackIsEven == sp % 2 = 0

\* A7 points at what was pushed last, and each entry still holds what was
\* pushed: no later instruction has written over it or reads it from another
\* place; a MOVEM holds the registers as they were before it (exec.rs:670).
Saved(e, reg) == CASE reg = "d0" -> e.saved.d0 [] reg = "a0" -> e.saved.a0 [] OTHER -> AsLong(e.sp)
Intact(e) ==
    CASE e.kind \in Sizes -> Read(e.at, Bytes(e.kind)) = e.value
      [] e.kind = "frame" -> Read(e.at + Displacement, 4) = e.value
      [] OTHER -> \A k \in DOMAIN e.list :
            Read(e.at + Bytes(e.size) * (Len(e.list) - k), Bytes(e.size))
                = Low(Saved(e, e.list[k]), Bytes(e.size))
StackHoldsWhatWasPushed ==
    /\ sp = IF pushed = <<>> THEN Bottom ELSE Uppermost.at
    /\ \A i \in DOMAIN pushed : Intact(pushed[i])

\* A MOVEM of long words to the stack and back leaves the registers as they
\* were, in whichever list they are.
MovemRestores ==
    [][ (pushed # <<>> /\ Uppermost.kind = "movem" /\ Uppermost.size = "long"
         /\ pushed' = SubSeq(pushed, 1, Len(pushed) - 1)) =>
        /\ sp' = Uppermost.sp /\ d0' = Uppermost.saved.d0
        /\ (\E k \in DOMAIN Uppermost.list : Uppermost.list[k] = "a0") => a0' = Uppermost.saved.a0 ]_operandVars

OperandsInv == OperandsTypeOK /\ StackIsEven /\ StackHoldsWhatWasPushed

\* Both: what is on the stack is what was pushed, and comes back from it.
OperandsKept == []OperandsInv /\ MovemRestores
=============================================================================
