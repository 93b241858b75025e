-------------------------------- MODULE Alu --------------------------------
(***************************************************************************)
(* The arithmetic of the SCC68070 instruction set (exec.rs): results and   *)
(* condition codes of one instruction after another, checked against       *)
(* integer arithmetic. Operands have W bits, and the 32-bit dividend 2 * W;*)
(* decimal operands are bytes.                                             *)
(***************************************************************************)
EXTENDS Integers, Sequences

CONSTANTS
    W,          \* bits of an operand
    Decimal,    \* bytes of two digits given to the decimal instructions
    ChainWords  \* bound of the words added or subtracted one after another

ASSUME WidthAssumption ==
    W \in Nat \ {0, 1} /\ Decimal \subseteq 0..255 /\ ChainWords \in Nat \ {0}

Pow2[n \in Nat] == IF n = 0 THEN 1 ELSE 2 * Pow2[n - 1]
M == Pow2[W]
Half == Pow2[W - 1]
Value == 0..(M - 1)

VARIABLES
    flags,      \* [x, n, z, v, c]
    executed,   \* history: the instruction executed last, its operands and result
    chain       \* history: the words added or subtracted since the last ADD or SUB

aluVars == <<flags, executed, chain>>

Bit(b) == IF b THEN 1 ELSE 0
Negative(v) == v >= Half
Signed(v) == IF Negative(v) THEN v - M ELSE v

-----------------------------------------------------------------------------
(* Addition and subtraction. Carry and overflow come from the top bits.    *)

NZ(f, r, extend) ==
    [f EXCEPT !.n = Negative(r), !.z = IF extend THEN f.z /\ r = 0 ELSE r = 0]

DoAdd(f, d, s, extend) ==
    LET r == (d + s + Bit(extend /\ f.x)) % M
        dm == Negative(d)  sm == Negative(s)  rm == Negative(r)
        carry == (dm /\ sm) \/ (~rm /\ (dm \/ sm))
        overflow == (dm /\ sm /\ ~rm) \/ (~dm /\ ~sm /\ rm)
    IN [res |-> r, flags |-> [NZ(f, r, extend) EXCEPT !.c = carry, !.x = carry, !.v = overflow]]

\* Mutant: an extended subtraction sets Z from its own word.
DoSubFreshZero(f, d, s, extend, writeX) ==
    LET r == (d - s - Bit(extend /\ f.x)) % M
        dm == Negative(d)  sm == Negative(s)  rm == Negative(r)
        borrow == (sm /\ ~dm) \/ (rm /\ (~dm \/ sm))
    IN [res |-> r, flags |-> [NZ(f, r, FALSE) EXCEPT !.c = borrow, !.x = IF writeX THEN borrow ELSE @,
                              !.v = (~dm /\ sm /\ rm) \/ (dm /\ ~sm /\ ~rm)]]

DoSub(f, d, s, extend, writeX) ==
    LET r == (d - s - Bit(extend /\ f.x)) % M
        dm == Negative(d)  sm == Negative(s)  rm == Negative(r)
        borrow == (sm /\ ~dm) \/ (rm /\ (~dm \/ sm))
        overflow == (~dm /\ sm /\ rm) \/ (dm /\ ~sm /\ ~rm)
    IN [res |-> r, flags |-> [NZ(f, r, extend) EXCEPT !.c = borrow, !.v = overflow,
                                                      !.x = IF writeX THEN borrow ELSE @]]

LogicFlags(f, r) == [NZ(f, r, FALSE) EXCEPT !.v = FALSE, !.c = FALSE]

Condition(f) ==
    << TRUE, FALSE,
       ~f.c /\ ~f.z, f.c \/ f.z,                        \* HI LS
       ~f.c, f.c, ~f.z, f.z, ~f.v, f.v, ~f.n, f.n,      \* CC CS NE EQ VC VS PL MI
       f.n = f.v, f.n # f.v,                            \* GE LT
       ~f.z /\ f.n = f.v, f.z \/ f.n # f.v >>           \* GT LE
\* The condition a branch names by number.
Holds(cc, f) == Condition(f)[cc + 1]

-----------------------------------------------------------------------------
(* Shifts and rotates, one bit at a time.                                  *)

Kinds == {"AS", "LS", "ROX", "RO"}

ShiftOne(kind, left, s) ==
    LET out == IF left THEN Negative(s.v) ELSE s.v % 2 = 1
        in == CASE kind = "RO" -> out
                [] kind = "ROX" -> s.x
                [] kind = "AS" /\ ~left -> Negative(s.v)
                [] OTHER -> FALSE
        v == IF left THEN (2 * s.v + Bit(in)) % M ELSE s.v \div 2 + Half * Bit(in)
    IN [v |-> v, c |-> out,
        x |-> IF kind = "ROX" THEN out ELSE s.x,
        o |-> s.o \/ (kind = "AS" /\ left /\ Negative(v) # Negative(s.v))]

ShiftVal(f, kind, left, val, count) ==
    LET run[n \in 0..count] == IF n = 0 THEN [v |-> val, c |-> FALSE, x |-> f.x, o |-> FALSE]
                               ELSE ShiftOne(kind, left, run[n - 1])
        s == run[count]
        nz == NZ(f, s.v, FALSE)
    IN [res |-> s.v,
        flags |-> IF count = 0 THEN [nz EXCEPT !.v = FALSE, !.c = kind = "ROX" /\ f.x]
                  ELSE [nz EXCEPT !.v = s.o, !.c = s.c,
                                  !.x = IF kind \in {"AS", "LS"} THEN s.c ELSE s.x]]

-----------------------------------------------------------------------------
(* Decimal bytes.                                                          *)

BitOf(v, k) == (v \div Pow2[k]) % 2 = 1
DecimalFlags(f, r, carry, v) ==
    [f EXCEPT !.c = carry, !.x = carry, !.v = v, !.n = BitOf(r, 7), !.z = f.z /\ r % 256 = 0]

BcdAdd(f, d, s) ==
    LET r1 == d + s + Bit(f.x)
        low == r1 + IF (d % 16) + (s % 16) + Bit(f.x) > 9 THEN 6 ELSE 0
        r == IF low > 159 THEN low + 96 ELSE low
    IN [res |-> r % 256,
        flags |-> DecimalFlags(f, r, (r \div 256) % 4 # 0, BitOf(r, 7) /\ ~BitOf(r1, 7))]

BcdSub(f, d, s) ==
    LET r1 == (d - s - Bit(f.x)) % 65536
        low == r1 - IF (d % 16) - (s % 16) - Bit(f.x) < 0 THEN 6 ELSE 0
        r == (IF BitOf(r1, 8) THEN low - 96 ELSE low) % 65536
    IN [res |-> r % 256,
        flags |-> DecimalFlags(f, r, (r \div 256) % 4 # 0, ~BitOf(r, 7) /\ BitOf(r1, 7))]

-----------------------------------------------------------------------------
(* Multiplication and division.                                            *)

Magnitude(n) == IF n < 0 THEN -n ELSE n
\* Rust's division rounds to zero.
Quotient(a, b) ==
    LET q == Magnitude(a) \div Magnitude(b) IN IF (a < 0) = (b < 0) THEN q ELSE -q
SignedLong(v) == IF v >= M * Half THEN v - M * M ELSE v

\* The quotient of the most negative number and -1 wraps to itself.
WrappedQuotient(a, b) == IF a = -(M * Half) /\ b = -1 THEN a ELSE Quotient(a, b)

\* An overflow leaves the register alone; zero divisors trap before.
Div(f, d, s, signed) ==
    LET a == IF signed THEN SignedLong(d) ELSE d
        b == IF signed THEN Signed(s) ELSE s
        q == IF signed THEN WrappedQuotient(a, b) ELSE a \div b
        r == IF signed /\ a = -(M * Half) /\ b = -1 THEN 0 ELSE a - b * Quotient(a, b)
        overflow == IF signed THEN q > Half - 1 \/ q < -Half ELSE q > M - 1
    IN IF overflow
       THEN [res |-> d, flags |-> [f EXCEPT !.v = TRUE, !.c = FALSE, !.n = TRUE, !.z = FALSE]]
       ELSE [res |-> (r % M) * M + (q % M), flags |-> LogicFlags(f, q % M)]

Mul(f, d, s, signed) ==
    LET r == (IF signed THEN Signed(d) * Signed(s) ELSE d * s) % (M * M)
    IN [res |-> r, flags |-> [f EXCEPT !.n = r >= M * Half, !.z = r = 0, !.v = FALSE, !.c = FALSE]]

-----------------------------------------------------------------------------
(* Instructions.                                                           *)

NoChain == [op |-> "none", d |-> 0, s |-> 0, r |-> 0, words |-> 0]

Executes(op, d, s, x, out) ==
    /\ executed' = [op |-> op, d |-> d, s |-> s, x |-> x, res |-> out.res]
    /\ flags' = out.flags

\* ADD and SUB begin a number of several words, ADDX and SUBX go on with it.
BeginsChain(op, d, s, r) == chain' = [op |-> op, d |-> d, s |-> s, r |-> r, words |-> 1]
Continues(op, d, s, r) ==
    LET unit == Pow2[W * chain.words] IN
    chain' = IF chain.op = op
             THEN [op |-> op, d |-> chain.d + d * unit, s |-> chain.s + s * unit,
                   r |-> chain.r + r * unit, words |-> chain.words + 1]
             ELSE NoChain

AddSub(op, d, s) ==
    LET out == IF op = "ADD" THEN DoAdd(flags, d, s, FALSE) ELSE DoSub(flags, d, s, FALSE, TRUE)
    IN Executes(op, d, s, flags.x, out) /\ BeginsChain(op, d, s, out.res)

AddSubX(op, d, s) ==
    LET out == IF op = "ADD" THEN DoAdd(flags, d, s, TRUE) ELSE DoSub(flags, d, s, TRUE, TRUE)
    IN Executes(IF op = "ADD" THEN "ADDX" ELSE "SUBX", d, s, flags.x, out) /\ Continues(op, d, s, out.res)

\* A negation is a subtraction from zero, and NEGX goes on with its number.
Neg(s) ==
    LET out == DoSub(flags, 0, s, FALSE, TRUE) IN
    Executes("NEG", 0, s, flags.x, out) /\ BeginsChain("SUB", 0, s, out.res)

NegX(s) ==
    LET out == DoSub(flags, 0, s, TRUE, TRUE) IN
    Executes("NEGX", 0, s, flags.x, out) /\ Continues("SUB", 0, s, out.res)

Cmp(d, s) ==
    /\ Executes("CMP", d, s, flags.x, DoSub(flags, d, s, FALSE, FALSE))
    /\ chain' = NoChain

Logic(r) ==
    /\ Executes("MOVE", r, r, flags.x, [res |-> r, flags |-> LogicFlags(flags, r)])
    /\ chain' = NoChain

Mnemonic(kind, left) ==
    CASE kind = "AS" -> IF left THEN "ASL" ELSE "ASR"
      [] kind = "LS" -> IF left THEN "LSL" ELSE "LSR"
      [] kind = "ROX" -> IF left THEN "ROXL" ELSE "ROXR"
      [] kind = "RO" -> IF left THEN "ROL" ELSE "ROR"

Shift(kind, left, d, count) ==
    /\ Executes(Mnemonic(kind, left), d, count, flags.x,
                ShiftVal(flags, kind, left, d, count))
    /\ chain' = NoChain

Bcd(op, d, s) ==
    /\ Executes(op, d, s, flags.x, IF op = "ABCD" THEN BcdAdd(flags, d, s) ELSE BcdSub(flags, d, s))
    /\ chain' = NoChain

\* The number of a bit counts modulo the operand's bits.
BitOp(op, d, number) ==
    LET k == number % W
        r == CASE op = "BTST" -> d
               [] op = "BCHG" -> IF BitOf(d, k) THEN d - Pow2[k] ELSE d + Pow2[k]
               [] op = "BCLR" -> IF BitOf(d, k) THEN d - Pow2[k] ELSE d
               [] op = "BSET" -> IF BitOf(d, k) THEN d ELSE d + Pow2[k]
    IN /\ Executes(op, d, number, flags.x, [res |-> r, flags |-> [flags EXCEPT !.z = ~BitOf(d, k)]])
       /\ chain' = NoChain

\* A zero divisor traps instead (Cpu.tla).
Divide(signed, d, s) ==
    /\ s # 0
    /\ Executes(IF signed THEN "DIVS" ELSE "DIVU", d, s, flags.x, Div(flags, d, s, signed))
    /\ chain' = NoChain

Multiply(signed, d, s) ==
    /\ Executes(IF signed THEN "MULS" ELSE "MULU", d, s, flags.x, Mul(flags, d, s, signed))
    /\ chain' = NoChain

MoveToCcr(f) ==
    /\ flags' = f
    /\ executed' = [op |-> "MOVE CCR", d |-> 0, s |-> 0, x |-> f.x, res |-> 0]
    /\ chain' = NoChain

Ccr == [x : BOOLEAN, n : BOOLEAN, z : BOOLEAN, v : BOOLEAN, c : BOOLEAN]

\* Bounds: ChainWords words in a chain; a shift goes once around X and one further.
LongerChain == chain.words \in 1..(ChainWords - 1)
AluStep ==
    \/ \E op \in {"ADD", "SUB"}, d, s \in Value :
          \/ AddSub(op, d, s)
          \/ LongerChain /\ AddSubX(op, d, s)
    \/ \E s \in Value : Neg(s) \/ (LongerChain /\ NegX(s))
    \/ \E op \in {"BTST", "BCHG", "BCLR", "BSET"}, d \in Value, number \in 0..(2 * W) : BitOp(op, d, number)
    \/ \E d, s \in Value : Cmp(d, s)
    \/ \E r \in Value : Logic(r)
    \/ \E kind \in Kinds, left \in BOOLEAN, d \in Value, count \in 0..(W + 2) :
          Shift(kind, left, d, count)
    \/ \E op \in {"ABCD", "SBCD"}, d, s \in Decimal : Bcd(op, d, s)
    \/ \E signed \in BOOLEAN, d \in 0..(M * M - 1), s \in Value : Divide(signed, d, s)
    \/ \E signed \in BOOLEAN, d, s \in Value : Multiply(signed, d, s)

\* Bound: what an instruction reads of the flags is X and Z, so each is run
\* from flags that were just loaded, or goes on with a chain.
AluNext ==
    \/ \E x, z \in BOOLEAN : MoveToCcr([x |-> x, n |-> FALSE, z |-> z, v |-> FALSE, c |-> FALSE])
    \/ (LongerChain \/ executed.op \in {"none", "MOVE CCR"}) /\ AluStep

AluInit ==
    /\ flags = [x |-> FALSE, n |-> FALSE, z |-> FALSE, v |-> FALSE, c |-> FALSE]
    /\ executed = [op |-> "none", d |-> 0, s |-> 0, x |-> FALSE, res |-> 0]
    /\ chain = NoChain

AluSpec == AluInit /\ [][AluNext]_aluVars

-----------------------------------------------------------------------------
AluTypeOK == flags \in Ccr /\ chain.words \in Nat

\* The flags after a chain of additions or subtractions are those of the whole
\* number, of however many words: carry, overflow, sign, and Z only if every
\* word was zero (exec.rs:91).
ChainFlagsOfTheWhole ==
    LET base == Pow2[W * chain.words]
        top == base \div 2
        signed(v) == IF v >= top THEN v - base ELSE v
        exact == IF chain.op = "ADD" THEN signed(chain.d) + signed(chain.s)
                 ELSE signed(chain.d) - signed(chain.s)
        natural == IF chain.op = "ADD" THEN chain.d + chain.s ELSE chain.d - chain.s
    IN chain.words > 0 =>
        /\ chain.r = natural % base
        /\ flags.c = (natural \notin 0..(base - 1)) /\ flags.x = flags.c
        /\ flags.v = (exact \notin (-top)..(top - 1))
        /\ flags.z = (chain.r = 0) /\ flags.n = (chain.r >= top)

\* After a comparison each branch condition decides the order it is named for
\* (exec.rs:144).
ConditionsDecideOrder ==
    executed.op = "CMP" =>
        LET d == executed.d  s == executed.s IN
        /\ Holds(2, flags) = (d > s) /\ Holds(3, flags) = (d <= s)
        /\ Holds(4, flags) = (d >= s) /\ Holds(5, flags) = (d < s)
        /\ Holds(6, flags) = (d # s) /\ Holds(7, flags) = (d = s)
        /\ Holds(12, flags) = (Signed(d) >= Signed(s)) /\ Holds(13, flags) = (Signed(d) < Signed(s))
        /\ Holds(14, flags) = (Signed(d) > Signed(s)) /\ Holds(15, flags) = (Signed(d) <= Signed(s))
        /\ flags.x = executed.x

\* A shift is the multiplication or division it stands for; an arithmetic one
\* to the left overflows if the exact product does; a rotation through X has
\* the period W + 1, and one without W (exec.rs:1234).
Rotated(v, n, bits) == LET moved == v * Pow2[n % bits] IN (moved % Pow2[bits]) + (moved \div Pow2[bits])
ShiftsAgree ==
    LET v == executed.d  n == executed.s  wide == v + M * Bit(executed.x) IN
    /\ executed.op \in {"ASL", "LSL"} => executed.res = (v * Pow2[n]) % M
    /\ executed.op = "ASL" => flags.v = (Signed(v) * Pow2[n] \notin (-Half)..(Half - 1))
    /\ executed.op = "LSR" => executed.res = v \div Pow2[n]
    /\ executed.op = "ASR" => Signed(executed.res) = Signed(v) \div Pow2[n]
    /\ executed.op = "ROL" => executed.res = Rotated(v, n, W)
    /\ executed.op = "ROR" => executed.res = Rotated(v, W - (n % W), W)
    /\ executed.op = "ROXL" => executed.res + M * Bit(flags.x) = Rotated(wide, n, W + 1)
    /\ executed.op = "ROXR" => executed.res + M * Bit(flags.x) = Rotated(wide, W + 1 - (n % (W + 1)), W + 1)

\* Digits in, digits out: the sum and the difference of two decimal bytes, with
\* the carry in X (exec.rs:1036).
Number(b) == 10 * (b \div 16) + (b % 16)
IsDecimal(b) == b \div 16 < 10 /\ b % 16 < 10
DecimalAgrees ==
    IsDecimal(executed.d) /\ IsDecimal(executed.s) =>
        /\ executed.op = "ABCD" =>
              LET n == Number(executed.d) + Number(executed.s) + Bit(executed.x) IN
              IsDecimal(executed.res) /\ Number(executed.res) = n % 100 /\ flags.x = (n > 99)
        /\ executed.op = "SBCD" =>
              LET n == Number(executed.d) - Number(executed.s) - Bit(executed.x) IN
              IsDecimal(executed.res) /\ Number(executed.res) = n % 100 /\ flags.x = (n < 0)

\* A division either keeps the register and says V, or leaves a quotient that
\* fits and a remainder smaller than the divisor with the dividend's sign
\* (exec.rs:940).
DivisionAgrees ==
    LET signed == executed.op = "DIVS"
        a == IF signed THEN SignedLong(executed.d) ELSE executed.d
        b == IF signed THEN Signed(executed.s) ELSE executed.s
        q == IF signed THEN Signed(executed.res % M) ELSE executed.res % M
        r == IF signed THEN Signed(executed.res \div M) ELSE executed.res \div M
    IN executed.op \in {"DIVS", "DIVU"} =>
        IF flags.v THEN executed.res = executed.d
        ELSE /\ a = q * b + r
             /\ Magnitude(r) < Magnitude(b) /\ (r # 0 => (r < 0) = (a < 0))

\* A bit instruction tells in Z what its bit was, changes that bit alone, and
\* none of the other flags (exec.rs:263).
BitsAgree ==
    LET k == executed.s % W  was == BitOf(executed.d, k)  is == BitOf(executed.res, k) IN
    executed.op \in {"BTST", "BCHG", "BCLR", "BSET"} =>
        /\ \A j \in 0..(W - 1) : j # k => BitOf(executed.res, j) = BitOf(executed.d, j)
        /\ executed.res \in Value /\ flags.z = ~was /\ flags.x = executed.x
        /\ CASE executed.op = "BTST" -> is = was
             [] executed.op = "BCHG" -> is = ~was
             [] OTHER -> is = (executed.op = "BSET")

AluInv ==
    AluTypeOK /\ ChainFlagsOfTheWhole /\ ConditionsDecideOrder /\ ShiftsAgree
    /\ DecimalAgrees /\ DivisionAgrees /\ BitsAgree
=============================================================================
