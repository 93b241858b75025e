----------------------------- MODULE Induction -----------------------------
(***************************************************************************)
(* Induction over the numbers, from the well-foundedness of <: what the    *)
(* proofs about runs of a queue need. A set takes the place of the         *)
(* predicate, which no lemma that the provers can use takes as a parameter. *)
(* By it finite sets of numbers can be listed in their order.              *)
(***************************************************************************)
EXTENDS Lists, FiniteSetTheorems, WellFoundedInduction, TLAPS

Below == OpToRel(<, Nat)

\* The relation of the library's theorem is that of the numbers.
LEMMA BelowMeans == \A m, n \in Nat : <<m, n>> \in Below <=> m < n
  BY DEF Below, OpToRel

\* A set of numbers that is not empty has a least one.
LEMMA LeastOf ==
  ASSUME NEW S, S \subseteq Nat, S # {}
  PROVE  \E n \in S : \A m \in S : n <= m
  <1>1. IsWellFoundedOn(Below, Nat)
    BY NatLessThanWellFounded DEF Below
  <1> HIDE DEF Below
  <1>2. \E n \in S : \A m \in S : <<m, n>> \notin Below
    BY <1>1, WFMin
  <1>3. PICK n \in S : \A m \in S : <<m, n>> \notin Below
    BY <1>2
  <1>4. ASSUME NEW m \in S PROVE n <= m
    <2>1. m \in Nat /\ n \in Nat /\ <<m, n>> \notin Below
      BY <1>3
    <2>2. ~(m < n)
      BY <2>1, BelowMeans
    <2> QED BY <2>1, <2>2
  <1> QED BY <1>4

\* A set with 0 and every successor has all numbers.
LEMMA Induct ==
  ASSUME NEW S, 0 \in S, \A n \in Nat : n \in S => n + 1 \in S
  PROVE  Nat \subseteq S
  <1> SUFFICES ASSUME NEW n \in Nat \ S PROVE FALSE
    OBVIOUS
  <1>1. PICK m \in Nat \ S : \A k \in Nat \ S : m <= k
    BY LeastOf
  <1>2. m - 1 \in S
    BY <1>1
  <1> QED BY <1>1, <1>2

-----------------------------------------------------------------------------
(* Sorted lists.                                                           *)

Increasing(list) == \A i, j \in DOMAIN list : i < j => list[i] < list[j]
Sorts(S) == {list \in [1..Cardinality(S) -> S] : Increasing(list)}

\* The least of a set before the rest in order.
LEMMA LeastFirst ==
    ASSUME NEW S, S \subseteq Nat, IsFiniteSet(S), NEW least \in S, \A m \in S : least <= m,
           NEW rest \in Sorts(S \ {least})
    PROVE  Sorts(S) # {}
<1> DEFINE n == Cardinality(S)
           list == [i \in 1..n |-> IF i = 1 THEN least ELSE rest[i - 1]]
<1>1. n \in Nat /\ Cardinality(S \ {least}) = n - 1
  BY FS_CardinalityType, FS_RemoveElement
<1>2. rest \in [1..(n - 1) -> S \ {least}] /\ Increasing(rest)
  BY <1>1 DEF Sorts
<1>3. n \in Nat \ {0}
  BY <1>1, FS_EmptySet
<1> HIDE DEF n
<1>4. \A i \in 1..n : i # 1 => i - 1 \in 1..(n - 1)
  BY <1>3
<1>5. list \in [1..n -> S]
  BY <1>2, <1>4
<1>6. ASSUME NEW i \in 1..n, NEW j \in 1..n, i < j PROVE list[i] < list[j]
  <2>1. j # 1 /\ j - 1 \in 1..(n - 1) /\ list[j] = rest[j - 1] /\ rest[j - 1] \in S \ {least}
    BY <1>2, <1>4, <1>6
  <2>2. CASE i = 1
    <3>1. list[i] = least
      BY <2>2
    <3>2. least <= rest[j - 1] /\ least # rest[j - 1]
      BY <2>1
    <3>3. least \in Nat /\ rest[j - 1] \in Nat
      BY <2>1
    <3> HIDE DEF list
    <3>4. list[i] = least /\ list[j] = rest[j - 1]
      BY <2>1, <3>1
    <3>5. least < rest[j - 1]
      BY <3>2, <3>3
    <3> QED BY <3>4, <3>5
  <2>3. CASE i # 1
    <3>1. i - 1 \in 1..(n - 1) /\ list[i] = rest[i - 1] /\ i - 1 < j - 1
      BY <2>3, <1>4, <1>6
    <3> HIDE DEF list
    <3>2. rest[i - 1] < rest[j - 1]
      BY <1>2, <2>1, <3>1 DEF Increasing
    <3> QED BY <2>1, <3>1, <3>2
  <2> QED BY <2>2, <2>3
<1>7. DOMAIN list = 1..n
  OBVIOUS
<1> HIDE DEF list
<1>8. Increasing(list)
  BY <1>6, <1>7 DEF Increasing
<1>9. list \in Sorts(S)
  BY <1>5, <1>8 DEF Sorts, n
<1> QED BY <1>9

\* Each finite set of numbers can be listed in its order.
LEMMA SortExists ==
    ASSUME NEW S, S \subseteq Nat, IsFiniteSet(S)
    PROVE  Sorts(S) # {}
<1> DEFINE Sizes == {n \in Nat : \A T \in SUBSET Nat :
                        IsFiniteSet(T) /\ Cardinality(T) = n => Sorts(T) # {}}
<1>1. 0 \in Sizes
  <2> SUFFICES ASSUME NEW T \in SUBSET Nat, IsFiniteSet(T), Cardinality(T) = 0 PROVE Sorts(T) # {}
    OBVIOUS
  <2>1. T = {} /\ 1..0 = {}
    BY FS_EmptySet
  <2>2. [i \in 1..0 |-> 0] \in Sorts(T)
    BY <2>1 DEF Sorts, Increasing
  <2> QED BY <2>2
<1>2. ASSUME NEW n \in Nat, n \in Sizes PROVE n + 1 \in Sizes
  <2> SUFFICES ASSUME NEW T \in SUBSET Nat, IsFiniteSet(T), Cardinality(T) = n + 1 PROVE Sorts(T) # {}
    OBVIOUS
  <2>1. T # {}
    BY FS_EmptySet
  <2>2. PICK least \in T : \A m \in T : least <= m
    BY <2>1, LeastOf
  <2>3. IsFiniteSet(T \ {least}) /\ Cardinality(T \ {least}) = n /\ T \ {least} \in SUBSET Nat
    BY FS_RemoveElement
  <2>4. PICK rest \in Sorts(T \ {least}) : TRUE
    BY <1>2, <2>3
  <2> QED BY <2>2, <2>4, LeastFirst
<1> HIDE DEF Sizes
<1>3. Nat \subseteq Sizes
  BY <1>1, <1>2, Induct
<1>4. Cardinality(S) \in Sizes
  BY <1>3, FS_CardinalityType
<1> QED BY <1>4 DEF Sizes

\* What the list of a set is.
LEMMA AscendingIs ==
    ASSUME NEW S, S \subseteq Nat, IsFiniteSet(S)
    PROVE  /\ Ascending(S) \in Seq(S) /\ Increasing(Ascending(S))
           /\ Ascending(S) \in [1..Cardinality(S) -> S]
<1>1. PICK list \in Sorts(S) : TRUE
  BY SortExists
<1>2. \E l \in [1..Cardinality(S) -> S] : \A i, j \in DOMAIN l : i < j => l[i] < l[j]
  BY <1>1 DEF Sorts, Increasing
<1>3. Ascending(S) \in [1..Cardinality(S) -> S] /\ Increasing(Ascending(S))
  BY <1>2 DEF Ascending, Increasing
<1>4. Cardinality(S) \in Nat
  BY FS_CardinalityType
<1> HIDE DEF Ascending
<1> QED BY <1>3, <1>4

\* What is retained of a list is in its order.
LEMMA RetainedIs ==
    ASSUME NEW R, NEW s \in Seq(R), NEW rows, rows \subseteq DOMAIN s
    PROVE  /\ Retained(s, rows) \in Seq(R) /\ Len(Retained(s, rows)) <= Len(s)
           /\ \E from \in [DOMAIN Retained(s, rows) -> rows] :
                /\ \A i \in DOMAIN Retained(s, rows) : Retained(s, rows)[i] = s[from[i]]
                /\ \A i, j \in DOMAIN Retained(s, rows) : i < j => from[i] < from[j]
<1> DEFINE from == Ascending(rows)
           t == Retained(s, rows)
<1>1. Len(s) \in Nat /\ DOMAIN s = 1..Len(s)
  OBVIOUS
<1>2. IsFiniteSet(rows) /\ Cardinality(rows) <= Len(s) /\ rows \subseteq Nat
  <2>1. IsFiniteSet(1..Len(s)) /\ Cardinality(1..Len(s)) = Len(s)
    <3>1. PICK n \in Nat : n = Len(s)
      BY <1>1
    <3>2. IsFiniteSet(1..n) /\ Cardinality(1..n) = IF 1 > n THEN 0 ELSE n - 1 + 1
      BY FS_Interval
    <3> QED BY <3>1, <3>2
  <2>2. rows \in SUBSET (1..Len(s))
    BY <1>1
  <2> QED BY <1>1, <2>1, <2>2, FS_Subset
<1>3. from \in [1..Cardinality(rows) -> rows] /\ Increasing(from)
  BY <1>2, AscendingIs
<1>4. Cardinality(rows) \in Nat
  BY <1>2, FS_CardinalityType
<1> HIDE DEF from
<1>5. t = [i \in 1..Cardinality(rows) |-> s[from[i]]]
  BY <1>3 DEF Retained, from
<1>6. \A i \in 1..Cardinality(rows) : s[from[i]] \in R
  BY <1>3
<1> HIDE DEF t
<1>7. t \in Seq(R) /\ Len(t) = Cardinality(rows) /\ DOMAIN t = 1..Cardinality(rows)
  BY <1>4, <1>5, <1>6
<1>8. from \in [DOMAIN t -> rows] /\ (\A i \in DOMAIN t : t[i] = s[from[i]])
      /\ \A i, j \in DOMAIN t : i < j => from[i] < from[j]
  BY <1>3, <1>5, <1>7 DEF Increasing
<1> QED BY <1>2, <1>7, <1>8 DEF t

-----------------------------------------------------------------------------
(* Sums.                                                                   *)

LEMMA SumIs ==
    ASSUME NEW S, NEW sizes \in Seq(S)
    PROVE  /\ SumTo(sizes, 0) = 0
           /\ \A n \in 1..Len(sizes) : SumTo(sizes, n) = SumTo(sizes, n - 1) + sizes[n]
<1> DEFINE L == Len(sizes)
           run == CHOOSE f : f = [n \in 0..L |-> IF n = 0 THEN 0 ELSE f[n - 1] + sizes[n]]
<1>1. \A n : SumTo(sizes, n) = run[n]
  BY DEF SumTo
<1>2. L \in Nat
  OBVIOUS
<1>3. run = CHOOSE f : f = [n \in 0..L |-> IF n = 0 THEN 0 ELSE f[n - 1] + sizes[n]]
  OBVIOUS
<1> HIDE DEF L, run
<1>4. run = [n \in 0..L |-> IF n = 0 THEN 0 ELSE run[n - 1] + sizes[n]]
  <2> DEFINE T == {k \in Nat : \E f : f = [n \in 0..k |-> IF n = 0 THEN 0 ELSE f[n - 1] + sizes[n]]}
  <2>1. 0 \in T
    <3> DEFINE f == [n \in 0..0 |-> 0]
    <3>1. f = [n \in 0..0 |-> IF n = 0 THEN 0 ELSE f[n - 1] + sizes[n]]
      OBVIOUS
    <3> QED BY <3>1
  <2>2. ASSUME NEW k \in Nat, k \in T PROVE k + 1 \in T
    <3>1. PICK e : e = [n \in 0..k |-> IF n = 0 THEN 0 ELSE e[n - 1] + sizes[n]]
      BY <2>2
    <3> DEFINE h == [n \in 0..(k + 1) |-> IF n = k + 1 THEN e[k] + sizes[k + 1] ELSE e[n]]
    <3>2. ASSUME NEW n \in 0..(k + 1) PROVE h[n] = IF n = 0 THEN 0 ELSE h[n - 1] + sizes[n]
      BY <3>1
    <3>3. h = [n \in 0..(k + 1) |-> IF n = 0 THEN 0 ELSE h[n - 1] + sizes[n]]
      BY <3>2
    <3>4. \E f : f = [n \in 0..(k + 1) |-> IF n = 0 THEN 0 ELSE f[n - 1] + sizes[n]]
      BY <3>3
    <3> HIDE DEF h
    <3>5. k + 1 \in Nat
      OBVIOUS
    <3> QED BY <3>4, <3>5, Zenon
  <2>3. L \in T
    <3> HIDE DEF T
    <3> QED BY <1>2, <2>1, <2>2, Induct
  <2> QED BY <1>3, <2>3
<1>5. run[0] = 0
  BY <1>2, <1>4
<1>6. ASSUME NEW n \in 1..L PROVE run[n] = run[n - 1] + sizes[n]
  BY <1>2, <1>4
<1>7. \A n \in 1..L : SumTo(sizes, n) = run[n] /\ SumTo(sizes, n - 1) = run[n - 1]
  BY <1>1
<1>8. SumTo(sizes, 0) = 0
  BY <1>1, <1>5
<1>9. \A n \in 1..L : SumTo(sizes, n) = SumTo(sizes, n - 1) + sizes[n]
  BY <1>6, <1>7
<1> QED BY <1>8, <1>9 DEF L

LEMMA SumType ==
    ASSUME NEW sizes \in Seq(Nat)
    PROVE  \A n \in 0..Len(sizes) : SumTo(sizes, n) \in Nat
<1> DEFINE T == {n \in Nat : n <= Len(sizes) => SumTo(sizes, n) \in Nat}
<1>1. SumTo(sizes, 0) = 0 /\ \A n \in 1..Len(sizes) : SumTo(sizes, n) = SumTo(sizes, n - 1) + sizes[n]
  BY SumIs
<1>2. 0 \in T
  BY <1>1
<1>3. ASSUME NEW n \in Nat, n \in T PROVE n + 1 \in T
  <2> SUFFICES ASSUME n + 1 <= Len(sizes) PROVE SumTo(sizes, n + 1) \in Nat
    OBVIOUS
  <2>1. PICK m \in 1..Len(sizes) : m = n + 1
    OBVIOUS
  <2>2. m - 1 = n /\ SumTo(sizes, n) \in Nat /\ sizes[m] \in Nat
    BY <1>3, <2>1
  <2>3. SumTo(sizes, m) = SumTo(sizes, m - 1) + sizes[m]
    BY <1>1
  <2> QED BY <2>1, <2>2, <2>3
<1> HIDE DEF T
<1>4. Nat \subseteq T
  BY <1>2, <1>3, Induct
<1> QED BY <1>4 DEF T

LEMMA SumOrder ==
    ASSUME NEW sizes \in Seq(Nat)
    PROVE  \A m, n \in 0..Len(sizes) : m <= n => SumTo(sizes, m) <= SumTo(sizes, n)
<1> DEFINE L == Len(sizes)
           sum == [n \in 0..L |-> SumTo(sizes, n)]
<1>1. L \in Nat /\ \A n \in 0..L : sum[n] \in Nat
  BY SumType
<1>2. \A n \in 1..L : sum[n - 1] <= sum[n]
  <2> SUFFICES ASSUME NEW n \in 1..L PROVE sum[n - 1] <= sum[n]
    OBVIOUS
  <2>1. SumTo(sizes, n) = SumTo(sizes, n - 1) + sizes[n]
    BY SumIs
  <2>2. n \in 0..L /\ n - 1 \in 0..L /\ sizes[n] \in Nat
    BY <1>1
  <2>3. sum[n] = SumTo(sizes, n) /\ sum[n - 1] = SumTo(sizes, n - 1)
    BY <2>2
  <2> QED BY <1>1, <2>1, <2>2, <2>3
<1> HIDE DEF sum, L
<1> DEFINE T == {k \in Nat : \A m \in 0..L : m + k <= L => sum[m] <= sum[m + k]}
<1>3. 0 \in T
  BY <1>1
<1>4. ASSUME NEW k \in Nat, k \in T PROVE k + 1 \in T
  <2> SUFFICES ASSUME NEW m \in 0..L, m + (k + 1) <= L PROVE sum[m] <= sum[m + (k + 1)]
    OBVIOUS
  <2>1. PICK n \in 1..L : n = m + (k + 1)
    BY <1>1
  <2>2. n - 1 = m + k /\ m + k <= L /\ n - 1 \in 0..L /\ n \in 0..L
    BY <1>1, <2>1
  <2>3. sum[m] <= sum[n - 1]
    BY <1>4, <2>2
  <2> QED BY <1>1, <1>2, <2>1, <2>2, <2>3
<1> HIDE DEF T
<1>5. Nat \subseteq T
  BY <1>3, <1>4, Induct
<1>6. ASSUME NEW m \in 0..L, NEW n \in 0..L, m <= n PROVE sum[m] <= sum[n]
  <2>1. PICK k \in Nat : k = n - m
    BY <1>1, <1>6
  <2>2. k \in T /\ m + k = n
    BY <1>1, <1>5, <2>1
  <2> QED BY <1>1, <2>2 DEF T
<1> QED BY <1>6 DEF sum, L

\* What is below the sum is in one of its parts, and in no other.
LEMMA SumPlace ==
    ASSUME NEW sizes \in Seq(Nat), NEW x \in Nat, x < Total(sizes)
    PROVE  \E i \in 1..Len(sizes) :
              /\ SumTo(sizes, i - 1) <= x /\ x < SumTo(sizes, i)
              /\ \A j \in 1..Len(sizes) : SumTo(sizes, j - 1) <= x /\ x < SumTo(sizes, j) => j = i
<1> DEFINE L == Len(sizes)
           sum == [n \in 0..L |-> SumTo(sizes, n)]
           over == {n \in 0..L : x < sum[n]}
<1>1. L \in Nat /\ \A n \in 0..L : sum[n] \in Nat /\ sum[n] = SumTo(sizes, n)
  BY SumType
<1>2. sum[0] = 0 /\ x < sum[L]
  BY <1>1, SumIs DEF Total
<1>3. \A m, n \in 0..L : m <= n => sum[m] <= sum[n]
  BY <1>1, SumOrder
<1> HIDE DEF sum, L
<1>4. over # {} /\ over \subseteq Nat
  BY <1>1, <1>2
<1>5. PICK i \in over : \A n \in over : i <= n
  BY <1>4, LeastOf
<1>6. i \in 1..L /\ i - 1 \in 0..L /\ i \in 0..L
  BY <1>1, <1>2
<1>7. i - 1 \notin over
  BY <1>5, <1>6
<1>8. sum[i - 1] <= x /\ x < sum[i]
  BY <1>1, <1>6, <1>7
<1>9. ASSUME NEW j \in 1..L, sum[j - 1] <= x, x < sum[j] PROVE j = i
  <2>1. j \in 0..L /\ j - 1 \in 0..L
    BY <1>1
  <2>2. ~(j <= i - 1)
    <3> SUFFICES ASSUME j <= i - 1 PROVE FALSE
      OBVIOUS
    <3>1. sum[j] <= sum[i - 1]
      BY <1>3, <1>6, <2>1
    <3> QED BY <1>1, <1>6, <1>8, <1>9, <2>1, <3>1
  <2>3. ~(i <= j - 1)
    <3> SUFFICES ASSUME i <= j - 1 PROVE FALSE
      OBVIOUS
    <3>1. sum[i] <= sum[j - 1]
      BY <1>3, <1>6, <2>1
    <3> QED BY <1>1, <1>6, <1>8, <1>9, <2>1, <3>1
  <2> QED BY <1>1, <1>6, <2>2, <2>3
<1>10. SumTo(sizes, i - 1) <= x /\ x < SumTo(sizes, i)
  BY <1>1, <1>6, <1>8
<1>11. \A j \in 1..L : SumTo(sizes, j - 1) <= x /\ x < SumTo(sizes, j) => j = i
  <2> SUFFICES ASSUME NEW j \in 1..L, SumTo(sizes, j - 1) <= x, x < SumTo(sizes, j) PROVE j = i
    OBVIOUS
  <2>1. j \in 0..L /\ j - 1 \in 0..L
    BY <1>1
  <2> QED BY <1>1, <1>9, <2>1
<1> QED BY <1>6, <1>10, <1>11 DEF L

\* One more.
LEMMA TotalAppend ==
    ASSUME NEW sizes \in Seq(Nat), NEW x \in Nat
    PROVE  Total(Append(sizes, x)) = Total(sizes) + x /\ Total(sizes) \in Nat
<1> DEFINE L == Len(sizes)
           more == Append(sizes, x)
           r == [n \in 0..L |-> SumTo(sizes, n)]
           t == [n \in 0..(L + 1) |-> SumTo(more, n)]
           T == {n \in Nat : n <= L => t[n] = r[n]}
<1>1. more \in Seq(Nat) /\ Len(more) = L + 1 /\ L \in Nat /\ more[L + 1] = x
      /\ \A n \in 1..L : more[n] = sizes[n]
  OBVIOUS
<1>2. Total(sizes) = r[L] /\ r[0] = 0 /\ \A n \in 1..L : r[n] = r[n - 1] + sizes[n]
  BY SumIs DEF Total
<1>3. Total(more) = t[L + 1] /\ t[0] = 0 /\ \A n \in 1..(L + 1) : t[n] = t[n - 1] + more[n]
  <2> HIDE DEF more
  <2>1. Total(more) = t[Len(more)] /\ t[0] = 0 /\ \A n \in 1..Len(more) : t[n] = t[n - 1] + more[n]
    BY <1>1, SumIs DEF Total
  <2> QED BY <1>1, <2>1
<1>4. r[L] \in Nat
  BY <1>1, SumType
<1> HIDE DEF L, more, r, t
<1>5. 0 \in T
  BY <1>2, <1>3
<1>6. ASSUME NEW n \in Nat, n \in T PROVE n + 1 \in T
  <2> SUFFICES ASSUME n + 1 <= L PROVE t[n + 1] = r[n + 1]
    OBVIOUS
  <2>1. L \in Nat
    BY <1>1
  <2>2. n <= L /\ n + 1 \in 1..L /\ n + 1 \in 1..(L + 1) /\ (n + 1) - 1 = n
    BY <2>1
  <2>3. t[n] = r[n]
    BY <1>6, <2>2
  <2> QED BY <1>1, <1>2, <1>3, <2>2, <2>3
<1>7. L \in T
  <2> HIDE DEF T
  <2> QED BY <1>1, <1>5, <1>6, Induct
<1>8. t[L] = r[L] /\ L + 1 \in 1..(L + 1) /\ (L + 1) - 1 = L
  BY <1>1, <1>7
<1>9. t[L + 1] = t[L] + more[L + 1]
  BY <1>3, <1>8
<1> QED BY <1>1, <1>2, <1>3, <1>4, <1>8, <1>9 DEF more

LEMMA TotalNothing == Total(<<>>) = 0
<1>1. <<>> \in Seq(Nat) /\ Len(<<>>) = 0
  OBVIOUS
<1> QED BY <1>1, SumIs DEF Total

-----------------------------------------------------------------------------
(* Lists end to end.                                                       *)

Lengths(parts) == [i \in DOMAIN parts |-> Len(parts[i])]
\* The run that joins the first `n`.
JoinRun(parts) ==
    CHOOSE f : f = [i \in 0..Len(parts) |-> IF i = 0 THEN <<>> ELSE f[i - 1] \o parts[i]]

LEMMA JoinRuns ==
    ASSUME NEW S, NEW parts \in Seq(S)
    PROVE  /\ EndToEnd(parts) = JoinRun(parts)[Len(parts)] /\ JoinRun(parts)[0] = <<>>
           /\ \A n \in 1..Len(parts) : JoinRun(parts)[n] = JoinRun(parts)[n - 1] \o parts[n]
<1> DEFINE L == Len(parts)
           run == JoinRun(parts)
<1>1. EndToEnd(parts) = run[L]
  BY DEF EndToEnd, JoinRun
<1>2. L \in Nat
  OBVIOUS
<1>3. run = CHOOSE f : f = [n \in 0..L |-> IF n = 0 THEN <<>> ELSE f[n - 1] \o parts[n]]
  BY DEF JoinRun
<1> HIDE DEF L, run
<1>4. run = [n \in 0..L |-> IF n = 0 THEN <<>> ELSE run[n - 1] \o parts[n]]
  <2> DEFINE T == {k \in Nat : \E f : f = [n \in 0..k |-> IF n = 0 THEN <<>> ELSE f[n - 1] \o parts[n]]}
  <2>1. 0 \in T
    <3> DEFINE f == [n \in 0..0 |-> <<>>]
    <3>1. f = [n \in 0..0 |-> IF n = 0 THEN <<>> ELSE f[n - 1] \o parts[n]]
      OBVIOUS
    <3> HIDE DEF f
    <3>2. \E g : g = [n \in 0..0 |-> IF n = 0 THEN <<>> ELSE g[n - 1] \o parts[n]]
      BY <3>1, Zenon
    <3> QED BY <3>2, Zenon
  <2>2. ASSUME NEW k \in Nat, k \in T PROVE k + 1 \in T
    <3>1. PICK e : e = [n \in 0..k |-> IF n = 0 THEN <<>> ELSE e[n - 1] \o parts[n]]
      BY <2>2
    <3> DEFINE h == [n \in 0..(k + 1) |-> IF n = k + 1 THEN e[k] \o parts[k + 1] ELSE e[n]]
    <3>2. ASSUME NEW n \in 0..(k + 1) PROVE h[n] = IF n = 0 THEN <<>> ELSE h[n - 1] \o parts[n]
      <4>1. CASE n = 0
        BY <3>1, <4>1
      <4>2. CASE n = k + 1
        <5>1. n - 1 = k /\ n # 0 /\ k \in 0..(k + 1) /\ k # k + 1
          BY <4>2
        <5>2. h[k] = e[k]
          BY <5>1
        <5>3. h[n] = e[k] \o parts[n]
          BY <4>2, Zenon
        <5> QED BY <5>1, <5>2, <5>3, Zenon
      <4>3. CASE n \in 1..k
        <5>1. h[n] = e[n] /\ h[n - 1] = e[n - 1] /\ n # 0
          BY <4>3
        <5>2. e[n] = e[n - 1] \o parts[n]
          BY <3>1, <4>3
        <5> QED BY <5>1, <5>2
      <4> QED BY <4>1, <4>2, <4>3
    <3>3. h = [n \in 0..(k + 1) |-> IF n = 0 THEN <<>> ELSE h[n - 1] \o parts[n]]
      BY <3>2
    <3> HIDE DEF h
    <3>4. \E f : f = [n \in 0..(k + 1) |-> IF n = 0 THEN <<>> ELSE f[n - 1] \o parts[n]]
      BY <3>3, Zenon
    <3>5. k + 1 \in Nat
      OBVIOUS
    <3> QED BY <3>4, <3>5, Zenon
  <2>3. L \in T
    <3> HIDE DEF T
    <3> QED BY <1>2, <2>1, <2>2, Induct
  <2> QED BY <1>3, <2>3
<1>5. run[0] = <<>>
  BY <1>2, <1>4
<1>6. ASSUME NEW n \in 1..L PROVE run[n] = run[n - 1] \o parts[n]
  BY <1>2, <1>4
<1> USE DEF L, run
<1> QED BY <1>1, <1>5, <1>6

LEMMA LengthsType ==
    ASSUME NEW S, NEW parts \in Seq(Seq(S))
    PROVE  /\ Lengths(parts) \in Seq(Nat) /\ Len(Lengths(parts)) = Len(parts)
           /\ \A i \in 1..Len(parts) : Lengths(parts)[i] = Len(parts[i])
<1>1. \A i \in 1..Len(parts) : Len(parts[i]) \in Nat
  <2> SUFFICES ASSUME NEW i \in 1..Len(parts) PROVE Len(parts[i]) \in Nat
    OBVIOUS
  <2>1. parts[i] \in Seq(S)
    OBVIOUS
  <2> QED BY <2>1
<1> QED BY <1>1 DEF Lengths

\* A row of a part is where the parts before it end.
Places(run, part, at) ==
    \A k \in 1..Len(part) : at + k \in 1..Len(run) /\ run[at + k] = part[k]

LEMMA PlacesLast ==
    ASSUME NEW S, NEW a \in Seq(S), NEW b \in Seq(S)
    PROVE  Places(a \o b, b, Len(a))
<1>1. Len(a \o b) = Len(a) + Len(b) /\ Len(a) \in Nat /\ Len(b) \in Nat
  OBVIOUS
<1>2. \A k \in 1..Len(b) : (a \o b)[Len(a) + k] = b[k]
  OBVIOUS
<1> QED BY <1>1, <1>2 DEF Places

LEMMA PlacesKept ==
    ASSUME NEW S, NEW a \in Seq(S), NEW b \in Seq(S), NEW part \in Seq(S), NEW at \in Nat, Places(a, part, at)
    PROVE  Places(a \o b, part, at)
<1>1. Len(a \o b) = Len(a) + Len(b) /\ Len(a) \in Nat /\ Len(b) \in Nat
  OBVIOUS
<1>2. \A k \in 1..Len(a) : (a \o b)[k] = a[k]
  OBVIOUS
<1> QED BY <1>1, <1>2 DEF Places

LEMMA EndToEndIs ==
    ASSUME NEW S, NEW parts \in Seq(Seq(S))
    PROVE  /\ EndToEnd(parts) \in Seq(S) /\ Len(EndToEnd(parts)) = Total(Lengths(parts))
           /\ \A i \in 1..Len(parts) : Places(EndToEnd(parts), parts[i], SumTo(Lengths(parts), i - 1))
<1> DEFINE L == Len(parts)
           lens == Lengths(parts)
           run == JoinRun(parts)
           sum == [n \in 0..L |-> SumTo(lens, n)]
           OK(n) == /\ run[n] \in Seq(S) /\ Len(run[n]) = sum[n]
                    /\ \A i \in 1..n : Places(run[n], parts[i], sum[i - 1])
           T == {n \in Nat : n <= L => OK(n)}
<1>1. /\ EndToEnd(parts) = run[L] /\ run[0] = <<>>
      /\ \A n \in 1..L : run[n] = run[n - 1] \o parts[n]
  BY JoinRuns
<1>2. lens \in Seq(Nat) /\ Len(lens) = L /\ L \in Nat /\ \A i \in 1..L : lens[i] = Len(parts[i])
  BY LengthsType
<1> HIDE DEF lens
<1>3. sum[0] = 0 /\ (\A n \in 1..L : sum[n] = sum[n - 1] + lens[n]) /\ \A n \in 0..L : sum[n] \in Nat
  <2>1. SumTo(lens, 0) = 0 /\ \A n \in 1..Len(lens) : SumTo(lens, n) = SumTo(lens, n - 1) + lens[n]
    BY <1>2, SumIs
  <2>2. \A n \in 0..Len(lens) : SumTo(lens, n) \in Nat
    BY <1>2, SumType
  <2> QED BY <1>2, <2>1, <2>2
<1>4. \A i \in 1..L : parts[i] \in Seq(S)
  OBVIOUS
<1> HIDE DEF run, sum, L
<1>5. 0 \in T
  <2>1. run[0] \in Seq(S) /\ Len(run[0]) = 0
    BY <1>1
  <2> QED BY <1>3, <2>1
<1>6. ASSUME NEW n \in Nat, n \in T PROVE n + 1 \in T
  <2> SUFFICES ASSUME n + 1 <= L PROVE OK(n + 1)
    OBVIOUS
  <2>1. PICK m \in 1..L : m = n + 1
    BY <1>2
  <2>2. OK(n) /\ m - 1 = n
    BY <1>2, <1>6, <2>1
  <2>3. run[m] = run[n] \o parts[m] /\ run[n] \in Seq(S) /\ parts[m] \in Seq(S)
    BY <1>1, <1>4, <2>2
  <2>4. run[m] \in Seq(S) /\ Len(run[m]) = Len(run[n]) + Len(parts[m])
    BY <2>3
  <2>5. Len(run[m]) = sum[m]
    <3>1. sum[m] = sum[n] + lens[m] /\ lens[m] = Len(parts[m])
      BY <1>2, <1>3, <2>2
    <3> QED BY <2>2, <2>4, <3>1
  <2>6. ASSUME NEW i \in 1..m PROVE Places(run[m], parts[i], sum[i - 1])
    <3>1. CASE i = m
      <4>1. Places(run[m], parts[m], Len(run[n]))
        BY <2>3, PlacesLast
      <4>2. sum[i - 1] = Len(run[n])
        BY <2>2, <3>1
      <4> QED BY <3>1, <4>1, <4>2
    <3>2. CASE i # m
      <4>1. i \in 1..n /\ i - 1 \in 0..L /\ i \in 1..L
        BY <1>2, <2>1, <3>2
      <4>2. Places(run[n], parts[i], sum[i - 1]) /\ sum[i - 1] \in Nat /\ parts[i] \in Seq(S)
        BY <1>3, <1>4, <2>2, <4>1
      <4> QED BY <2>3, <4>2, PlacesKept
    <3> QED BY <3>1, <3>2
  <2> HIDE DEF OK
  <2>7. OK(m)
    BY <2>4, <2>5, <2>6 DEF OK
  <2> QED BY <2>1, <2>7
<1>7. L \in T
  <2> HIDE DEF T
  <2> QED BY <1>2, <1>5, <1>6, Induct
<1>8. OK(L)
  BY <1>2, <1>7
<1>9. sum[L] = Total(lens)
  BY <1>2 DEF sum, Total
<1>10. ASSUME NEW i \in 1..L PROVE sum[i - 1] = SumTo(lens, i - 1)
  BY <1>2 DEF sum
<1>11. \A i \in 1..L : Places(run[L], parts[i], SumTo(lens, i - 1))
  BY <1>8, <1>10
<1> QED BY <1>1, <1>8, <1>9, <1>11 DEF lens, L

-----------------------------------------------------------------------------
(* The least of a set.                                                     *)

LEMMA LeastIs ==
    ASSUME NEW S, S \subseteq Nat, S # {}
    PROVE  LeastIn(S) \in S /\ \A n \in S : LeastIn(S) <= n
<1>1. \E i \in S : \A j \in S : i <= j
  BY LeastOf
<1>2. LeastIn(S) = CHOOSE i \in S : \A j \in S : i <= j
  BY DEF LeastIn
<1> QED BY <1>1, <1>2

LEMMA LeastAlone ==
    ASSUME NEW n \in Nat
    PROVE  LeastIn({n}) = n
BY LeastIs

\* A list in order has each of as many numbers as it has rows.
LEMMA ListsAll ==
    ASSUME NEW S, S \subseteq Nat, IsFiniteSet(S), NEW list \in [1..Cardinality(S) -> S], Increasing(list)
    PROVE  \A s \in S : \E i \in 1..Cardinality(S) : list[i] = s
<1> DEFINE n == Cardinality(S)
           R == {list[i] : i \in 1..n}
<1>1. n \in Nat
  BY FS_CardinalityType
<1>2. IsFiniteSet(1..n) /\ Cardinality(1..n) = n
  <2>1. PICK m \in Nat : m = n
    BY <1>1
  <2>2. IsFiniteSet(1..m) /\ Cardinality(1..m) = IF 1 > m THEN 0 ELSE m - 1 + 1
    BY FS_Interval
  <2> QED BY <2>1, <2>2
<1> HIDE DEF n
<1>3. ASSUME NEW i \in 1..n, NEW j \in 1..n, list[i] = list[j] PROVE i = j
  <2>1. DOMAIN list = 1..n
    BY DEF n
  <2>2. list[i] \in Nat
    BY DEF n
  <2>3. ~(i < j) /\ ~(j < i)
    BY <1>3, <2>1, <2>2 DEF Increasing
  <2> QED BY <1>1, <2>3
<1>4. R \in SUBSET S
  BY DEF n
<1>5. Cardinality(R) = n
  <2> DEFINE f == [i \in 1..n |-> list[i]]
  <2>1. f \in Surjection(1..n, R)
    BY DEF Surjection
  <2>2. f \in Injection(1..n, R)
    BY <1>3 DEF Injection, IsInjective
  <2>3. ExistsBijection(1..n, R)
    <3>1. f \in Bijection(1..n, R)
      BY <2>1, <2>2 DEF Bijection
    <3> QED BY <3>1 DEF ExistsBijection
  <2> QED BY <1>2, <2>3, FS_Bijection
<1>6. R = S
  <2>1. Cardinality(S) = Cardinality(R)
    BY <1>5 DEF n
  <2> QED BY <1>4, <2>1, FS_Subset
<1> QED BY <1>6 DEF n

\* There is one list of a set in order.
OrderOf(list, S) == list \in Seq(S) /\ Increasing(list) /\ \A s \in S : \E i \in DOMAIN list : list[i] = s

Agree(a, b) == \A i \in 1..Len(a) : i \in 1..Len(b) /\ a[i] = b[i]

LEMMA ListsAgree ==
    ASSUME NEW S, S \subseteq Nat, NEW a, NEW b, OrderOf(a, S), OrderOf(b, S)
    PROVE  Agree(a, b)
<1>1. /\ Len(a) \in Nat /\ DOMAIN a = 1..Len(a) /\ \A i \in 1..Len(a) : a[i] \in S /\ a[i] \in Nat
      /\ \A i, j \in 1..Len(a) : i < j => a[i] < a[j]
      /\ \A s \in S : \E i \in 1..Len(a) : a[i] = s
  <2>1. a \in Seq(S)
    BY DEF OrderOf
  <2>2. Len(a) \in Nat /\ DOMAIN a = 1..Len(a) /\ \A i \in 1..Len(a) : a[i] \in S
    BY <2>1
  <2>3. \A i, j \in 1..Len(a) : i < j => a[i] < a[j]
    BY <2>2 DEF OrderOf, Increasing
  <2>4. \A s \in S : \E i \in 1..Len(a) : a[i] = s
    BY <2>2 DEF OrderOf
  <2> QED BY <2>2, <2>3, <2>4
<1>2. /\ Len(b) \in Nat /\ \A i \in 1..Len(b) : b[i] \in S /\ b[i] \in Nat
      /\ \A i, j \in 1..Len(b) : i < j => b[i] < b[j]
      /\ \A s \in S : \E i \in 1..Len(b) : b[i] = s
  <2>1. b \in Seq(S)
    BY DEF OrderOf
  <2>2. Len(b) \in Nat /\ DOMAIN b = 1..Len(b) /\ \A i \in 1..Len(b) : b[i] \in S
    BY <2>1
  <2>3. \A i, j \in 1..Len(b) : i < j => b[i] < b[j]
    BY <2>2 DEF OrderOf, Increasing
  <2>4. \A s \in S : \E i \in 1..Len(b) : b[i] = s
    BY <2>2 DEF OrderOf
  <2> QED BY <2>2, <2>3, <2>4
<1> SUFFICES \A i \in 1..Len(a) : i \in 1..Len(b) /\ a[i] = b[i]
  BY DEF Agree
<1> DEFINE bad == {i \in 1..Len(a) : ~(i \in 1..Len(b) /\ a[i] = b[i])}
<1> SUFFICES ASSUME bad # {} PROVE FALSE
  OBVIOUS
<1>3. PICK i \in bad : \A k \in bad : i <= k
  <2>1. bad \subseteq Nat
    BY <1>1
  <2> HIDE DEF bad
  <2> QED BY <2>1, LeastOf
<1>4. i \in 1..Len(a) /\ ~(i \in 1..Len(b) /\ a[i] = b[i])
  OBVIOUS
<1>5. \A k \in 1..Len(a) : k < i => k \in 1..Len(b) /\ a[k] = b[k]
  BY <1>1, <1>3
<1> HIDE DEF bad
<1>6. PICK j \in 1..Len(b) : b[j] = a[i]
  BY <1>1, <1>2, <1>4
<1>7. ~(j < i)
  <2> SUFFICES ASSUME j < i PROVE FALSE
    OBVIOUS
  <2>1. j \in 1..Len(a)
    BY <1>1, <1>2, <1>4
  <2>2. a[j] = b[j] /\ a[j] < a[i]
    BY <1>1, <1>4, <1>5, <2>1
  <2> QED BY <1>1, <1>4, <1>6, <2>2
<1>8. i < j /\ i \in 1..Len(b)
  BY <1>1, <1>2, <1>4, <1>6, <1>7
<1>9. b[i] < a[i]
  BY <1>2, <1>6, <1>8
<1>10. PICK k \in 1..Len(a) : a[k] = b[i]
  BY <1>1, <1>2, <1>8
<1>11. ~(i < k) /\ i # k
  <2>1. i < k => a[i] < a[k]
    BY <1>1, <1>4
  <2> QED BY <1>1, <1>4, <1>9, <1>10, <2>1
<1>12. k < i
  BY <1>1, <1>4, <1>11
<1>13. a[k] = b[k] /\ k \in 1..Len(b)
  BY <1>5, <1>12
<1>14. b[k] < b[i]
  BY <1>2, <1>8, <1>12, <1>13
<1> QED BY <1>2, <1>8, <1>10, <1>13, <1>14

LEMMA ListedOnce ==
    ASSUME NEW S, S \subseteq Nat, IsFiniteSet(S), NEW list, OrderOf(list, S)
    PROVE  list = Ascending(S)
<1> DEFINE asc == Ascending(S)
<1>1. asc \in Seq(S) /\ Increasing(asc) /\ asc \in [1..Cardinality(S) -> S]
  BY AscendingIs
<1> HIDE DEF asc
<1>2. \A s \in S : \E i \in DOMAIN asc : asc[i] = s
  <2>1. DOMAIN asc = 1..Cardinality(S)
    BY <1>1
  <2>2. \A s \in S : \E i \in 1..Cardinality(S) : asc[i] = s
    BY <1>1, ListsAll, Zenon
  <2> QED BY <2>1, <2>2
<1>3. OrderOf(asc, S)
  BY <1>1, <1>2 DEF OrderOf
<1>4. list \in Seq(S)
  BY DEF OrderOf
<1>5. \A i \in 1..Len(asc) : i \in 1..Len(list) /\ asc[i] = list[i]
  <2>1. Agree(asc, list)
    BY <1>3, ListsAgree, Zenon
  <2> QED BY <2>1 DEF Agree
<1>6. \A i \in 1..Len(list) : i \in 1..Len(asc) /\ list[i] = asc[i]
  <2>1. Agree(list, asc)
    BY <1>3, ListsAgree, Zenon
  <2> QED BY <2>1 DEF Agree
<1>7. Len(asc) = Len(list)
  <2>1. Len(asc) \in Nat /\ Len(list) \in Nat
    BY <1>1, <1>4
  <2>2. Len(asc) <= Len(list)
    <3>1. Len(asc) # 0 => Len(asc) \in 1..Len(list)
      BY <1>5, <2>1
    <3> QED BY <2>1, <3>1
  <2>3. Len(list) <= Len(asc)
    <3>1. Len(list) # 0 => Len(list) \in 1..Len(asc)
      BY <1>6, <2>1
    <3> QED BY <2>1, <3>1
  <2> QED BY <2>1, <2>2, <2>3
<1>8. asc = list
  <2>1. asc \in [1..Len(list) -> S] /\ list \in [1..Len(list) -> S]
    BY <1>1, <1>4, <1>7
  <2> QED BY <1>6, <2>1
<1> QED BY <1>8 DEF asc

\* What is retained is every row that is, and no other.
RetainsAll(s, rows) ==
    /\ \A i \in DOMAIN Retained(s, rows) : \E k \in rows : Retained(s, rows)[i] = s[k]
    /\ \A k \in rows : \E i \in DOMAIN Retained(s, rows) : Retained(s, rows)[i] = s[k]

LEMMA RetainedAll ==
    ASSUME NEW R, NEW s \in Seq(R), NEW rows, rows \subseteq DOMAIN s
    PROVE  RetainsAll(s, rows)
<1>1. Len(s) \in Nat /\ DOMAIN s = 1..Len(s)
  OBVIOUS
<1>2. IsFiniteSet(rows) /\ rows \subseteq Nat
  <2>1. IsFiniteSet(1..Len(s))
    BY <1>1, FS_Interval
  <2>2. rows \in SUBSET (1..Len(s))
    BY <1>1
  <2> QED BY <2>1, <2>2, FS_Subset
<1>3. Ascending(rows) \in [1..Cardinality(rows) -> rows] /\ Increasing(Ascending(rows))
  BY <1>2, AscendingIs
<1>4. \A k \in rows : \E i \in 1..Cardinality(rows) : Ascending(rows)[i] = k
  BY <1>2, <1>3, ListsAll
<1>5. \A i \in DOMAIN Retained(s, rows) : \E k \in rows : Retained(s, rows)[i] = s[k]
  BY <1>3 DEF Retained
<1>6. \A k \in rows : \E i \in DOMAIN Retained(s, rows) : Retained(s, rows)[i] = s[k]
  BY <1>3, <1>4 DEF Retained
<1> QED BY <1>5, <1>6 DEF RetainsAll
====
