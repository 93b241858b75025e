------------------------------- MODULE Lists -------------------------------
(***************************************************************************)
(* Lists and finite sets of numbers: sets in order, what a list keeps when *)
(* only some of its rows are retained, sums, and lists end to end.         *)
(***************************************************************************)
EXTENDS Integers, Sequences, FiniteSets

\* A set in its order, and its least, 0 if it is empty.
Ascending(set) ==
    CHOOSE list \in [1..Cardinality(set) -> set] : \A i, j \in DOMAIN list : i < j => list[i] < list[j]
LeastIn(set) == IF set = {} THEN 0 ELSE CHOOSE i \in set : \A j \in set : i <= j

\* What is in these rows, in its order.
Retained(s, rows) == [i \in DOMAIN Ascending(rows) |-> s[Ascending(rows)[i]]]

\* The sum of the first `n`, and of all.
SumTo(sizes, n) ==
    LET upTo[i \in 0..Len(sizes)] == IF i = 0 THEN 0 ELSE upTo[i - 1] + sizes[i] IN upTo[n]
Total(sizes) == SumTo(sizes, Len(sizes))

\* Lists end to end.
EndToEnd(parts) ==
    LET upTo[i \in 0..Len(parts)] == IF i = 0 THEN <<>> ELSE upTo[i - 1] \o parts[i] IN
    upTo[Len(parts)]
=============================================================================
