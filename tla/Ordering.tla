------------------------------ MODULE Ordering ------------------------------
(***************************************************************************)
(* Sorting as the services use it: Python's sort, and ORDER BY, put the    *)
(* elements of a finite set in the order of their keys.  The order is a    *)
(* set R of pairs <<before, after>>, in which ties have been broken: an    *)
(* element's place is the number of elements before it.                    *)
(***************************************************************************)
EXTENDS Naturals, FiniteSets

Preceding(S, R, x) == {y \in S : <<y, x>> \in R}

SortedBy(S, R) ==
  [n \in 1..Cardinality(S) |->
     CHOOSE x \in S : Cardinality(Preceding(S, R, x)) = n - 1]

Rising(S) == {pair \in S \X S : pair[1] < pair[2]}

(* The entries of s that are in S, in their order.                         *)
Filtered(s, S) ==
  LET at == {i \in DOMAIN s : s[i] \in S}
  IN  [n \in 1..Cardinality(at) |-> s[SortedBy(at, Rising(at))[n]]]

============================================================================
