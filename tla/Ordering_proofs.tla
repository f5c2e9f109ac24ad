-------------------------- MODULE Ordering_proofs --------------------------
(***************************************************************************)
(* SortedBy lists a finite set, each element once and in order, whenever   *)
(* the order is a strict and total one on that set.                        *)
(***************************************************************************)
EXTENDS Ordering, Integers, FiniteSetsExt, FiniteSetTheorems, TLAPS

StrictOrder(S, R) ==
  /\ \A x \in S : <<x, x>> \notin R
  /\ \A x, y \in S : x # y => <<x, y>> \in R \/ <<y, x>> \in R
  /\ \A x, y, z \in S : <<x, y>> \in R /\ <<y, z>> \in R => <<x, z>> \in R

(* An element has fewer elements before it than one that comes after it,   *)
(* and never as many as there are.                                         *)
LEMMA PrecedingGrows ==
  ASSUME NEW S, IsFiniteSet(S), NEW R, StrictOrder(S, R)
  PROVE  /\ Cardinality(S) \in Nat
         /\ \A x \in S : Cardinality(Preceding(S, R, x)) \in 0..(Cardinality(S) - 1)
         /\ \A x, y \in S : <<x, y>> \in R =>
              Cardinality(Preceding(S, R, x)) < Cardinality(Preceding(S, R, y))
<1>1. Cardinality(S) \in Nat
  BY FS_CardinalityType
<1>2. ASSUME NEW T, IsFiniteSet(T), NEW U \in SUBSET T, U # T
      PROVE  /\ IsFiniteSet(U) /\ Cardinality(U) \in Nat /\ Cardinality(T) \in Nat
             /\ Cardinality(U) < Cardinality(T)
  BY <1>2, FS_Subset, FS_CardinalityType
<1>3. ASSUME NEW x \in S
      PROVE  /\ IsFiniteSet(Preceding(S, R, x))
             /\ Cardinality(Preceding(S, R, x)) \in 0..(Cardinality(S) - 1)
  <2>1. Preceding(S, R, x) \in SUBSET S /\ Preceding(S, R, x) # S
    BY DEF Preceding, StrictOrder
  <2> QED
    BY <1>1, <1>2, <2>1
<1>4. ASSUME NEW x \in S, NEW y \in S, <<x, y>> \in R
      PROVE  Cardinality(Preceding(S, R, x)) < Cardinality(Preceding(S, R, y))
  <2>1. /\ Preceding(S, R, x) \in SUBSET Preceding(S, R, y)
        /\ Preceding(S, R, x) # Preceding(S, R, y)
    BY <1>4 DEF Preceding, StrictOrder
  <2> QED
    BY <1>2, <1>3, <2>1
<1> QED
  BY <1>1, <1>3, <1>4

(* There is a sorted sequence to choose: every place goes to the element   *)
(* with that many before it.                                               *)
THEOREM SortedByOrders ==
  ASSUME NEW S, IsFiniteSet(S), NEW R, StrictOrder(S, R)
  PROVE  /\ Cardinality(S) \in Nat
         /\ SortedBy(S, R) \in [1..Cardinality(S) -> S]
         /\ \A x \in S : \E n \in 1..Cardinality(S) : SortedBy(S, R)[n] = x
         /\ \A m, n \in 1..Cardinality(S) :
              m < n => <<SortedBy(S, R)[m], SortedBy(S, R)[n]>> \in R
<1> DEFINE k == Cardinality(S)
           place == [x \in S |-> Cardinality(Preceding(S, R, x)) + 1]
<1>1. k \in Nat
  BY FS_CardinalityType
<1>2. place \in [S -> 1..k]
  BY <1>1, PrecedingGrows
<1>3. \A x, y \in S : <<x, y>> \in R => place[x] < place[y]
  <2> SUFFICES ASSUME NEW x \in S, NEW y \in S, <<x, y>> \in R
               PROVE  place[x] < place[y]
    OBVIOUS
  <2>1. /\ Cardinality(Preceding(S, R, x)) \in 0..(k - 1)
        /\ Cardinality(Preceding(S, R, y)) \in 0..(k - 1)
        /\ Cardinality(Preceding(S, R, x)) < Cardinality(Preceding(S, R, y))
    BY PrecedingGrows
  <2> QED
    BY <1>1, <2>1
<1> HIDE DEF place
<1>5. \A x, y \in S : place[x] = place[y] => x = y
  <2> SUFFICES ASSUME NEW x \in S, NEW y \in S, x # y
               PROVE  place[x] # place[y]
    OBVIOUS
  <2>1. place[x] \in Nat /\ place[y] \in Nat
    BY <1>2
  <2>2. place[x] < place[y] \/ place[y] < place[x]
    BY <1>3 DEF StrictOrder
  <2> QED
    BY <2>1, <2>2
<1>6. place \in Injection(S, 1..k)
  BY <1>2, <1>5 DEF Injection, IsInjective
<1>7. IsFiniteSet(1..k) /\ Cardinality(1..k) = k
  BY <1>1, FS_Interval
<1>8. place \in Surjection(S, 1..k)
  BY <1>6, <1>7, FS_Injection
<1>9. \A n \in 1..k : \E x \in S : place[x] = n
  BY <1>8 DEF Surjection
<1> DEFINE sorted == SortedBy(S, R)
<1>10. \A n \in 1..k : sorted[n] \in S /\ place[sorted[n]] = n
  <2> SUFFICES ASSUME NEW n \in 1..k
               PROVE  sorted[n] \in S /\ place[sorted[n]] = n
    OBVIOUS
  <2>1. sorted[n] = CHOOSE x \in S : Cardinality(Preceding(S, R, x)) = n - 1
    BY DEF SortedBy
  <2>2. \A x \in S : place[x] = n <=> Cardinality(Preceding(S, R, x)) = n - 1
    BY <1>1, PrecedingGrows DEF place
  <2>3. \E x \in S : Cardinality(Preceding(S, R, x)) = n - 1
    BY <1>9, <2>2
  <2> QED
    BY <2>1, <2>2, <2>3
<1>11. sorted \in [1..k -> S]
  BY <1>10 DEF SortedBy
<1> HIDE DEF sorted
<1>12. ASSUME NEW m \in 1..k, NEW n \in 1..k, m < n
       PROVE  <<sorted[m], sorted[n]>> \in R
  <2>1. /\ sorted[m] \in S /\ sorted[n] \in S
        /\ place[sorted[m]] = m /\ place[sorted[n]] = n
    BY <1>10
  <2>2. sorted[m] # sorted[n]
    BY <1>12, <2>1
  <2>3. <<sorted[n], sorted[m]>> \notin R
    BY <1>3, <1>12, <2>1
  <2> QED
    BY <2>1, <2>2, <2>3 DEF StrictOrder
<1>13. \A x \in S : \E n \in 1..k : sorted[n] = x
  BY <1>2, <1>5, <1>10
<1> QED
  BY <1>1, <1>11, <1>12, <1>13 DEF sorted

(* The smaller and the greater of two numbers.                             *)
LEMMA OfTwo ==
  /\ 0 \in Int /\ 30 \in Int
  /\ \A m, n \in Int :
       /\ Min({m, n}) = IF m <= n THEN m ELSE n
       /\ Max({m, n}) = IF m <= n THEN n ELSE m
       /\ Min({m, n}) \in Int /\ Max({m, n}) \in Int
<1> SUFFICES ASSUME NEW m \in Int, NEW n \in Int
             PROVE  /\ Min({m, n}) = IF m <= n THEN m ELSE n
                    /\ Max({m, n}) = IF m <= n THEN n ELSE m
  OBVIOUS
<1>1. CASE m <= n
  <2>1. \A x \in {m, n} : (\A y \in {m, n} : x =< y) <=> x = m
    BY <1>1
  <2>2. \A x \in {m, n} : (\A y \in {m, n} : x >= y) <=> x = n
    BY <1>1
  <2> QED
    BY <1>1, <2>1, <2>2 DEF Min, Max
<1>2. CASE ~(m <= n)
  <2>1. \A x \in {m, n} : (\A y \in {m, n} : x =< y) <=> x = n
    BY <1>2
  <2>2. \A x \in {m, n} : (\A y \in {m, n} : x >= y) <=> x = m
    BY <1>2
  <2> QED
    BY <1>2, <2>1, <2>2 DEF Min, Max
<1> QED
  BY <1>1, <1>2

(* Numbers in rising order, and in the order of a falling score.           *)
LEMMA RisingOrders ==
  ASSUME NEW S \in SUBSET Nat
  PROVE  /\ StrictOrder(S, Rising(S))
         /\ \A x, y \in S : <<x, y>> \in Rising(S) <=> x < y
  BY DEF StrictOrder, Rising

LEMMA FallingOrders ==
  ASSUME NEW S \in SUBSET Nat, NEW f \in [S -> Nat], NEW R,
         R = {p \in S \X S : f[p[1]] > f[p[2]] \/ (f[p[1]] = f[p[2]] /\ p[1] < p[2])}
  PROVE  /\ StrictOrder(S, R)
         /\ \A x, y \in S : <<x, y>> \in R => f[x] >= f[y]
  BY DEF StrictOrder

LEMMA RisingSorts ==
  ASSUME NEW S \in SUBSET Nat, IsFiniteSet(S)
  PROVE  /\ Cardinality(S) \in Nat
         /\ SortedBy(S, Rising(S)) \in [1..Cardinality(S) -> S]
         /\ \A x \in S : \E n \in 1..Cardinality(S) : SortedBy(S, Rising(S))[n] = x
         /\ \A m, n \in 1..Cardinality(S) :
              m < n => SortedBy(S, Rising(S))[m] < SortedBy(S, Rising(S))[n]
<1> DEFINE R == Rising(S)
           s == SortedBy(S, R)
           k == Cardinality(S)
<1>1. StrictOrder(S, R) /\ \A x, y \in S : <<x, y>> \in R <=> x < y
  BY RisingOrders
<1> HIDE DEF R
<1>2. /\ k \in Nat /\ s \in [1..k -> S]
      /\ \A x \in S : \E n \in 1..k : s[n] = x
      /\ \A m, n \in 1..k : m < n => <<s[m], s[n]>> \in R
  BY <1>1, SortedByOrders
<1> HIDE DEF s, k
<1>3. \A m, n \in 1..k : m < n => s[m] < s[n]
  BY <1>1, <1>2
<1> QED
  BY <1>2, <1>3 DEF s, k, R

(* A finite set of numbers has a greatest and a smallest element.          *)
LEMMA Greatest ==
  ASSUME NEW S \in SUBSET Nat, IsFiniteSet(S), S # {}
  PROVE  /\ Max(S) \in S /\ \A x \in S : x <= Max(S)
         /\ \E m \in S : \A x \in S : m <= x
<1> DEFINE k == Cardinality(S)
           s == SortedBy(S, Rising(S))
<1>1. /\ k \in Nat /\ s \in [1..k -> S]
      /\ \A x \in S : \E n \in 1..k : s[n] = x
      /\ \A m, n \in 1..k : m < n => s[m] < s[n]
  BY RisingSorts
<1> HIDE DEF k, s
<1>2. 1 \in 1..k /\ k \in 1..k
  <2>1. PICK x \in S : TRUE
    OBVIOUS
  <2>2. PICK n \in 1..k : s[n] = x
    BY <1>1
  <2> QED
    BY <1>1, <2>2
<1>3. \A x \in S : x <= s[k] /\ s[1] <= x
  <2> SUFFICES ASSUME NEW x \in S
               PROVE  x <= s[k] /\ s[1] <= x
    OBVIOUS
  <2>1. PICK n \in 1..k : s[n] = x
    BY <1>1
  <2>2. (n < k => s[n] < s[k]) /\ (1 < n => s[1] < s[n])
    BY <1>1, <1>2
  <2>3. s[k] \in Nat /\ s[1] \in Nat /\ s[n] \in Nat
    BY <1>1, <1>2
  <2> QED
    BY <1>1, <2>1, <2>2, <2>3
<1>4. s[k] \in S /\ s[1] \in S
  BY <1>1, <1>2
<1>5. \E m \in S : \A y \in S : m >= y
  BY <1>3, <1>4
<1>6. Max(S) \in S /\ \A y \in S : Max(S) >= y
  BY <1>5 DEF Max
<1> QED
  BY <1>3, <1>4, <1>6

(* The entries that are kept are entries, and all that may stay are kept.  *)
LEMMA FilteredKeeps ==
  ASSUME NEW s, NEW l \in Nat, DOMAIN s = 1..l, NEW S
  PROVE  \E k \in Nat :
           /\ Filtered(s, S) \in [1..k -> S]
           /\ \A n \in 1..k : \E i \in 1..l : Filtered(s, S)[n] = s[i]
           /\ \A i \in 1..l : s[i] \in S => \E n \in 1..k : Filtered(s, S)[n] = s[i]
<1> DEFINE D == {i \in DOMAIN s : s[i] \in S}
           k == Cardinality(D)
           at == SortedBy(D, Rising(D))
<1>1. D \in SUBSET Nat /\ D \subseteq 1..l
  OBVIOUS
<1>2. IsFiniteSet(D)
  BY <1>1, FS_Interval, FS_Subset
<1> HIDE DEF D
<1>3. /\ k \in Nat /\ at \in [1..k -> D]
      /\ \A x \in D : \E n \in 1..k : at[n] = x
  BY <1>1, <1>2, RisingSorts
<1>4. Filtered(s, S) = [n \in 1..k |-> s[at[n]]]
  BY DEF Filtered, D
<1> HIDE DEF k, at
<1>5. \A n \in 1..k : at[n] \in 1..l /\ s[at[n]] \in S
  BY <1>1, <1>3 DEF D
<1>6. Filtered(s, S) \in [1..k -> S]
  BY <1>4, <1>5
<1>7. \A n \in 1..k : Filtered(s, S)[n] = s[at[n]]
  BY <1>4
<1>8. \A n \in 1..k : \E i \in 1..l : Filtered(s, S)[n] = s[i]
  BY <1>5, <1>7
<1>9. ASSUME NEW i \in 1..l, s[i] \in S PROVE \E n \in 1..k : Filtered(s, S)[n] = s[i]
  <2>1. PICK n \in 1..k : at[n] = i
    BY <1>3, <1>9 DEF D
  <2> QED
    BY <1>7, <2>1
<1> QED
  BY <1>3, <1>6, <1>8, <1>9
=============================================================================
