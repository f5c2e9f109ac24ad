---------------------- MODULE DecisionPostgres_proofs ----------------------
(***************************************************************************)
(* The safety properties of DecisionPostgres, for every catalogue, limit   *)
(* and number of writes to the catalogue while a call runs.                *)
(***************************************************************************)
EXTENDS DecisionPostgres, Ordering_proofs, SequenceTheorems, TLAPS

----------------------------------------------------------------------------
(* Lists of candidates.                                                    *)

Distinct(list) == \A i, j \in DOMAIN list : list[i].id = list[j].id => i = j

LEMMA CandidateFields ==
  \A c \in Candidate : c.id \in Tables /\ c.score \in 0..100 /\ c.score \in Int
  BY DEF Candidate

LEMMA FunctionIsList ==
  ASSUME NEW S, NEW n \in Nat, NEW list \in [1..n -> S]
  PROVE  list \in Seq(S)
  OBVIOUS

(* The places 1..n in their order.                                         *)
LEMMA Places ==
  ASSUME NEW n \in Nat
  PROVE  /\ IsFiniteSet(1..n) /\ Cardinality(1..n) = n
         /\ StrictOrder(1..n, {pair \in (1..n) \X (1..n) : pair[1] < pair[2]})
<1>1. IsFiniteSet(1..n) /\ Cardinality(1..n) = n
  BY FS_Interval
<1>2. StrictOrder(1..n, {pair \in (1..n) \X (1..n) : pair[1] < pair[2]})
  BY DEF StrictOrder
<1> QED
  BY <1>1, <1>2

(* decision_postgres.py:132-139: without a repeated id every entry is kept,*)
(* and none overtakes another.                                             *)
LEMMA DeduplicatedKeeps ==
  ASSUME NEW list \in Seq(Candidate), Distinct(list)
  PROVE  \E kept \in [1..Len(list) -> 1..Len(list)] :
           /\ Deduplicated(list) = [n \in 1..Len(list) |-> list[kept[n]]]
           /\ \A j \in 1..Len(list) : \E n \in 1..Len(list) : kept[n] = j
           /\ \A m, n \in 1..Len(list) : m < n => kept[m] < kept[n]
<1> DEFINE n == Len(list)
           Best(t) == Max({list[j].score : j \in {k \in DOMAIN list : list[k].id = t}})
           kept == SortedBy(1..n, {pair \in (1..n) \X (1..n) : pair[1] < pair[2]})
<1>1. n \in Nat /\ DOMAIN list = 1..n /\ \A i \in 1..n : list[i] \in Candidate
  BY LenProperties, ElementOfSeq
<1>2. {i \in DOMAIN list : \A j \in 1..(i - 1) : list[j].id # list[i].id} = 1..n
  BY <1>1 DEF Distinct
<1>3. /\ kept \in [1..n -> 1..n]
      /\ \A j \in 1..n : \E m \in 1..n : kept[m] = j
      /\ \A l, m \in 1..n : l < m => kept[l] < kept[m]
  <2> DEFINE R == {pair \in (1..n) \X (1..n) : pair[1] < pair[2]}
  <2>1. IsFiniteSet(1..n) /\ Cardinality(1..n) = n /\ StrictOrder(1..n, R)
    BY <1>1, Places
  <2>2. /\ SortedBy(1..n, R) \in [1..n -> 1..n]
        /\ \A j \in 1..n : \E m \in 1..n : SortedBy(1..n, R)[m] = j
        /\ \A l, m \in 1..n : l < m => <<SortedBy(1..n, R)[l], SortedBy(1..n, R)[m]>> \in R
    <3> HIDE DEF R, n
    <3> QED
      BY <2>1, SortedByOrders
  <2> QED
    BY <2>2
<1>4. Deduplicated(list) =
        [m \in DOMAIN kept |-> [id |-> list[kept[m]].id, score |-> Best(list[kept[m]].id)]]
  BY <1>2 DEF Deduplicated
<1> HIDE DEF kept
<1>5. ASSUME NEW i \in 1..n
      PROVE  [id |-> list[i].id, score |-> Best(list[i].id)] = list[i]
  <2>1. {k \in DOMAIN list : list[k].id = list[i].id} = {i}
    BY <1>1 DEF Distinct
  <2>2. {list[j].score : j \in {k \in DOMAIN list : list[k].id = list[i].id}} = {list[i].score}
    BY <2>1
  <2>3. list[i].score \in 0..100
    BY <1>1 DEF Candidate
  <2>4. Max({list[i].score}) = list[i].score
    BY <2>3 DEF Max
  <2>5. Best(list[i].id) = list[i].score
    BY <2>2, <2>4
  <2> HIDE DEF Best
  <2> QED
    BY <1>1, <2>5 DEF Candidate
<1> HIDE DEF Best
<1>6. Deduplicated(list) = [m \in 1..n |-> list[kept[m]]]
  BY <1>3, <1>4, <1>5
<1> QED
  BY <1>3, <1>6

(* decision_postgres.py:140-144: sorted puts every entry somewhere, higher *)
(* scores first and equal scores as they were.                             *)
LEMMA SortedSorts ==
  ASSUME NEW list \in Seq(Candidate)
  PROVE  \E order \in [1..Len(list) -> 1..Len(list)] :
           /\ Sorted(list) = [i \in 1..Len(list) |-> list[order[i]]]
           /\ \A j \in 1..Len(list) : \E i \in 1..Len(list) : order[i] = j
           /\ \A i, j \in 1..Len(list) : i < j => Precedes(list, order[i], order[j])
<1> DEFINE n == Len(list)
           R == {pair \in (1..n) \X (1..n) : Precedes(list, pair[1], pair[2])}
           order == SortedBy(1..n, R)
<1>1. n \in Nat /\ DOMAIN list = 1..n /\ \A i \in 1..n : list[i] \in Candidate
  BY LenProperties, ElementOfSeq
<1>2. \A i \in 1..n : list[i].score \in Int
  BY <1>1, CandidateFields
<1>3. StrictOrder(1..n, R)
  BY <1>1, <1>2, SMTT(20) DEF StrictOrder, Precedes
<1>4. IsFiniteSet(1..n) /\ Cardinality(1..n) = n
  BY <1>1, Places
<1>5. /\ order \in [1..n -> 1..n]
      /\ \A j \in 1..n : \E i \in 1..n : order[i] = j
      /\ \A i, j \in 1..n : i < j => <<order[i], order[j]>> \in R
  <2> HIDE DEF R, n
  <2> QED
    BY <1>3, <1>4, SortedByOrders
<1>6. Sorted(list) = [i \in 1..n |-> list[order[i]]]
  BY <1>1 DEF Sorted
<1> HIDE DEF order
<1>7. \A i, j \in 1..n : i < j => Precedes(list, order[i], order[j])
  BY <1>5
<1> QED
  BY <1>5, <1>6, <1>7

(* decision_postgres.py:132-144: what is left of a list without repeated   *)
(* ids are topK entries that precede all the others, or all of them.       *)
LEMMA RankedBest ==
  ASSUME topK \in Nat \ {0}, NEW list \in Seq(Candidate), Distinct(list)
  PROVE  /\ Ranked(list) \in Seq(Candidate)
         /\ Distinct(Ranked(list))
         /\ Len(Ranked(list)) = IF topK <= Len(list) THEN topK ELSE Len(list)
         /\ \A i \in 1..Len(Ranked(list)) : \E j \in 1..Len(list) : Ranked(list)[i] = list[j]
         /\ \A j \in 1..Len(list) :
              \/ \E i \in 1..Len(Ranked(list)) : Ranked(list)[i] = list[j]
              \/ /\ Len(Ranked(list)) = topK
                 /\ \A i \in 1..Len(Ranked(list)) :
                      \E k \in 1..Len(list) :
                        Ranked(list)[i] = list[k] /\ Precedes(list, k, j)
<1> DEFINE n == Len(list)
           ded == Deduplicated(list)
           all == Sorted(ded)
           m == Min({topK, n})
           r == SubSeq(all, 1, m)
<1>1. n \in Nat /\ DOMAIN list = 1..n /\ \A i \in 1..n : list[i] \in Candidate
  BY LenProperties, ElementOfSeq
<1>2. PICK kept \in [1..n -> 1..n] :
        /\ ded = [i \in 1..n |-> list[kept[i]]]
        /\ \A j \in 1..n : \E i \in 1..n : kept[i] = j
        /\ \A i, j \in 1..n : i < j => kept[i] < kept[j]
  BY DeduplicatedKeeps
<1> HIDE DEF ded
<1>3. ded \in Seq(Candidate) /\ Len(ded) = n
  <2>1. ded \in [1..n -> Candidate]
    BY <1>1, <1>2
  <2>2. ded \in Seq(Candidate)
    BY <1>1, <2>1
  <2>3. DOMAIN ded = 1..n /\ DOMAIN ded = 1..Len(ded) /\ Len(ded) \in Nat
    BY <2>1, <2>2, LenProperties
  <2> QED
    BY <1>1, <2>2, <2>3
<1>4. PICK order \in [1..n -> 1..n] :
        /\ all = [i \in 1..n |-> ded[order[i]]]
        /\ \A j \in 1..n : \E i \in 1..n : order[i] = j
        /\ \A i, j \in 1..n : i < j => Precedes(ded, order[i], order[j])
  BY <1>3, SortedSorts
<1> HIDE DEF all, n
<1> DEFINE place == [i \in 1..n |-> kept[order[i]]]
<1>5. /\ place \in [1..n -> 1..n]
      /\ all = [i \in 1..n |-> list[place[i]]]
      /\ \A j \in 1..n : \E i \in 1..n : place[i] = j
  <2>1. place \in [1..n -> 1..n]
    OBVIOUS
  <2>2. all = [i \in 1..n |-> list[place[i]]]
    BY <1>2, <1>4
  <2>3. ASSUME NEW j \in 1..n
        PROVE  \E i \in 1..n : place[i] = j
    <3>1. PICK k \in 1..n : kept[k] = j
      BY <1>2
    <3>2. PICK i \in 1..n : order[i] = k
      BY <1>4
    <3> QED
      BY <3>1, <3>2
  <2> QED
    BY <2>1, <2>2, <2>3
<1>6. ASSUME NEW i \in 1..n, NEW j \in 1..n, i < j
      PROVE  Precedes(list, place[i], place[j])
  <2>1. Precedes(ded, order[i], order[j])
    BY <1>4, <1>6
  <2>2. ded[order[i]] = list[place[i]] /\ ded[order[j]] = list[place[j]]
    BY <1>2
  <2>3. order[i] < order[j] => place[i] < place[j]
    BY <1>2
  <2> QED
    BY <2>1, <2>2, <2>3 DEF Precedes
<1> HIDE DEF place
<1>7. all \in Seq(Candidate) /\ Len(all) = n
  <2>1. all \in [1..n -> Candidate]
    BY <1>1, <1>5
  <2>2. all \in Seq(Candidate)
    BY <1>1, <2>1
  <2>3. DOMAIN all = 1..n /\ DOMAIN all = 1..Len(all) /\ Len(all) \in Nat
    BY <2>1, <2>2, LenProperties
  <2> QED
    BY <1>1, <2>2, <2>3
<1>8. m = IF topK <= n THEN topK ELSE n
  <2>1. topK \in Int /\ n \in Int
    BY <1>1
  <2> QED
    BY <2>1, OfTwo, Zenon
<1>9. Ranked(list) = r
  BY <1>7 DEF Ranked, all, ded
<1> HIDE DEF m
<1>10. m \in 0..n
  BY <1>1, <1>8
<1>11. \A i \in 1..m : all[i] \in Candidate
  BY <1>1, <1>5, <1>10
<1>12. /\ r \in Seq(Candidate)
       /\ Len(r) = IF 1 <= m THEN m - 1 + 1 ELSE 0
       /\ \A i \in 1..(m - 1 + 1) : r[i] = all[1 + i - 1]
  BY <1>10, <1>11, SubSeqProperties
<1>13. Len(r) = m
  BY <1>10, <1>12
<1>14. \A i \in 1..m : i \in 1..n /\ r[i] = list[place[i]]
  BY <1>1, <1>5, <1>10, <1>12
<1> HIDE DEF r
<1>15. \A i, j \in 1..n : place[i] = place[j] => i = j
  <2> SUFFICES ASSUME NEW i \in 1..n, NEW j \in 1..n, place[i] = place[j], i # j
               PROVE  FALSE
    OBVIOUS
  <2>1. Precedes(list, place[i], place[i])
    <3>1. i < j \/ j < i
      BY <1>1
    <3> QED
      BY <1>6, <3>1
  <2>2. place[i] \in 1..n
    BY <1>5
  <2>3. list[place[i]] \in Candidate
    BY <1>1, <2>2, Zenon
  <2>5. place[i] \in Int
    <3>1. \A x \in 1..n : x \in Int
      OBVIOUS
    <3> QED
      BY <2>2, <3>1, Zenon
  <2>4. list[place[i]].score \in Int
    BY <2>3, CandidateFields
  <2> QED
    BY <2>1, <2>4, <2>5 DEF Precedes
<1>16. Distinct(r)
  <2>1. DOMAIN r = 1..m
    BY <1>12, <1>13, LenProperties
  <2> SUFFICES ASSUME NEW i \in 1..m, NEW j \in 1..m, r[i].id = r[j].id
               PROVE  i = j
    BY <2>1 DEF Distinct
  <2>2. i \in 1..n /\ j \in 1..n /\ r[i] = list[place[i]] /\ r[j] = list[place[j]]
    BY <1>14
  <2>3. place[i] \in DOMAIN list /\ place[j] \in DOMAIN list
    BY <1>1, <1>5, <2>2
  <2>4. place[i] = place[j]
    BY <2>2, <2>3 DEF Distinct
  <2> QED
    BY <1>15, <2>2, <2>4
<1>17. ASSUME NEW j \in 1..n, \A i \in 1..m : r[i] # list[j]
       PROVE  /\ m = topK
              /\ \A i \in 1..m : \E k \in 1..n : r[i] = list[k] /\ Precedes(list, k, j)
  <2>1. PICK l \in 1..n : place[l] = j
    BY <1>5
  <2>2. l \in Int /\ m \in Int /\ ~(l <= m)
    <3>1. l \in Nat /\ l >= 1 /\ m \in Nat
      BY <1>1, <1>10
    <3>2. ASSUME l <= m PROVE FALSE
      <4>1. l \in 1..m
        BY <3>1, <3>2
      <4> QED
        BY <1>14, <1>17, <2>1, <4>1
    <3> QED
      BY <3>1, <3>2
  <2>3. m = topK
    BY <1>8, <1>10, <2>2
  <2>4. ASSUME NEW i \in 1..m
        PROVE  \E k \in 1..n : r[i] = list[k] /\ Precedes(list, k, j)
    <3>1. i \in 1..n /\ i < l
      BY <1>14, <2>2
    <3>2. Precedes(list, place[i], place[l])
      BY <1>6, <3>1
    <3>3. place[i] \in 1..n /\ r[i] = list[place[i]]
      BY <1>5, <1>14, <3>1
    <3> QED
      BY <2>1, <3>2, <3>3
  <2> QED
    BY <2>3, <2>4
<1>18. \A i \in 1..m : \E j \in 1..n : r[i] = list[j]
  BY <1>5, <1>14
<1>19. Len(Ranked(list)) = m
  BY <1>9, <1>13
<1> QED
  BY <1>8, <1>9, <1>12, <1>13, <1>16, <1>17, <1>18 DEF n

(* decision_postgres.py:123-125 and 128-130: the rows fetched for a set of *)
(* ids are one entry for each, in some order.                              *)
LEMMA ListedLists ==
  ASSUME NEW ids \in SUBSET Tables, NEW score \in 0..100, NEW list \in Listed(ids, score)
  PROVE  /\ list \in Seq(Candidate) /\ Distinct(list)
         /\ Range(list) = {[id |-> t, score |-> score] : t \in ids}
<1> DEFINE n == Cardinality(ids)
<1>1. IsFiniteSet(ids) /\ n \in Nat
  BY CatalogueAssumption, FS_Subset, FS_CardinalityType
<1>2. PICK s \in SetToSeqs(ids) : list = [i \in DOMAIN s |-> [id |-> s[i], score |-> score]]
  BY DEF Listed
<1>3. s \in [1..n -> ids] /\ \A i, j \in 1..n : i # j => s[i] # s[j]
  BY <1>2 DEF SetToSeqs
<1>4. IsFiniteSet(1..n) /\ Cardinality(1..n) = n
  BY <1>1, Places
<1>5. s \in Injection(1..n, ids)
  BY <1>3 DEF Injection, IsInjective
<1>6. s \in Surjection(1..n, ids)
  BY <1>1, <1>4, <1>5, FS_Injection
<1> HIDE DEF n
<1>7. list = [i \in 1..n |-> [id |-> s[i], score |-> score]]
  BY <1>2, <1>3
<1>8. list \in [1..n -> Candidate]
  BY <1>3, <1>7 DEF Candidate
<1>9. list \in Seq(Candidate)
  BY <1>1, <1>8
<1>10. Distinct(list)
  BY <1>3, <1>7 DEF Distinct
<1>11. Range(list) = {[id |-> t, score |-> score] : t \in ids}
  <2>1. \A t \in ids : \E i \in 1..n : s[i] = t
    BY <1>6 DEF Surjection
  <2>2. \A i \in 1..n : s[i] \in ids
    BY <1>3
  <2> QED
    BY <1>7, <2>1, <2>2 DEF Range
<1> QED
  BY <1>9, <1>10, <1>11

(* list holds what a and b hold, with b after the first lead entries of a. *)
Merges(list, a, b, lead) ==
  /\ list \in Seq(Candidate) /\ Distinct(list)
  /\ Range(list) = Range(a) \cup Range(b)
  /\ \A j \in 1..Len(list) :
       \/ /\ list[j] \in Range(b)
          /\ \A i \in 1..(j - 1) :
               list[i] \in Range(b) \/ \E q \in 1..lead : list[i] = a[q]
       \/ \E p \in 1..Len(a) :
            /\ list[j] = a[p]
            /\ \A i \in 1..(j - 1) :
                 list[i] \in Range(b) \/ \E q \in 1..(p - 1) : list[i] = a[q]

LEMMA InsertedMerges ==
  ASSUME NEW a \in Seq(Candidate), NEW b \in Seq(Candidate), Distinct(a), Distinct(b),
         NEW lead \in 0..Len(a), NEW list \in Seq(Candidate),
         \A i \in 1..Len(a), j \in 1..Len(b) : a[i].id # b[j].id,
         Len(list) = Len(a) + Len(b),
         \A j \in 1..Len(list) :
           list[j] = IF j <= lead THEN a[j]
                     ELSE IF j <= lead + Len(b) THEN b[j - lead] ELSE a[j - Len(b)]
  PROVE  Merges(list, a, b, lead)
<1> DEFINE m == Len(a)
           k == Len(b)
           n == Len(list)
<1>1. /\ m \in Nat /\ k \in Nat /\ n = m + k /\ n \in Nat /\ lead \in 0..m
      /\ DOMAIN a = 1..m /\ DOMAIN b = 1..k /\ DOMAIN list = 1..n
  BY LenProperties
<1>2. \A j \in 1..n : list[j] = IF j <= lead THEN a[j]
                                ELSE IF j <= lead + k THEN b[j - lead] ELSE a[j - k]
  OBVIOUS
<1>3. /\ \A i, j \in 1..m : a[i].id = a[j].id => i = j
      /\ \A i, j \in 1..k : b[i].id = b[j].id => i = j
      /\ \A i \in 1..m, j \in 1..k : a[i].id # b[j].id
  BY <1>1 DEF Distinct
<1> HIDE DEF m, k, n
<1>4. \A j \in 1..n :
        \/ j <= lead /\ j \in 1..m /\ list[j] = a[j]
        \/ lead < j /\ j <= lead + k /\ (j - lead) \in 1..k /\ list[j] = b[j - lead]
        \/ lead + k < j /\ (j - k) \in 1..m /\ list[j] = a[j - k]
  BY <1>1, <1>2
<1>5. Distinct(list)
  <2> SUFFICES ASSUME NEW i \in 1..n, NEW j \in 1..n, list[i].id = list[j].id
               PROVE  i = j
    BY <1>1 DEF Distinct
  <2>1. i \in Int /\ j \in Int /\ lead \in Int /\ k \in Int
    BY <1>1
  <2>2. CASE i <= lead /\ i \in 1..m /\ list[i] = a[i]
    BY <1>1, <1>3, <1>4, <2>1, <2>2
  <2>3. CASE /\ lead < i /\ i <= lead + k /\ (i - lead) \in 1..k
             /\ list[i] = b[i - lead]
    BY <1>1, <1>3, <1>4, <2>1, <2>3
  <2>4. CASE lead + k < i /\ (i - k) \in 1..m /\ list[i] = a[i - k]
    BY <1>1, <1>3, <1>4, <2>1, <2>4
  <2> QED
    BY <1>4, <2>2, <2>3, <2>4
<1>6. \A p \in 1..m : \E j \in 1..n : list[j] = a[p]
  <2> SUFFICES ASSUME NEW p \in 1..m
               PROVE  \E j \in 1..n : list[j] = a[p]
    OBVIOUS
  <2>1. CASE p <= lead
    BY <1>1, <1>2, <2>1
  <2>2. CASE ~(p <= lead)
    <3>1. p + k \in 1..n /\ ~(p + k <= lead) /\ ~(p + k <= lead + k) /\ (p + k) - k = p
      BY <1>1, <2>2
    <3>2. list[p + k] = a[p]
      BY <1>2, <3>1
    <3> QED
      BY <3>1, <3>2
  <2> QED
    BY <2>1, <2>2
<1>7. \A q \in 1..k : \E j \in 1..n : list[j] = b[q]
  <2> SUFFICES ASSUME NEW q \in 1..k
               PROVE  \E j \in 1..n : list[j] = b[q]
    OBVIOUS
  <2>1. /\ q + lead \in 1..n /\ ~(q + lead <= lead) /\ q + lead <= lead + k
        /\ (q + lead) - lead = q
    BY <1>1
  <2>2. list[q + lead] = b[q]
    BY <1>2, <2>1
  <2> QED
    BY <2>1, <2>2
<1>8. Range(list) = Range(a) \cup Range(b)
  <2>1. \A j \in 1..n : list[j] \in Range(a) \cup Range(b)
    BY <1>1, <1>4, ZenonT(30) DEF Range
  <2>2. \A p \in 1..m : a[p] \in Range(list)
    BY <1>1, <1>6 DEF Range
  <2>3. \A q \in 1..k : b[q] \in Range(list)
    BY <1>1, <1>7 DEF Range
  <2> QED
    BY <1>1, <2>1, <2>2, <2>3, ZenonT(30) DEF Range
<1>9. \A q \in 1..k : b[q] \in Range(b)
  BY <1>1 DEF Range
<1>10. ASSUME NEW j \in 1..n
       PROVE  \/ /\ list[j] \in Range(b)
                 /\ \A i \in 1..(j - 1) :
                      list[i] \in Range(b) \/ \E q \in 1..lead : list[i] = a[q]
              \/ \E p \in 1..m :
                   /\ list[j] = a[p]
                   /\ \A i \in 1..(j - 1) :
                        list[i] \in Range(b) \/ \E q \in 1..(p - 1) : list[i] = a[q]
  <2>1. /\ j \in Int /\ lead \in Int /\ k \in Int /\ m \in Int
        /\ \A i \in 1..(j - 1) : i \in 1..n /\ i \in Int /\ i < j
    BY <1>1
  <2>2. CASE j <= lead /\ j \in 1..m /\ list[j] = a[j]
    <3>1. ASSUME NEW i \in 1..(j - 1)
          PROVE  \E q \in 1..(j - 1) : list[i] = a[q]
      BY <1>2, <2>1, <2>2, SMTT(20)
    <3> QED
      BY <2>2, <3>1
  <2>3. CASE lead < j /\ j <= lead + k /\ (j - lead) \in 1..k /\ list[j] = b[j - lead]
    <3>1. ASSUME NEW i \in 1..(j - 1)
          PROVE  list[i] \in Range(b) \/ \E q \in 1..lead : list[i] = a[q]
      <4>1. i \in 1..n /\ i \in Int /\ i < j
        BY <2>1
      <4>2. CASE i <= lead
        BY <1>2, <4>1, <4>2
      <4>3. CASE ~(i <= lead)
        <5>1. i - lead \in 1..k /\ i <= lead + k
          BY <2>1, <2>3, <4>1, <4>3
        <5> QED
          BY <1>2, <1>9, <4>1, <4>3, <5>1
      <4> QED
        BY <4>2, <4>3
    <3> QED
      BY <1>9, <2>3, <3>1
  <2>4. CASE lead + k < j /\ (j - k) \in 1..m /\ list[j] = a[j - k]
    <3>1. ASSUME NEW i \in 1..(j - 1)
          PROVE  list[i] \in Range(b) \/ \E q \in 1..((j - k) - 1) : list[i] = a[q]
      <4>1. i \in 1..n /\ i \in Int /\ i < j
        BY <2>1
      <4>2. CASE i <= lead
        <5>1. i \in 1..((j - k) - 1) /\ list[i] = a[i]
          BY <1>2, <2>1, <2>4, <4>1, <4>2
        <5> QED
          BY <5>1
      <4>3. CASE ~(i <= lead) /\ i <= lead + k
        <5>1. i - lead \in 1..k
          BY <2>1, <4>1, <4>3
        <5> QED
          BY <1>2, <1>9, <4>1, <4>3, <5>1
      <4>4. CASE ~(i <= lead) /\ ~(i <= lead + k)
        <5>1. (i - k) \in 1..((j - k) - 1) /\ list[i] = a[i - k]
          BY <1>1, <1>2, <2>1, <2>4, <4>1, <4>4
        <5> QED
          BY <5>1
      <4> QED
        BY <4>2, <4>3, <4>4
    <3> QED
      BY <2>4, <3>1
  <2> QED
    BY <1>4, <2>2, <2>3, <2>4
<1> QED
  BY <1>5, <1>8, <1>10 DEF Merges, m, n

(* decision_postgres.py:123-130: insert(0, ...) of each row fetched puts   *)
(* them all before the list, insert(1, ...) all after its first entry.     *)
LEMMA InsertsMerge ==
  ASSUME NEW a \in Seq(Candidate), NEW b \in Seq(Candidate), Distinct(a), Distinct(b),
         \A i \in 1..Len(a), j \in 1..Len(b) : a[i].id # b[j].id
  PROVE  /\ Merges(b \o a, a, b, 0)
         /\ \E lead \in {0, 1} :
              Merges(SubSeq(a, 1, 1) \o b \o SubSeq(a, 2, Len(a)), a, b, lead)
<1> DEFINE m == Len(a)
           k == Len(b)
<1>1. m \in Nat /\ k \in Nat /\ \A i \in 1..m : a[i] \in Candidate
  BY LenProperties, ElementOfSeq
<1>2. /\ b \o a \in Seq(Candidate) /\ Len(b \o a) = k + m
      /\ \A i \in 1..(k + m) : (b \o a)[i] = IF i <= k THEN b[i] ELSE a[i - k]
  BY ConcatProperties
<1>3. Merges(b \o a, a, b, 0)
  <2> DEFINE list == b \o a
  <2>1. 0 \in 0..Len(a) /\ Len(list) = Len(a) + Len(b)
    BY <1>1, <1>2
  <2>2. \A j \in 1..Len(list) :
          list[j] = IF j <= 0 THEN a[j]
                    ELSE IF j <= 0 + Len(b) THEN b[j - 0] ELSE a[j - Len(b)]
    BY <1>1, <1>2
  <2>3. list \in Seq(Candidate)
    BY <1>2
  <2> HIDE DEF list
  <2>4. Merges(list, a, b, 0)
    BY <2>1, <2>2, <2>3, InsertedMerges
  <2> QED
    BY <2>4 DEF list
<1> HIDE DEF k
<1>4. PICK lead \in {0, 1} : lead = IF m = 0 THEN 0 ELSE 1
  OBVIOUS
<1> DEFINE h == SubSeq(a, 1, 1)
           t == SubSeq(a, 2, m)
           list == h \o b \o t
<1>5. /\ h \in Seq(Candidate) /\ Len(h) = lead
      /\ \A i \in 1..lead : h[i] = a[i]
  <2>1. CASE m = 0
    <3>1. a = <<>>
      BY <2>1, EmptySeq
    <3>2. h = <<>>
      BY <3>1, <2>1, <1>1
    <3> QED
      BY <1>4, <2>1, <3>2, EmptySeq
  <2>2. CASE m # 0
    <3>1. \A i \in 1..1 : a[i] \in Candidate
      BY <1>1, <2>2
    <3> QED
      BY <1>4, <2>2, <3>1, SubSeqProperties
  <2> QED
    BY <2>1, <2>2
<1>6. /\ t \in Seq(Candidate) /\ Len(t) = m - lead
      /\ \A i \in 1..(m - lead) : t[i] = a[i + lead]
  <2>1. \A i \in 2..m : a[i] \in Candidate
    BY <1>1
  <2>2. /\ t \in Seq(Candidate)
        /\ Len(t) = IF 2 <= m THEN m - 2 + 1 ELSE 0
        /\ \A i \in 1..(m - 2 + 1) : t[i] = a[2 + i - 1]
    BY <1>1, <2>1, SubSeqProperties
  <2> HIDE DEF t, m
  <2>3. CASE m = 0
    BY <1>4, <2>2, <2>3
  <2>4. CASE m # 0
    <3>1. m - lead = m - 2 + 1 /\ Len(t) = m - lead
      BY <1>1, <1>4, <2>2, <2>4
    <3>2. \A i \in 1..(m - lead) : t[i] = a[i + lead]
      BY <1>1, <1>4, <2>2, <2>4
    <3> QED
      BY <2>2, <3>1, <3>2
  <2> QED
    BY <2>3, <2>4
<1>7. /\ h \o b \in Seq(Candidate) /\ Len(h \o b) = lead + k
      /\ \A i \in 1..(lead + k) : (h \o b)[i] = IF i <= lead THEN h[i] ELSE b[i - lead]
  <2> HIDE DEF h
  <2> QED
    BY <1>5, ConcatProperties DEF k
<1> HIDE DEF h, t, m
<1>8. /\ list \in Seq(Candidate) /\ Len(list) = (lead + k) + (m - lead)
      /\ \A i \in 1..((lead + k) + (m - lead)) :
           list[i] = IF i <= lead + k THEN (h \o b)[i] ELSE t[i - (lead + k)]
  <2> DEFINE hb == h \o b
  <2>1. hb \in Seq(Candidate) /\ Len(hb) = lead + k
    BY <1>7
  <2> HIDE DEF hb
  <2>2. /\ hb \o t \in Seq(Candidate) /\ Len(hb \o t) = Len(hb) + Len(t)
        /\ \A i \in 1..(Len(hb) + Len(t)) :
             (hb \o t)[i] = IF i <= Len(hb) THEN hb[i] ELSE t[i - Len(hb)]
    BY <1>6, <2>1, ConcatProperties, ZenonT(30)
  <2>3. list = hb \o t
    BY DEF hb
  <2> HIDE DEF list
  <2>4. /\ list \in Seq(Candidate) /\ Len(list) = (lead + k) + (m - lead)
        /\ \A i \in 1..((lead + k) + (m - lead)) :
             list[i] = IF i <= lead + k THEN hb[i] ELSE t[i - (lead + k)]
    BY <1>6, <2>1, <2>2, <2>3
  <2> QED
    BY <2>4 DEF hb
<1> HIDE DEF list
<1>9. Len(list) = m + k /\ lead \in 0..m
  BY <1>1, <1>4, <1>8
<1>10. \A j \in 1..Len(list) :
         list[j] = IF j <= lead THEN a[j]
                   ELSE IF j <= lead + k THEN b[j - lead] ELSE a[j - k]
  <2> SUFFICES ASSUME NEW j \in 1..(m + k)
               PROVE  list[j] = IF j <= lead THEN a[j]
                                ELSE IF j <= lead + k THEN b[j - lead] ELSE a[j - k]
    BY <1>9
  <2>1. j \in Int /\ lead \in Int /\ k \in Int /\ m \in Int /\ j >= 1 /\ j <= m + k
        /\ (lead + k) + (m - lead) = m + k
    BY <1>1, <1>9
  <2>2. CASE j <= lead
    <3>1. /\ j \in 1..lead /\ j \in 1..(lead + k) /\ j <= lead + k
          /\ j \in 1..((lead + k) + (m - lead))
      BY <1>1, <1>9, <2>1, <2>2
    <3>2. list[j] = (h \o b)[j] /\ (h \o b)[j] = h[j] /\ h[j] = a[j]
      BY <1>5, <1>7, <1>8, <2>2, <3>1
    <3> QED
      BY <2>2, <3>2
  <2>3. CASE ~(j <= lead) /\ j <= lead + k
    <3>1. j \in 1..(lead + k) /\ j \in 1..((lead + k) + (m - lead))
      BY <1>1, <1>9, <2>1, <2>3
    <3>2. list[j] = (h \o b)[j] /\ (h \o b)[j] = b[j - lead]
      BY <1>7, <1>8, <2>3, <3>1
    <3> QED
      BY <2>3, <3>2
  <2>4. CASE ~(j <= lead + k)
    <3>1. j - (lead + k) \in 1..(m - lead) /\ (j - (lead + k)) + lead = j - k
      BY <2>1, <2>4
    <3>2. list[j] = a[j - k]
      BY <1>6, <1>8, <2>1, <2>4, <3>1
    <3> QED
      BY <1>1, <2>1, <2>4, <3>2
  <2> QED
    BY <2>2, <2>3, <2>4
<1>11. Merges(list, a, b, lead)
  <2> USE DEF m, k
  <2> QED
    BY <1>8, <1>9, <1>10, InsertedMerges
<1> QED
  BY <1>3, <1>4, <1>11 DEF list, h, t, m

----------------------------------------------------------------------------
(* What a list of candidates says of the catalogue.                        *)

(* The search found the table, or could have but for a write.              *)
Excused(t) ==
  t \in touched.tables \/ (t \in Near /\ (t \in Nearest \/ touched.tables # {}))

(* Among the highest scores a mapped table comes after mapped ones only.   *)
Ahead(list, direct) ==
  \A j \in 1..Len(list) :
    list[j].id \in direct =>
      \/ Excused(list[j].id)
      \/ /\ list[j].score = 100
         /\ \A i \in 1..(j - 1) : list[i].score = 100 => list[i].id \in direct

CrowdedByMapped(list, direct) ==
  \A t \in direct :
    \/ t \in IdsOf(list) \/ Excused(t)
    \/ /\ Len(list) = topK
       /\ \A i \in 1..Len(list) : list[i].id \in direct /\ list[i].score = 100

BestOf(list, rows) ==
  /\ Range(list) \subseteq rows
  /\ Len(list) = Min({topK, Cardinality(rows)})
  /\ \A w \in rows \ Range(list) : \A i \in DOMAIN list : list[i].score >= w.score

(* decision_postgres.py:140-144: cutting the ranking never drops a mapped  *)
(* table for one that is not, as long as they are ahead.                   *)
LEMMA RankedKeepsMapped ==
  ASSUME topK \in Nat \ {0}, NEW list \in Seq(Candidate), Distinct(list), NEW direct,
         Ahead(list, direct), direct \subseteq IdsOf(list) \cup touched.tables
  PROVE  CrowdedByMapped(Ranked(list), direct)
<1> DEFINE r == Ranked(list)
<1>1. DOMAIN list = 1..Len(list) /\ \A j \in 1..Len(list) : list[j] \in Candidate
  BY LenProperties, ElementOfSeq
<1>2. /\ r \in Seq(Candidate)
      /\ \A j \in 1..Len(list) :
           \/ \E i \in 1..Len(r) : r[i] = list[j]
           \/ /\ Len(r) = topK
              /\ \A i \in 1..Len(r) :
                   \E k \in 1..Len(list) : r[i] = list[k] /\ Precedes(list, k, j)
  BY RankedBest
<1> HIDE DEF r
<1>3. DOMAIN r = 1..Len(r)
  BY <1>2, LenProperties
<1> SUFFICES ASSUME NEW t \in direct, t \notin IdsOf(r), ~Excused(t)
             PROVE  /\ Len(r) = topK
                    /\ \A i \in 1..Len(r) : r[i].id \in direct /\ r[i].score = 100
  BY DEF CrowdedByMapped, r
<1>4. PICK j \in 1..Len(list) : list[j].id = t
  <2>1. t \in IdsOf(list)
    BY DEF Excused
  <2> QED
    BY <1>1, <2>1 DEF IdsOf
<1>5. /\ list[j].score = 100
      /\ \A i \in 1..(j - 1) : list[i].score = 100 => list[i].id \in direct
  BY <1>4 DEF Ahead
<1>6. \A i \in 1..Len(r) : r[i] # list[j]
  BY <1>3, <1>4 DEF IdsOf
<1>7. /\ Len(r) = topK
      /\ \A i \in 1..Len(r) :
           \E k \in 1..Len(list) : r[i] = list[k] /\ Precedes(list, k, j)
  BY <1>2, <1>6
<1>8. ASSUME NEW i \in 1..Len(r)
      PROVE  r[i].id \in direct /\ r[i].score = 100
  <2>1. PICK k \in 1..Len(list) : r[i] = list[k] /\ Precedes(list, k, j)
    BY <1>7
  <2>2. list[k] \in Candidate
    BY <1>1, Zenon
  <2>3. list[k].score = 100 /\ k < j
    <3> DEFINE x == list[k].score
    <3>1. x \in 0..100
      BY <2>2, CandidateFields
    <3>2. x > 100 \/ (x = 100 /\ k < j)
      BY <1>5, <2>1 DEF Precedes
    <3> HIDE DEF x
    <3>3. x = 100 /\ k < j
      BY <3>1, <3>2
    <3> QED
      BY <3>3 DEF x
  <2>4. k \in 1..(j - 1)
    BY <1>1, <2>3
  <2> QED
    BY <1>5, <2>1, <2>3, <2>4
<1> QED
  BY <1>7, <1>8

(* The best topK of a list without repeated ids are the best of its rows.  *)
LEMMA RankedIsBest ==
  ASSUME topK \in Nat \ {0}, NEW list \in Seq(Candidate), Distinct(list)
  PROVE  BestOf(Ranked(list), Range(list))
<1> DEFINE r == Ranked(list)
           n == Len(list)
<1>1. n \in Nat /\ DOMAIN list = 1..n /\ \A j \in 1..n : list[j] \in Candidate
  BY LenProperties, ElementOfSeq
<1>2. /\ r \in Seq(Candidate)
      /\ Len(r) = IF topK <= n THEN topK ELSE n
      /\ \A i \in 1..Len(r) : \E j \in 1..n : r[i] = list[j]
      /\ \A j \in 1..n :
           \/ \E i \in 1..Len(r) : r[i] = list[j]
           \/ /\ Len(r) = topK
              /\ \A i \in 1..Len(r) :
                   \E k \in 1..n : r[i] = list[k] /\ Precedes(list, k, j)
  BY RankedBest
<1> HIDE DEF r
<1>3. DOMAIN r = 1..Len(r)
  BY <1>2, LenProperties
<1>4. Cardinality(Range(list)) = n
  <2> DEFINE row == [j \in 1..n |-> list[j]]
  <2>1. row \in [1..n -> Range(list)] /\ \A x \in Range(list) : \E j \in 1..n : row[j] = x
    BY <1>1 DEF Range
  <2>2. \A i, j \in 1..n : row[i] = row[j] => i = j
    BY <1>1 DEF Distinct
  <2> HIDE DEF row, n
  <2>3. row \in Bijection(1..n, Range(list))
    BY <2>1, <2>2 DEF Bijection, Injection, Surjection, IsInjective
  <2>4. IsFiniteSet(1..n) /\ Cardinality(1..n) = n
    BY <1>1, Places
  <2> QED
    BY <2>3, <2>4, FS_Bijection DEF ExistsBijection
<1> HIDE DEF n
<1>5. Len(r) = Min({topK, n})
  <2>1. topK \in Int /\ n \in Int
    BY <1>1
  <2>2. Min({topK, n}) = IF topK <= n THEN topK ELSE n
    BY <2>1, OfTwo, Zenon
  <2> QED
    BY <1>2, <2>2
<1>6. Range(r) \subseteq Range(list)
  <2>1. ASSUME NEW i \in 1..Len(r)
        PROVE  r[i] \in Range(list)
    <3>1. PICK j \in 1..n : r[i] = list[j]
      BY <1>2
    <3> QED
      BY <1>1, <3>1 DEF Range
  <2> QED
    BY <1>3, <2>1 DEF Range
<1>7. ASSUME NEW w \in Range(list) \ Range(r), NEW i \in 1..Len(r)
      PROVE  r[i].score >= w.score
  <2>1. PICK j \in 1..n : w = list[j]
    BY <1>1 DEF Range
  <2>2. \A l \in 1..Len(r) : r[l] # list[j]
    BY <1>3, <2>1 DEF Range
  <2>3. PICK k \in 1..n : r[i] = list[k] /\ Precedes(list, k, j)
    BY <1>2, <2>2
  <2>4. list[k].score \in Int /\ list[j].score \in Int
    BY <1>1, CandidateFields
  <2> QED
    BY <2>1, <2>3, <2>4 DEF Precedes
<1> QED
  BY <1>3, <1>4, <1>5, <1>6, <1>7 DEF BestOf, r

(* metadata_repository.py:19-43: the search returns the nearest topK, each *)
(* with its similarity.                                                    *)
LEMMA SearchFinds ==
  ASSUME topK \in Nat \ {0}, CatalogueTypeOK,
         NEW near, near = SortedBy(Near, Nearer),
         NEW list, list = [i \in 1..Min({topK, Len(near)}) |->
                             [id |-> near[i], score |-> Similarity[near[i]]]]
  PROVE  /\ list \in Seq(Candidate) /\ Distinct(list)
         /\ Range(list) = {[id |-> t, score |-> Similarity[t]] : t \in Nearest}
<1> DEFINE n == Cardinality(Near)
<1>1. Near \in SUBSET Tables /\ Near \in SUBSET Searchable /\ IsFiniteSet(Near)
  BY CatalogueAssumption, FS_Subset DEF Near
<1>2. \A t \in Tables : Similarity[t] \in 0..100 /\ Similarity[t] \in Int
  <2>1. \A t \in Tables : Similarity[t] \in 0..100
    BY CatalogueAssumption
  <2>2. \A x \in 0..100 : x \in Int
    OBVIOUS
  <2> QED
    BY <2>1, <2>2, Zenon
<1>3. StrictOrder(Near, Nearer)
  <2>1. \A t, u \in Near : Similarity[t] = Similarity[u] => t = u
    BY <1>1, CatalogueAssumption
  <2>2. \A t, u \in Near : <<t, u>> \in Nearer <=> Similarity[t] > Similarity[u]
    BY <1>1 DEF Nearer
  <2>3. \A t \in Near : Similarity[t] \in Int
    BY <1>1, <1>2
  <2> QED
    BY <2>1, <2>2, <2>3 DEF StrictOrder
<1>4. /\ n \in Nat /\ near \in [1..n -> Near]
      /\ \A t \in Near : \E i \in 1..n : near[i] = t
      /\ \A i, j \in 1..n : i < j => <<near[i], near[j]>> \in Nearer
  BY <1>1, <1>3, SortedByOrders
<1> HIDE DEF n
<1>5. \A i, j \in 1..n : i < j => Similarity[near[i]] > Similarity[near[j]]
  BY <1>4 DEF Nearer
<1>6. \A i, j \in 1..n : Similarity[near[i]] > Similarity[near[j]] => i < j
  <2> SUFFICES ASSUME NEW i \in 1..n, NEW j \in 1..n,
                      Similarity[near[i]] > Similarity[near[j]], ~(i < j)
               PROVE  FALSE
    OBVIOUS
  <2>1. near[i] \in Tables /\ near[j] \in Tables
    BY <1>1, <1>4
  <2>2. Similarity[near[i]] \in Int /\ Similarity[near[j]] \in Int
    BY <1>2, <2>1
  <2>3. i = j \/ j < i
    BY <1>4
  <2> QED
    BY <1>5, <2>2, <2>3
<1>7. \A i, j \in 1..n : near[i] = near[j] => i = j
  <2> SUFFICES ASSUME NEW i \in 1..n, NEW j \in 1..n, near[i] = near[j], i # j
               PROVE  FALSE
    OBVIOUS
  <2>1. Similarity[near[i]] \in Int
    BY <1>1, <1>2, <1>4
  <2>2. i < j \/ j < i
    BY <1>4
  <2> QED
    BY <1>5, <2>1, <2>2
<1>8. Len(near) = n
  <2>1. near \in Seq(Near)
    BY <1>4
  <2> QED
    BY <1>4, <2>1, LenProperties
<1> DEFINE m == Min({topK, n})
<1>9. m = IF topK <= n THEN topK ELSE n
  <2>1. topK \in Int /\ n \in Int
    BY <1>4
  <2> QED
    BY <2>1, OfTwo, Zenon
<1>10. list = [i \in 1..m |-> [id |-> near[i], score |-> Similarity[near[i]]]]
  BY <1>8
<1> HIDE DEF m
<1>11. m \in 0..n /\ \A i \in 1..m : i \in 1..n
  BY <1>4, <1>9
<1>12. \A i \in 1..n : near[i] \in Nearest <=> i \in 1..m
  <2> SUFFICES ASSUME NEW i \in 1..n
               PROVE  near[i] \in Nearest <=> i \in 1..m
    OBVIOUS
  <2> DEFINE better == {u \in Near : Similarity[u] > Similarity[near[i]]}
             firsts == [j \in 1..(i - 1) |-> near[j]]
  <2>1. i \in Int /\ i - 1 \in Nat /\ \A j \in 1..(i - 1) : j \in 1..n /\ j < i
    BY <1>4
  <2>2. near[i] \in Near
    BY <1>4
  <2>3. firsts \in [1..(i - 1) -> better]
    BY <1>4, <1>5, <2>1
  <2>4. \A u \in better : \E j \in 1..(i - 1) : firsts[j] = u
    <3> SUFFICES ASSUME NEW u \in better
                 PROVE  \E j \in 1..(i - 1) : near[j] = u
      OBVIOUS
    <3>1. PICK j \in 1..n : near[j] = u
      BY <1>4
    <3>2. j < i
      BY <1>6, <3>1
    <3> QED
      BY <1>4, <2>1, <3>1, <3>2
  <2>5. \A j, k \in 1..(i - 1) : firsts[j] = firsts[k] => j = k
    BY <1>7, <2>1
  <2> HIDE DEF better, firsts
  <2>6. firsts \in Bijection(1..(i - 1), better)
    BY <2>3, <2>4, <2>5 DEF Bijection, Injection, Surjection, IsInjective
  <2>7. IsFiniteSet(1..(i - 1)) /\ Cardinality(1..(i - 1)) = i - 1
    BY <2>1, Places
  <2>8. Cardinality(better) = i - 1
    BY <2>6, <2>7, FS_Bijection DEF ExistsBijection
  <2>9. near[i] \in Nearest <=> i - 1 < topK
    BY <2>2, <2>8 DEF Nearest, better
  <2> QED
    BY <1>4, <1>9, <2>1, <2>9
<1>13. \A i \in 1..m : near[i] \in Near /\ near[i] \in Tables
  BY <1>1, <1>4, <1>11
<1>14. list \in Seq(Candidate)
  <2>1. \A i \in 1..m : [id |-> near[i], score |-> Similarity[near[i]]] \in Candidate
    BY <1>2, <1>13 DEF Candidate
  <2>2. list \in [1..m -> Candidate]
    BY <1>10, <2>1
  <2>3. m \in Nat
    BY <1>4, <1>11
  <2> QED
    BY <2>2, <2>3, FunctionIsList
<1>15. Distinct(list)
  <2>3. DOMAIN list = 1..m
        /\ \A i \in 1..m : list[i] = [id |-> near[i], score |-> Similarity[near[i]]]
    BY <1>10
  <2>4. \A x, y : [id |-> x, score |-> y].id = x
    OBVIOUS
  <2>1. DOMAIN list = 1..m /\ \A i \in 1..m : list[i].id = near[i]
    BY <2>3, <2>4, Zenon
  <2> SUFFICES ASSUME NEW i \in 1..m, NEW j \in 1..m, list[i].id = list[j].id
               PROVE  i = j
    BY <2>1, Zenon DEF Distinct
  <2>2. near[i] = near[j]
    BY <2>1, Zenon
  <2> QED
    BY <1>7, <1>11, <2>2, Zenon
<1>16. Range(list) = {[id |-> t, score |-> Similarity[t]] : t \in Nearest}
  <2>1. \A t \in Nearest : \E i \in 1..m : near[i] = t
    BY <1>4, <1>12 DEF Nearest
  <2>2. \A i \in 1..m : near[i] \in Nearest
    BY <1>11, <1>12
  <2>3. DOMAIN list = 1..m
        /\ \A i \in 1..m : list[i] = [id |-> near[i], score |-> Similarity[near[i]]]
    BY <1>10
  <2>4. ASSUME NEW x \in Range(list)
        PROVE  x \in {[id |-> t, score |-> Similarity[t]] : t \in Nearest}
    BY <2>2, <2>3, <2>4 DEF Range
  <2>5. ASSUME NEW t \in Nearest
        PROVE  [id |-> t, score |-> Similarity[t]] \in Range(list)
    BY <2>1, <2>3 DEF Range
  <2> QED
    BY <2>4, <2>5
<1> QED
  BY <1>14, <1>15, <1>16

----------------------------------------------------------------------------
(* The types, and what is known of the candidates before and after they    *)
(* are ranked.                                                             *)

Outset ==
  /\ pc \in {"idle", "embedding", "searching"} => pool = <<>> /\ mapped = {}
  /\ pc # "done" => code = 0
  /\ pc \notin {"convention bridges", "done"} => bridges = {}

Known ==
  /\ Distinct(pool)
  /\ IdsOf(pool) \subseteq tables \cup touched.tables
  /\ pc = "mapped tables" => mapped \subseteq tables \cup touched.tables

Shape == TypeOK /\ Outset /\ Known

(* decision_postgres.py:140-172: after the ranking the call goes on to the *)
(* columns, or to the bridges if there are two candidates, or is answered. *)
LEMMA RankSettles ==
  ASSUME TypeOK, code = 0, NEW list \in Seq(Candidate), Distinct(list), Rank(list)
  PROVE  /\ pool' = Ranked(list) /\ pool' \in Seq(Candidate) /\ Distinct(pool')
         /\ IdsOf(pool') \subseteq IdsOf(list)
         /\ \/ pc' = "columns" /\ code' = 0
            \/ pc' = "fk bridges" /\ code' = 0 /\ Len(pool') >= 2
            \/ pc' = "done" /\ code' = 200 /\ ~(Len(pool') >= 2)
<1>1. topK \in Nat \ {0}
  BY DEF TypeOK
<1>2. pool' = Ranked(list)
  BY DEF Rank
<1>3. /\ Ranked(list) \in Seq(Candidate) /\ Distinct(Ranked(list))
      /\ \A i \in 1..Len(Ranked(list)) : \E j \in 1..Len(list) : Ranked(list)[i] = list[j]
  BY <1>1, RankedBest
<1>4. IdsOf(pool') \subseteq IdsOf(list)
  <2>1. DOMAIN pool' = 1..Len(pool') /\ DOMAIN list = 1..Len(list)
    BY <1>2, <1>3, LenProperties
  <2>2. \A i \in DOMAIN pool' : \E j \in DOMAIN list : pool'[i] = list[j]
    BY <1>2, <1>3, <2>1
  <2> QED
    BY <2>2 DEF IdsOf
<1>5. \/ pc' = "columns" /\ code' = code
      \/ pc' = "fk bridges" /\ code' = code /\ Len(pool') >= 2
      \/ pc' = "done" /\ code' = 200 /\ ~(Len(pool') >= 2)
  BY DEF Rank, ToBridges
<1> QED
  BY <1>2, <1>3, <1>4, <1>5

(* The rows fetched for ids that are not among the candidates, and the two *)
(* ways to insert them.                                                    *)
LEMMA FetchInserts ==
  ASSUME TypeOK, Distinct(pool), NEW ids \in SUBSET Tables, NEW score \in 0..100,
         NEW found \in Listed(FetchTables(ids \ IdsOf(pool)), score)
  PROVE  /\ Range(found) = {[id |-> t, score |-> score] : t \in tables \cap (ids \ IdsOf(pool))}
         /\ Merges(found \o pool, pool, found, 0)
         /\ \E lead \in {0, 1} :
              Merges(SubSeq(pool, 1, 1) \o found \o SubSeq(pool, 2, Len(pool)),
                     pool, found, lead)
<1> DEFINE new == tables \cap (ids \ IdsOf(pool))
<1>1. new \in SUBSET Tables /\ found \in Listed(new, score)
  BY DEF FetchTables
<1> HIDE DEF new
<1>2. /\ found \in Seq(Candidate) /\ Distinct(found)
      /\ Range(found) = {[id |-> t, score |-> score] : t \in new}
  BY <1>1, ListedLists
<1>3. pool \in Seq(Candidate) /\ DOMAIN pool = 1..Len(pool) /\ DOMAIN found = 1..Len(found)
  BY <1>2, LenProperties DEF TypeOK
<1>4. ASSUME NEW i \in 1..Len(pool), NEW j \in 1..Len(found)
      PROVE  pool[i].id # found[j].id
  <2>1. found[j] \in Range(found)
    BY <1>3 DEF Range
  <2>2. PICK t \in new : found[j] = [id |-> t, score |-> score]
    BY <1>2, <2>1
  <2>3. found[j].id = t /\ t \notin IdsOf(pool)
    BY <2>2 DEF new
  <2>4. pool[i].id \in IdsOf(pool)
    BY <1>3 DEF IdsOf
  <2> QED
    BY <2>3, <2>4
<1> QED
  BY <1>2, <1>3, <1>4, InsertsMerge DEF new

(* A merged list has the ids of both.                                      *)
LEMMA MergedIds ==
  ASSUME NEW list, NEW a, NEW b, NEW lead, Merges(list, a, b, lead)
  PROVE  IdsOf(list) = IdsOf(a) \cup {c.id : c \in Range(b)}
<1>1. \A s : IdsOf(s) = {c.id : c \in Range(s)}
  BY DEF IdsOf, Range
<1>2. Range(list) = Range(a) \cup Range(b)
  BY DEF Merges
<1> QED
  BY <1>1, <1>2

LEMMA GoesOn ==
  ASSUME TypeOK, code = 0, NEW list \in Seq(Candidate), Distinct(list), NEW ids,
         ToNeighbours(list, ids)
  PROVE  /\ pool' \in Seq(Candidate) /\ Distinct(pool') /\ IdsOf(pool') \subseteq IdsOf(list)
         /\ pc' \in {"neighbours", "columns", "fk bridges", "done"}
         /\ code' \in {0, 200} /\ (pc' # "done" => code' = 0)
         /\ \/ ids # {} /\ pc' = "neighbours" /\ pool' = list
            \/ ids = {} /\ pc' # "neighbours" /\ Rank(list)
<1>1. CASE ids = {}
  <2>1. Rank(list)
    BY <1>1 DEF ToNeighbours
  <2> QED
    BY <1>1, <2>1, RankSettles
<1>2. CASE ids # {}
  BY <1>2 DEF ToNeighbours
<1> QED
  BY <1>1, <1>2

LEMMA ShapeAtStart == Init => Shape
<1> SUFFICES ASSUME Init PROVE Shape
  OBVIOUS
<1>1. TypeOK
  <2>1. DefaultTopK \in Nat \ {0} /\ MaxEdits \in Nat
    BY DecideAssumption, CatalogueAssumption
  <2> QED
    BY <2>1 DEF Init, TypeOK, CatalogueInit, CatalogueTypeOK, Nothing
<1>2. Outset /\ Known
  BY DEF Init, Outset, Known, Distinct, IdsOf
<1> QED
  BY <1>1, <1>2 DEF Shape

(* Every table a mapping names was there when the mapping was read.        *)
LEMMA MappedExist ==
  ASSUME TypeOK
  PROVE  MappedTables(mappings) \subseteq tables
  BY DEF MappedTables

(* What the loader writes is touched, and the rest of the catalogue stays. *)
LEMMA LoaderWrites ==
  ASSUME TypeOK, Loader
  PROVE  /\ CatalogueTypeOK'
         /\ touched' \in [tables : SUBSET Tables, fks : SUBSET Fks, mappings : SUBSET Mappings]
         /\ touched.tables \subseteq touched'.tables /\ touched.fks \subseteq touched'.fks
         /\ \A t \in Tables : t \in touched'.tables \/ (t \in tables <=> t \in tables')
         /\ \A f \in Fks : f \in touched'.fks \/ (f \in fks <=> f \in fks')
         /\ tables \cup touched.tables \subseteq tables' \cup touched'.tables
         /\ tables' # tables => touched'.tables # {}
         /\ touched' # Nothing
<1>1. /\ tables \in SUBSET Tables /\ fks \in SUBSET Fks /\ mappings \in SUBSET Mappings
      /\ touched \in [tables : SUBSET Tables, fks : SUBSET Fks, mappings : SUBSET Mappings]
      /\ edits \in 0..MaxEdits /\ MaxEdits \in Nat
  BY CatalogueAssumption DEF TypeOK, CatalogueTypeOK
<1>2. Edit => edits' \in 0..MaxEdits
  BY <1>1 DEF Edit
<1>3. CASE \E t \in Tables : LoadTable(t) /\ touched' = [touched EXCEPT !.tables = @ \cup {t}]
  <2>1. PICK t \in Tables : LoadTable(t) /\ touched' = [touched EXCEPT !.tables = @ \cup {t}]
    BY <1>3
  <2>2. /\ tables' = Toggled(tables, t) /\ fks' = fks /\ mappings' = mappings
        /\ edits' \in 0..MaxEdits
    BY <1>2, <2>1 DEF LoadTable
  <2>3. \A u \in Tables : u # t => (u \in tables <=> u \in tables')
    BY <2>2 DEF Toggled
  <2>4. tables' \in SUBSET Tables
    BY <1>1, <2>2 DEF Toggled
  <2>5. /\ touched'.tables = touched.tables \cup {t}
        /\ touched'.fks = touched.fks
        /\ touched' \in [tables : SUBSET Tables, fks : SUBSET Fks, mappings : SUBSET Mappings]
    BY <1>1, <2>1
  <2>6. touched' # Nothing
    BY <2>5 DEF Nothing
  <2> QED
    BY <1>1, <2>2, <2>3, <2>4, <2>5, <2>6 DEF CatalogueTypeOK
<1>4. CASE \E f \in Fks : LoadFk(f) /\ touched' = [touched EXCEPT !.fks = @ \cup {f}]
  <2>1. PICK f \in Fks : LoadFk(f) /\ touched' = [touched EXCEPT !.fks = @ \cup {f}]
    BY <1>4
  <2>2. /\ fks' = Toggled(fks, f) /\ tables' = tables /\ mappings' = mappings
        /\ edits' \in 0..MaxEdits
    BY <1>2, <2>1 DEF LoadFk
  <2>3. \A g \in Fks : g # f => (g \in fks <=> g \in fks')
    BY <2>2 DEF Toggled
  <2>4. fks' \in SUBSET Fks
    BY <1>1, <2>2 DEF Toggled
  <2>5. /\ touched'.fks = touched.fks \cup {f}
        /\ touched'.tables = touched.tables
        /\ touched' \in [tables : SUBSET Tables, fks : SUBSET Fks, mappings : SUBSET Mappings]
    BY <1>1, <2>1
  <2>6. touched' # Nothing
    BY <2>5 DEF Nothing
  <2> QED
    BY <1>1, <2>2, <2>3, <2>4, <2>5, <2>6 DEF CatalogueTypeOK
<1>5. CASE \E m \in Mappings :
             LoadMapping(m) /\ touched' = [touched EXCEPT !.mappings = @ \cup {m}]
  <2>1. PICK m \in Mappings :
          LoadMapping(m) /\ touched' = [touched EXCEPT !.mappings = @ \cup {m}]
    BY <1>5
  <2>2. /\ mappings' = Toggled(mappings, m) /\ tables' = tables /\ fks' = fks
        /\ edits' \in 0..MaxEdits
    BY <1>2, <2>1 DEF LoadMapping
  <2>3. mappings' \in SUBSET Mappings
    BY <1>1, <2>2 DEF Toggled
  <2>4. /\ touched'.mappings = touched.mappings \cup {m}
        /\ touched'.tables = touched.tables /\ touched'.fks = touched.fks
        /\ touched' \in [tables : SUBSET Tables, fks : SUBSET Fks, mappings : SUBSET Mappings]
    BY <1>1, <2>1
  <2>5. touched' # Nothing
    BY <2>4 DEF Nothing
  <2> QED
    BY <1>1, <2>2, <2>3, <2>4, <2>5 DEF CatalogueTypeOK
<1> QED
  BY <1>3, <1>4, <1>5 DEF Loader

(* A step of the call itself leaves the catalogue and the request alone.   *)
LEMMA TypesKept ==
  ASSUME TypeOK, Still, pc' \in {"done"} \cup Waits, pool' \in Seq(Candidate),
         named' \in SUBSET Mappings, mapped' \in SUBSET Tables, linked' \in SUBSET Tables,
         matched' \in SUBSET Tables, \A b \in bridges' : b.from \in Columns /\ b.to \in Columns,
         code' \in {0, 200, 500}
  PROVE  TypeOK'
<1>1. UNCHANGED <<tables, fks, mappings, edits, topK, columns, resolve, touched>>
  BY DEF Still, catalogueVars, requestVars
<1>2. CatalogueTypeOK'
  BY <1>1 DEF TypeOK, CatalogueTypeOK
<1> QED
  BY <1>1, <1>2 DEF TypeOK

(* What a state of the right types holds besides the catalogue.            *)
LEMMA Held ==
  ASSUME TypeOK
  PROVE  /\ pool \in Seq(Candidate)
         /\ named \in SUBSET Mappings /\ mapped \in SUBSET Tables /\ linked \in SUBSET Tables
         /\ matched \in SUBSET Tables
         /\ \A b \in bridges : b.from \in Columns /\ b.to \in Columns
         /\ tables \in SUBSET Tables /\ fks \in SUBSET Fks /\ mappings \in SUBSET Mappings
  BY DEF TypeOK, CatalogueTypeOK

LEMMA ShapeKept ==
  ASSUME Shape, [Next]_vars
  PROVE  Shape'
<1> USE DEF Shape
<1>1. CASE Receive
  <2>1. ASSUME NEW limit \in LimitArgs
        PROVE  EffectiveTopK(limit) \in Nat \ {0}
    <3>1. CASE limit = Unset
      BY <3>1, DecideAssumption DEF EffectiveTopK
    <3>2. CASE limit # Unset
      <4>1. limit \in 1..50 /\ limit \in Int /\ 50 \in Int /\ 1 \in Int
        BY <3>2, DecideAssumption
      <4>2. Min({50, limit}) = IF 50 <= limit THEN 50 ELSE limit
        BY <4>1, OfTwo, Zenon
      <4>3. Min({50, limit}) = limit
        BY <4>1, <4>2
      <4>4. Max({1, limit}) = IF 1 <= limit THEN limit ELSE 1
        BY <4>1, OfTwo, Zenon
      <4> QED
        BY <3>2, <4>1, <4>3, <4>4 DEF EffectiveTopK
    <3> QED
      BY <3>1, <3>2
  <2>2. TypeOK'
    <3>1. CatalogueTypeOK'
      BY <1>1 DEF Receive, TypeOK, CatalogueTypeOK, catalogueVars
    <3> QED
      BY <1>1, <2>1, <3>1 DEF Receive, TypeOK, Waits, readVars, Nothing
  <2>3. pool = <<>> /\ mapped = {} /\ bridges = {} /\ code = 0 /\ pc' = "embedding"
        /\ UNCHANGED <<pool, mapped, bridges, code>>
    BY <1>1 DEF Receive, Outset, readVars
  <2>4. Outset' /\ Known'
    BY <2>3 DEF Outset, Known, Distinct, IdsOf
  <2> QED
    BY <2>2, <2>4
<1>2. CASE Embed
  <2>1. TypeOK'
    BY <1>2 DEF Embed, TypeOK, CatalogueTypeOK, catalogueVars, Waits, readVars, requestVars, Still
  <2>2. Outset' /\ Known'
    BY <1>2 DEF Embed, Outset, Known, Distinct, IdsOf, catalogueVars, readVars, Still
  <2> QED
    BY <2>1, <2>2
<1>3. CASE SearchTables
  <2> DEFINE near == SortedBy(Near, Nearer)
             list == [i \in 1..Min({topK, Len(near)}) |->
                        [id |-> near[i], score |-> Similarity[near[i]]]]
  <2>1. topK \in Nat \ {0} /\ CatalogueTypeOK
    BY DEF TypeOK
  <2>2. /\ list \in Seq(Candidate) /\ Distinct(list)
        /\ Range(list) = {[id |-> t, score |-> Similarity[t]] : t \in Nearest}
    BY <2>1, SearchFinds
  <2>3. pool' = list
    BY <1>3 DEF SearchTables
  <2> HIDE DEF list
  <2>4. IdsOf(list) \subseteq tables
    <3>1. Nearest \subseteq tables
      BY DEF Nearest, Near
    <3>2. \A c \in Range(list) : c.id \in Nearest
      BY <2>2
    <3>3. \A i \in DOMAIN list : list[i] \in Range(list)
      BY DEF Range
    <3> QED
      BY <3>1, <3>2, <3>3 DEF IdsOf
  <2>5. TypeOK'
    BY <1>3, <2>2, <2>3, ZenonT(30)
       DEF SearchTables, TypeOK, CatalogueTypeOK, catalogueVars, Waits, readVars, requestVars, Still
  <2>6. Outset'
    BY <1>3 DEF SearchTables, Outset, readVars
  <2>7. Known'
    <3>1. pc' = "mappings" /\ UNCHANGED <<tables, touched>>
      BY <1>3 DEF SearchTables, catalogueVars, Still
    <3>2. Distinct(pool') /\ IdsOf(pool') \subseteq tables' \cup touched'.tables
      BY <2>2, <2>3, <2>4, <3>1
    <3> QED
      BY <3>1, <3>2 DEF Known
  <2> QED
    BY <2>5, <2>6, <2>7

<1>4. CASE FindMappings
  <2>1. mapped' = MappedTables(mappings) /\ mapped' \subseteq tables /\ mapped' \subseteq Tables
    BY <1>4, MappedExist DEF FindMappings, TypeOK, CatalogueTypeOK
  <2>2. pool \in Seq(Candidate) /\ Distinct(pool) /\ code = 0
    BY <1>4 DEF FindMappings, TypeOK, Known, Outset
  <2>3. /\ pool' \in Seq(Candidate) /\ Distinct(pool') /\ IdsOf(pool') \subseteq IdsOf(pool)
        /\ pc' \in {"mapped tables", "neighbours", "columns", "fk bridges", "done"}
        /\ code' \in {0, 200} /\ (pc' # "done" => code' = 0)
    <3>1. CASE ToNeighbours(pool, mapped')
      BY <2>2, <3>1, GoesOn, ZenonT(30)
    <3>2. CASE pc' = "mapped tables" /\ UNCHANGED <<pool, code>>
      BY <2>2, <3>2
    <3> QED
      BY <1>4, <3>1, <3>2 DEF FindMappings
  <2>4. TypeOK'
    <3>1. named' = mappings /\ UNCHANGED <<linked, matched, bridges>> /\ Still
      BY <1>4 DEF FindMappings
    <3>2. pc' \in {"done"} \cup Waits /\ code' \in {0, 200, 500}
      BY <2>3, ZenonT(30) DEF Waits
    <3> QED
      BY <2>1, <2>3, <3>1, <3>2, Held, TypesKept
  <2>5. Outset'
    BY <1>4, <2>3 DEF FindMappings, Outset
  <2>6. Known'
    BY <1>4, <2>1, <2>3 DEF FindMappings, Known, catalogueVars, Still
  <2> QED
    BY <2>4, <2>5, <2>6
<1>5. CASE FetchMapped
  <2>1. PICK found \in Listed(FetchTables(mapped \ IdsOf(pool)), 100) :
          ToNeighbours(found \o pool, mapped)
    BY <1>5 DEF FetchMapped
  <2>2. Distinct(pool) /\ mapped \in SUBSET Tables /\ 100 \in 0..100 /\ code = 0
    <3>1. pc = "mapped tables"
      BY <1>5 DEF FetchMapped
    <3>2. code = 0 /\ Distinct(pool)
      BY <3>1 DEF Outset, Known
    <3> QED
      BY <3>2, Held
  <2>3. /\ Range(found) = {[id |-> t, score |-> 100] : t \in tables \cap (mapped \ IdsOf(pool))}
        /\ Merges(found \o pool, pool, found, 0)
    BY <2>1, <2>2, FetchInserts
  <2> DEFINE list == found \o pool
  <2>4. IdsOf(list) \subseteq IdsOf(pool) \cup tables
    BY <2>3, MergedIds
  <2>5. list \in Seq(Candidate) /\ Distinct(list)
    BY <2>3 DEF Merges
  <2>6. ToNeighbours(list, mapped)
    BY <2>1
  <2> HIDE DEF list
  <2>7. /\ pool' \in Seq(Candidate) /\ Distinct(pool') /\ IdsOf(pool') \subseteq IdsOf(list)
        /\ pc' \in {"neighbours", "columns", "fk bridges", "done"}
        /\ code' \in {0, 200} /\ (pc' # "done" => code' = 0)
    BY <2>2, <2>5, <2>6, GoesOn, ZenonT(30)
  <2>8. TypeOK'
    <3>1. UNCHANGED <<named, mapped, linked, matched, bridges>> /\ Still
      BY <1>5 DEF FetchMapped, readVars
    <3>2. pc' \in {"done"} \cup Waits /\ code' \in {0, 200, 500}
      BY <2>7, ZenonT(30) DEF Waits
    <3> QED
      BY <2>7, <3>1, <3>2, Held, TypesKept
  <2>9. Outset'
    BY <1>5, <2>7 DEF FetchMapped, Outset, readVars
  <2>10. Known'
    BY <1>5, <2>4, <2>7 DEF FetchMapped, Known, catalogueVars, Still
  <2> QED
    BY <2>8, <2>9, <2>10
<1>6. CASE FindNeighbours
  <2>1. linked' \subseteq Tables
    <3>1. \A f \in Fks : f.from[1] \in Tables /\ f.to[1] \in Tables
      BY CatalogueAssumption
    <3> QED
      BY <1>6, <3>1, Held DEF FindNeighbours, FkNeighbours, JoinedFks
  <2>2. pool \in Seq(Candidate) /\ Distinct(pool) /\ code = 0
    BY <1>6 DEF FindNeighbours, TypeOK, Known, Outset
  <2>3. /\ pool' \in Seq(Candidate) /\ Distinct(pool') /\ IdsOf(pool') \subseteq IdsOf(pool)
        /\ pc' \in {"neighbour tables", "columns", "fk bridges", "done"}
        /\ code' \in {0, 200} /\ (pc' # "done" => code' = 0)
    <3>1. CASE Rank(pool)
      BY <2>2, <3>1, RankSettles
    <3>2. CASE pc' = "neighbour tables" /\ UNCHANGED <<pool, code>>
      BY <2>2, <3>2
    <3> QED
      BY <1>6, <3>1, <3>2 DEF FindNeighbours
  <2>4. TypeOK'
    <3>1. UNCHANGED <<named, mapped, matched, bridges>> /\ Still
      BY <1>6 DEF FindNeighbours
    <3>2. pc' \in {"done"} \cup Waits /\ code' \in {0, 200, 500}
      BY <2>3, ZenonT(30) DEF Waits
    <3> QED
      BY <2>1, <2>3, <3>1, <3>2, Held, TypesKept
  <2>5. Outset'
    BY <1>6, <2>3 DEF FindNeighbours, Outset
  <2>6. Known'
    BY <1>6, <2>3 DEF FindNeighbours, Known, catalogueVars, Still
  <2> QED
    BY <2>4, <2>5, <2>6
<1>7. CASE FetchNeighbours
  <2>1. PICK found \in Listed(FetchTables(linked \ IdsOf(pool)), 99) :
          Rank(SubSeq(pool, 1, 1) \o found \o SubSeq(pool, 2, Len(pool)))
    BY <1>7 DEF FetchNeighbours
  <2>2. Distinct(pool) /\ linked \in SUBSET Tables /\ 99 \in 0..100 /\ code = 0
    <3>1. pc = "neighbour tables"
      BY <1>7 DEF FetchNeighbours
    <3>2. code = 0 /\ Distinct(pool)
      BY <3>1 DEF Outset, Known
    <3> QED
      BY <3>2, Held
  <2> DEFINE list == SubSeq(pool, 1, 1) \o found \o SubSeq(pool, 2, Len(pool))
  <2>3. /\ Range(found) = {[id |-> t, score |-> 99] : t \in tables \cap (linked \ IdsOf(pool))}
        /\ \E lead \in {0, 1} : Merges(list, pool, found, lead)
    BY <2>1, <2>2, FetchInserts
  <2>6. Rank(list)
    BY <2>1
  <2> HIDE DEF list
  <2>4. IdsOf(list) \subseteq IdsOf(pool) \cup tables
    BY <2>3, MergedIds
  <2>5. list \in Seq(Candidate) /\ Distinct(list)
    BY <2>3 DEF Merges
  <2>7. /\ pool' \in Seq(Candidate) /\ Distinct(pool') /\ IdsOf(pool') \subseteq IdsOf(list)
        /\ pc' \in {"columns", "fk bridges", "done"}
        /\ code' \in {0, 200} /\ (pc' # "done" => code' = 0)
    BY <2>2, <2>5, <2>6, RankSettles
  <2>8. TypeOK'
    <3>1. UNCHANGED <<named, mapped, linked, matched, bridges>> /\ Still
      BY <1>7 DEF FetchNeighbours, readVars
    <3>2. pc' \in {"done"} \cup Waits /\ code' \in {0, 200, 500}
      BY <2>7, ZenonT(30) DEF Waits
    <3> QED
      BY <2>7, <3>1, <3>2, Held, TypesKept
  <2>9. Outset'
    BY <1>7, <2>7 DEF FetchNeighbours, Outset, readVars
  <2>10. Known'
    BY <1>7, <2>4, <2>7 DEF FetchNeighbours, Known, catalogueVars, Still
  <2> QED
    BY <2>8, <2>9, <2>10
<1>8. CASE SearchColumns
  <2>1. /\ pc' \in {"fk bridges", "done"} /\ code' \in {0, 200} /\ (pc' # "done" => code' = 0)
        /\ matched' \subseteq tables /\ tables \subseteq Tables
    BY <1>8 DEF SearchColumns, ToBridges, FetchTables, Outset, TypeOK, CatalogueTypeOK
  <2>2. TypeOK'
    <3>1. UNCHANGED <<pool, named, mapped, linked, bridges>> /\ Still
      BY <1>8 DEF SearchColumns
    <3>2. pc' \in {"done"} \cup Waits /\ code' \in {0, 200, 500} /\ matched' \in SUBSET Tables
      BY <2>1, ZenonT(30) DEF Waits
    <3> QED
      BY <3>1, <3>2, Held, TypesKept
  <2>3. Outset'
    BY <1>8, <2>1 DEF SearchColumns, Outset
  <2>4. Known'
    BY <1>8, <2>1 DEF SearchColumns, Known, catalogueVars, Still
  <2> QED
    BY <2>2, <2>3, <2>4
<1>9. CASE FindFkBridges
  <2>1. \A b \in bridges' : b.from \in Columns /\ b.to \in Columns
    <3>1. \A f \in fks : f.from \in Columns /\ f.to \in Columns
      BY CatalogueAssumption, Held
    <3>2. ASSUME NEW b \in FkBridges(IdsOf(pool))
          PROVE  b.from \in Columns /\ b.to \in Columns
      <4>1. PICK f \in fks : b = FkBridge(f)
        BY DEF FkBridges, JoinedFks
      <4> QED
        BY <3>1, <4>1 DEF FkBridge, Bridge
    <3> QED
      BY <1>9, <3>2 DEF FindFkBridges
  <2>2. TypeOK'
    <3>1. /\ pc = "fk bridges" /\ pc' = "convention bridges" /\ Still
          /\ UNCHANGED <<pool, named, mapped, linked, matched, code>>
      BY <1>9 DEF FindFkBridges
    <3>2. pc' \in {"done"} \cup Waits /\ code' \in {0, 200, 500}
      BY <3>1 DEF Waits, Outset
    <3> QED
      BY <2>1, <3>1, <3>2, Held, TypesKept
  <2>3. Outset' /\ Known'
    BY <1>9 DEF FindFkBridges, Outset, Known, catalogueVars, Still
  <2> QED
    BY <2>2, <2>3
<1>10. CASE FindConventionBridges
  <2>1. \A b \in bridges' : b.from \in Columns /\ b.to \in Columns
    <3>1. \A b \in ConventionBridges(IdsOf(pool)) : b.from \in Columns /\ b.to \in Columns
      BY DEF ConventionBridges, Bridge
    <3>2. bridges' \subseteq bridges \cup ConventionBridges(IdsOf(pool))
      BY <1>10 DEF FindConventionBridges
    <3>3. \A b \in bridges : b.from \in Columns /\ b.to \in Columns
      BY Held
    <3>4. ASSUME NEW b \in bridges'
          PROVE  b.from \in Columns /\ b.to \in Columns
      <4>1. b \in bridges \/ b \in ConventionBridges(IdsOf(pool))
        BY <3>2
      <4> QED
        BY <3>1, <3>3, <4>1, Zenon
    <3> QED
      BY <3>4
  <2>2. TypeOK'
    <3>1. /\ pc' = "done" /\ code' = 200 /\ Still
          /\ UNCHANGED <<pool, named, mapped, linked, matched>>
      BY <1>10 DEF FindConventionBridges
    <3> QED
      BY <2>1, <3>1, Held, TypesKept
  <2>3. Outset' /\ Known'
    BY <1>10 DEF FindConventionBridges, Outset, Known, catalogueVars, Still
  <2> QED
    BY <2>2, <2>3
<1>11. CASE Fails
  <2>1. TypeOK'
    BY <1>11 DEF Fails, TypeOK, CatalogueTypeOK, catalogueVars, readVars, requestVars, Still
  <2>2. Outset' /\ Known'
    BY <1>11 DEF Fails, Outset, Known, catalogueVars, readVars, Still
  <2> QED
    BY <2>1, <2>2
<1>12. CASE Loader
  <2>1. UNCHANGED <<pc, requestVars, pool, readVars, code>>
    BY <1>12 DEF Loader
  <2>2. /\ CatalogueTypeOK'
        /\ touched' \in [tables : SUBSET Tables, fks : SUBSET Fks, mappings : SUBSET Mappings]
        /\ tables \cup touched.tables \subseteq tables' \cup touched'.tables
    BY <1>12, LoaderWrites
  <2>3. TypeOK'
    BY <2>1, <2>2 DEF TypeOK, readVars, requestVars
  <2>4. Outset' /\ Known'
    BY <2>1, <2>2 DEF Outset, Known, readVars
  <2> QED
    BY <2>3, <2>4
<1>13. CASE UNCHANGED vars
  <2>1. UNCHANGED <<catalogueVars, pc, requestVars, pool, readVars, code, touched>>
    BY <1>13 DEF vars
  <2>2. UNCHANGED <<tables, fks, mappings, edits>>
    BY <2>1 DEF catalogueVars
  <2>3. UNCHANGED <<pc, topK, columns, resolve, pool, code, touched>>
    BY <2>1 DEF requestVars
  <2>4. UNCHANGED <<named, mapped, linked, matched, bridges>>
    BY <2>1 DEF readVars
  <2>5. CatalogueTypeOK'
    BY <2>2 DEF TypeOK, CatalogueTypeOK
  <2>6. TypeOK'
    <3>1. /\ pc' \in {"idle", "done"} \cup Waits
          /\ topK' \in Nat \ {0} /\ pool' \in Seq(Candidate) /\ code' \in {0, 200, 500}
          /\ touched' \in [tables : SUBSET Tables, fks : SUBSET Fks, mappings : SUBSET Mappings]
      BY <2>3 DEF TypeOK
    <3>2. columns' \in BOOLEAN /\ resolve' \in BOOLEAN
      BY <2>3 DEF TypeOK
    <3>3. /\ named' \in SUBSET Mappings /\ mapped' \in SUBSET Tables
          /\ linked' \in SUBSET Tables /\ matched' \in SUBSET Tables
          /\ \A b \in bridges' : b.from \in Columns /\ b.to \in Columns
      BY <2>4 DEF TypeOK
    <3> QED
      BY <2>5, <3>1, <3>2, <3>3 DEF TypeOK
  <2>7. Outset' /\ Known'
    BY <2>2, <2>3, <2>4 DEF Outset, Known
  <2> QED
    BY <2>6, <2>7
<1> QED
  BY <1>1, <1>2, <1>3, <1>4, <1>5, <1>6, <1>7, <1>8, <1>9, <1>10, <1>11, <1>12, <1>13 DEF Next

(* The types hold in every reachable state (all of decide).                *)
THEOREM TypeCorrect == Spec => []TypeOK
<1>1. Shape => TypeOK
  BY DEF Shape
<1> QED
  BY ShapeAtStart, ShapeKept, <1>1, PTL DEF Spec

----------------------------------------------------------------------------
(* Mapped tables.  Until they are ranked, the list holds the hits of the   *)
(* search, then hits and mapped tables ahead of everything that scores as  *)
(* much as they do.                                                        *)

Settled == pc \in {"columns", "fk bridges", "convention bridges"} \/ Answered

MappedPlaced ==
  /\ pc \in {"mappings", "mapped tables"} => \A t \in IdsOf(pool) : Excused(t)
  /\ pc \in {"neighbours", "neighbour tables"} =>
       Ahead(pool, mapped) /\ mapped \subseteq IdsOf(pool) \cup touched.tables
  /\ Settled => CrowdedByMapped(pool, mapped)

(* A step of the call excuses the same tables, one of the loader no fewer. *)
LEMMA ExcusedStays ==
  ASSUME TypeOK, Still \/ Loader
  PROVE  /\ topK' = topK
         /\ \A t \in Tables : Excused(t) => Excused(t)'
<1>1. CASE Still
  <2>1. UNCHANGED <<tables, topK, touched>>
    BY <1>1 DEF Still, catalogueVars, requestVars
  <2>2. Near' = Near
    BY <2>1 DEF Near
  <2>3. Nearest' = Nearest
    BY <2>1, <2>2 DEF Nearest
  <2> QED
    BY <2>1, <2>2, <2>3 DEF Excused
<1>2. CASE Loader
  <2>1. topK' = topK
    BY <1>2 DEF Loader, requestVars
  <2>2. /\ touched.tables \subseteq touched'.tables
        /\ \A t \in Tables : t \in touched'.tables \/ (t \in tables <=> t \in tables')
        /\ tables' # tables => touched'.tables # {}
    BY <1>2, LoaderWrites
  <2>3. \A t \in Tables : t \in touched'.tables \/ (t \in Near => t \in Near')
    BY <2>2 DEF Near
  <2>4. tables' = tables => Near' = Near /\ Nearest' = Nearest
    BY <2>1 DEF Near, Nearest
  <2>5. ASSUME NEW t \in Tables, Excused(t)
        PROVE  Excused(t)'
    <3>1. CASE t \in touched'.tables
      BY <3>1 DEF Excused
    <3>2. CASE t \notin touched'.tables
      <4>1. t \in Near /\ (t \in Nearest \/ touched.tables # {})
        BY <2>2, <2>5, <3>2 DEF Excused
      <4>2. t \in Near'
        BY <2>3, <3>2, <4>1
      <4>3. t \in Nearest' \/ touched'.tables # {}
        <5>1. CASE tables' = tables
          BY <2>2, <2>4, <4>1, <5>1
        <5>2. CASE tables' # tables
          BY <2>2, <5>2
        <5> QED
          BY <5>1, <5>2
      <4> QED
        BY <4>2, <4>3 DEF Excused
    <3> QED
      BY <3>1, <3>2
  <2> QED
    BY <2>1, <2>5
<1> QED
  BY <1>1, <1>2

(* Ids of candidates are tables.                                           *)
LEMMA IdsAreTables ==
  ASSUME NEW list \in Seq(Candidate)
  PROVE  IdsOf(list) \subseteq Tables /\ \A i \in 1..Len(list) : list[i].id \in Tables
<1>1. DOMAIN list = 1..Len(list) /\ \A i \in 1..Len(list) : list[i] \in Candidate
  BY LenProperties, ElementOfSeq
<1> QED
  BY <1>1, CandidateFields DEF IdsOf

(* decision_postgres.py:123-131: a list that has the mapped tables ahead,  *)
(* or nothing but excused ones, keeps its promise through the next step.   *)
LEMMA HandsOn ==
  ASSUME TypeOK, code = 0, Still, NEW list \in Seq(Candidate), Distinct(list),
         NEW ids \in SUBSET Tables, mapped' = ids,
         Ahead(list, ids), ids \subseteq IdsOf(list) \cup touched.tables,
         Rank(list) \/ ToNeighbours(list, ids)
  PROVE  MappedPlaced'
<1>1. topK \in Nat \ {0}
  BY DEF TypeOK
<1>2. UNCHANGED <<tables, topK, touched>>
  BY DEF Still, catalogueVars, requestVars
<1>3. Near' = Near
  BY <1>2 DEF Near
<1>4. Nearest' = Nearest
  BY <1>2, <1>3 DEF Nearest
<1>5. \A t : Excused(t)' <=> Excused(t)
  BY <1>2, <1>3, <1>4 DEF Excused
<1>6. CASE Rank(list)
  <2>1. pool' = Ranked(list) /\ pc' \in {"columns", "fk bridges", "done"}
    BY <1>6, RankSettles
  <2>2. CrowdedByMapped(Ranked(list), ids)
    BY <1>1, RankedKeepsMapped
  <2>3. CrowdedByMapped(pool, mapped)'
    BY <1>2, <1>5, <2>1, <2>2 DEF CrowdedByMapped
  <2> QED
    BY <2>1, <2>3 DEF MappedPlaced
<1>7. CASE pc' = "neighbours" /\ pool' = list
  <2>1. Ahead(pool, mapped)'
    BY <1>5, <1>7 DEF Ahead
  <2>2. mapped' \subseteq IdsOf(pool') \cup touched'.tables
    BY <1>2, <1>7
  <2> QED
    BY <1>7, <2>1, <2>2 DEF MappedPlaced, Settled, Answered
<1>8. Rank(list) \/ (pc' = "neighbours" /\ pool' = list)
  <2>1. CASE Rank(list)
    BY <2>1
  <2>2. CASE ToNeighbours(list, ids)
    BY <2>2 DEF ToNeighbours
  <2> QED
    BY <2>1, <2>2
<1> QED
  BY <1>6, <1>7, <1>8

(* decision_postgres.py:123-130: rows for mapped tables go to the front,   *)
(* where all is mapped; rows for neighbours score less than mapped tables. *)
LEMMA MergedAhead ==
  ASSUME TypeOK, NEW direct \in SUBSET Tables, NEW list, NEW found, NEW lead \in {0, 1},
         Merges(list, pool, found, lead),
         \/ /\ lead = 0 /\ \A t \in IdsOf(pool) : Excused(t)
            /\ \A c \in Range(found) : c.id \in direct /\ c.score = 100
         \/ /\ Ahead(pool, direct)
            /\ \A c \in Range(found) : c.score = 99 /\ (c.id \in direct => Excused(c.id))
  PROVE  Ahead(list, direct)
<1>1. /\ list \in Seq(Candidate) /\ pool \in Seq(Candidate)
      /\ DOMAIN pool = 1..Len(pool) /\ Len(pool) \in Nat /\ Len(list) \in Nat
  BY Held, LenProperties DEF Merges
<1> SUFFICES ASSUME NEW j \in 1..Len(list), list[j].id \in direct, ~Excused(list[j].id)
             PROVE  /\ list[j].score = 100
                    /\ \A i \in 1..(j - 1) : list[i].score = 100 => list[i].id \in direct
  BY DEF Ahead
<1>2. \/ /\ list[j] \in Range(found)
         /\ \A i \in 1..(j - 1) :
              list[i] \in Range(found) \/ \E q \in 1..lead : list[i] = pool[q]
      \/ \E p \in 1..Len(pool) :
           /\ list[j] = pool[p]
           /\ \A i \in 1..(j - 1) :
                list[i] \in Range(found) \/ \E q \in 1..(p - 1) : list[i] = pool[q]
  BY DEF Merges
<1>3. CASE /\ lead = 0 /\ \A t \in IdsOf(pool) : Excused(t)
           /\ \A c \in Range(found) : c.id \in direct /\ c.score = 100
  <2>1. \A p \in 1..Len(pool) : pool[p].id \in IdsOf(pool)
    BY <1>1 DEF IdsOf
  <2>2. \A p \in 1..Len(pool) : list[j] # pool[p]
    BY <1>3, <2>1
  <2>3. \A q \in 1..lead : FALSE
    BY <1>3
  <2>4. list[j] \in Range(found) /\ \A i \in 1..(j - 1) : list[i] \in Range(found)
    BY <1>2, <2>2, <2>3
  <2> QED
    BY <1>3, <2>4
<1>4. CASE /\ Ahead(pool, direct)
           /\ \A c \in Range(found) : c.score = 99 /\ (c.id \in direct => Excused(c.id))
  <2>1. list[j] \notin Range(found)
    BY <1>4
  <2>2. PICK p \in 1..Len(pool) :
          /\ list[j] = pool[p]
          /\ \A i \in 1..(j - 1) :
               list[i] \in Range(found) \/ \E q \in 1..(p - 1) : list[i] = pool[q]
    BY <1>2, <2>1
  <2>3. /\ pool[p].score = 100
        /\ \A q \in 1..(p - 1) : pool[q].score = 100 => pool[q].id \in direct
    BY <1>4, <2>2 DEF Ahead
  <2>4. ASSUME NEW i \in 1..(j - 1), list[i].score = 100
        PROVE  list[i].id \in direct
    <3>1. list[i] \notin Range(found)
      BY <1>4, <2>4
    <3> QED
      BY <2>2, <2>3, <2>4, <3>1
  <2> QED
    BY <2>2, <2>3, <2>4
<1> QED
  BY <1>3, <1>4

LEMMA AheadStays ==
  ASSUME TypeOK, Still \/ Loader, UNCHANGED <<pool, mapped>>, Ahead(pool, mapped)
  PROVE  Ahead(pool, mapped)'
<1>1. \A t \in Tables : Excused(t) => Excused(t)'
  BY ExcusedStays
<1>2. \A i \in 1..Len(pool) : pool[i].id \in Tables
  BY Held, IdsAreTables
<1> QED
  BY <1>1, <1>2 DEF Ahead

LEMMA MappedStaysPlaced ==
  ASSUME Shape, Shape', MappedPlaced, [Next]_vars
  PROVE  MappedPlaced'
<1> USE DEF Shape
<1>1. ASSUME pc' \in {"embedding", "searching"} \/ (pc' = "done" /\ code' = 500)
      PROVE  MappedPlaced'
  <2>1. /\ pc' \notin {"mappings", "mapped tables"}
        /\ pc' \notin {"neighbours", "neighbour tables"}
        /\ ~Settled'
    <3>1. CASE pc' \in {"embedding", "searching"}
      BY <3>1 DEF Settled, Answered
    <3>2. CASE pc' = "done" /\ code' = 500
      <4>1. code' # 200
        BY <3>2
      <4> QED
        BY <3>2, <4>1 DEF Settled, Answered
    <3> QED
      BY <1>1, <3>1, <3>2
  <2> QED
    BY <2>1 DEF MappedPlaced
<1>2. CASE Receive \/ Embed \/ Fails
  BY <1>1, <1>2 DEF Receive, Embed, Fails
<1>3. CASE SearchTables
  <2> DEFINE near == SortedBy(Near, Nearer)
             list == [i \in 1..Min({topK, Len(near)}) |->
                        [id |-> near[i], score |-> Similarity[near[i]]]]
  <2>1. topK \in Nat \ {0} /\ CatalogueTypeOK
    BY DEF TypeOK
  <2>2. Range(list) = {[id |-> t, score |-> Similarity[t]] : t \in Nearest}
    BY <2>1, SearchFinds
  <2>3. pool' = list /\ pc' = "mappings" /\ Still
    BY <1>3 DEF SearchTables
  <2> HIDE DEF list
  <2>4. \A t \in IdsOf(list) : t \in Nearest
    <3>1. \A c \in Range(list) : c.id \in Nearest
      BY <2>2
    <3>2. \A i \in DOMAIN list : list[i] \in Range(list)
      BY DEF Range
    <3> QED
      BY <3>1, <3>2 DEF IdsOf
  <2>5. \A t \in Nearest : Excused(t) /\ t \in Tables
    BY Held DEF Excused, Nearest, Near
  <2>6. \A t \in IdsOf(list) : Excused(t)'
    BY <2>3, <2>4, <2>5, ExcusedStays
  <2> QED
    BY <2>3, <2>6 DEF MappedPlaced, Settled, Answered
<1>4. CASE FindMappings
  <2>1. /\ pc = "mappings" /\ Still /\ mapped' = MappedTables(mappings)
        /\ \/ mapped' \subseteq IdsOf(pool) /\ ToNeighbours(pool, mapped')
           \/ pc' = "mapped tables" /\ UNCHANGED <<pool, code>>
    BY <1>4 DEF FindMappings
  <2>2. pool \in Seq(Candidate) /\ Distinct(pool) /\ code = 0 /\ mapped' \in SUBSET Tables
    BY <2>1, Held DEF Known, Outset, TypeOK
  <2>3. \A t \in IdsOf(pool) : Excused(t) /\ t \in Tables
    BY <2>1, <2>2, IdsAreTables DEF MappedPlaced
  <2>4. CASE mapped' \subseteq IdsOf(pool) /\ ToNeighbours(pool, mapped')
    <3>1. DOMAIN pool = 1..Len(pool)
      BY <2>2, LenProperties
    <3>2. Ahead(pool, mapped')
      BY <2>3, <3>1 DEF Ahead, IdsOf
    <3> QED
      BY <2>1, <2>2, <2>4, <3>2, HandsOn
  <2>5. CASE pc' = "mapped tables" /\ UNCHANGED <<pool, code>>
    <3>1. \A t \in IdsOf(pool') : Excused(t)'
      BY <2>1, <2>3, <2>5, ExcusedStays
    <3> QED
      BY <2>5, <3>1 DEF MappedPlaced, Settled, Answered
  <2> QED
    BY <2>1, <2>4, <2>5
<1>5. CASE FetchMapped
  <2>1. PICK found \in Listed(FetchTables(mapped \ IdsOf(pool)), 100) :
          ToNeighbours(found \o pool, mapped)
    BY <1>5 DEF FetchMapped
  <2>2. pc = "mapped tables" /\ Still /\ mapped' = mapped
    BY <1>5 DEF FetchMapped, readVars
  <2>3. Distinct(pool) /\ mapped \in SUBSET Tables /\ code = 0
    BY <2>2, Held DEF Known, Outset
  <2> DEFINE list == found \o pool
  <2>4. /\ Range(found) = {[id |-> t, score |-> 100] : t \in tables \cap (mapped \ IdsOf(pool))}
        /\ Merges(list, pool, found, 0)
    <3>1. 100 \in 0..100
      OBVIOUS
    <3> QED
      BY <2>1, <2>3, <3>1, FetchInserts
  <2>5. ToNeighbours(list, mapped)
    BY <2>1
  <2> HIDE DEF list
  <2>6. /\ \A t \in IdsOf(pool) : Excused(t)
        /\ mapped \subseteq tables \cup touched.tables
    BY <2>2 DEF MappedPlaced, Known
  <2>7. \A c \in Range(found) : c.id \in mapped /\ c.score = 100
    BY <2>4
  <2>8. Ahead(list, mapped)
    BY <2>3, <2>4, <2>6, <2>7, MergedAhead, SMTT(20)
  <2>9. mapped \subseteq IdsOf(list) \cup touched.tables
    <3>1. IdsOf(list) = IdsOf(pool) \cup {c.id : c \in Range(found)}
      BY <2>4, MergedIds
    <3>2. ASSUME NEW t \in tables \cap (mapped \ IdsOf(pool))
          PROVE  t \in IdsOf(list)
      <4>1. [id |-> t, score |-> 100] \in Range(found)
        BY <2>4
      <4> QED
        BY <3>1, <4>1
    <3> QED
      BY <2>6, <3>1, <3>2
  <2>10. list \in Seq(Candidate) /\ Distinct(list)
    BY <2>4 DEF Merges
  <2> QED
    BY <2>2, <2>3, <2>5, <2>8, <2>9, <2>10, HandsOn
<1>6. CASE FindNeighbours
  <2>1. /\ pc = "neighbours" /\ Still /\ mapped' = mapped
        /\ \/ Rank(pool)
           \/ pc' = "neighbour tables" /\ UNCHANGED <<pool, code>>
    BY <1>6 DEF FindNeighbours
  <2>2. pool \in Seq(Candidate) /\ Distinct(pool) /\ code = 0 /\ mapped \in SUBSET Tables
    BY <2>1, Held DEF Known, Outset
  <2>3. Ahead(pool, mapped) /\ mapped \subseteq IdsOf(pool) \cup touched.tables
    BY <2>1 DEF MappedPlaced
  <2>4. CASE Rank(pool)
    BY <2>1, <2>2, <2>3, <2>4, HandsOn
  <2>5. CASE pc' = "neighbour tables" /\ UNCHANGED <<pool, code>>
    <3>1. Ahead(pool, mapped)'
      BY <2>1, <2>2, <2>3, <2>5, AheadStays
    <3>2. touched' = touched
      BY <2>1 DEF Still
    <3> QED
      BY <2>1, <2>3, <2>5, <3>1, <3>2 DEF MappedPlaced, Settled, Answered
  <2> QED
    BY <2>1, <2>4, <2>5
<1>7. CASE FetchNeighbours
  <2>1. PICK found \in Listed(FetchTables(linked \ IdsOf(pool)), 99) :
          Rank(SubSeq(pool, 1, 1) \o found \o SubSeq(pool, 2, Len(pool)))
    BY <1>7 DEF FetchNeighbours
  <2>2. pc = "neighbour tables" /\ Still /\ mapped' = mapped
    BY <1>7 DEF FetchNeighbours, readVars
  <2>3. Distinct(pool) /\ linked \in SUBSET Tables /\ mapped \in SUBSET Tables /\ code = 0
    BY <2>2, Held DEF Known, Outset
  <2> DEFINE list == SubSeq(pool, 1, 1) \o found \o SubSeq(pool, 2, Len(pool))
  <2>4. /\ Range(found) = {[id |-> t, score |-> 99] : t \in tables \cap (linked \ IdsOf(pool))}
        /\ \E lead \in {0, 1} : Merges(list, pool, found, lead)
    <3>1. 99 \in 0..100
      OBVIOUS
    <3> QED
      BY <2>1, <2>3, <3>1, FetchInserts
  <2>5. Rank(list)
    BY <2>1
  <2> HIDE DEF list
  <2>6. PICK lead \in {0, 1} : Merges(list, pool, found, lead)
    BY <2>4
  <2>7. Ahead(pool, mapped) /\ mapped \subseteq IdsOf(pool) \cup touched.tables
    BY <2>2 DEF MappedPlaced
  <2>8. \A c \in Range(found) : c.score = 99 /\ (c.id \in mapped => Excused(c.id))
    BY <2>4, <2>7 DEF Excused
  <2>9. Ahead(list, mapped)
    BY <2>3, <2>6, <2>7, <2>8, MergedAhead
  <2>10. mapped \subseteq IdsOf(list) \cup touched.tables
    BY <2>6, <2>7, MergedIds
  <2>11. list \in Seq(Candidate) /\ Distinct(list)
    BY <2>6 DEF Merges
  <2> QED
    BY <2>2, <2>3, <2>5, <2>9, <2>10, <2>11, HandsOn
<1>8. ASSUME UNCHANGED <<pool, mapped>>, Still \/ Loader, Settled' => Settled,
             pc' \in {"mappings", "mapped tables", "neighbours", "neighbour tables"} => pc' = pc
      PROVE  MappedPlaced'
  <2>1. topK' = topK /\ \A t \in Tables : Excused(t) => Excused(t)'
    BY <1>8, ExcusedStays
  <2>2. pool \in Seq(Candidate) /\ mapped \in SUBSET Tables
    BY Held
  <2>3. ASSUME \A t \in IdsOf(pool) : Excused(t)
        PROVE  \A t \in IdsOf(pool) : Excused(t)'
    BY <2>1, <2>2, <2>3, IdsAreTables
  <2>4. ASSUME Ahead(pool, mapped)
        PROVE  Ahead(pool, mapped)'
    BY <1>8, <2>2, <2>4, AheadStays
  <2>5. ASSUME CrowdedByMapped(pool, mapped)
        PROVE  CrowdedByMapped(pool, mapped)'
    BY <1>8, <2>1, <2>2, <2>5, ZenonT(30) DEF CrowdedByMapped
  <2>6. touched.tables \subseteq touched'.tables
    BY <1>8, LoaderWrites DEF Still
  <2>7. pc' \in {"mappings", "mapped tables"} => \A t \in IdsOf(pool') : Excused(t)'
    BY <1>8, <2>3 DEF MappedPlaced
  <2>8. pc' \in {"neighbours", "neighbour tables"} =>
          Ahead(pool, mapped)' /\ mapped' \subseteq IdsOf(pool') \cup touched'.tables
    BY <1>8, <2>4, <2>6 DEF MappedPlaced
  <2>9. Settled' => CrowdedByMapped(pool, mapped)'
    BY <1>8, <2>5 DEF MappedPlaced
  <2> QED
    BY <2>7, <2>8, <2>9 DEF MappedPlaced
<1>9. CASE SearchColumns
  BY <1>8, <1>9 DEF SearchColumns, ToBridges, Settled, Answered
<1>10. CASE FindFkBridges
  BY <1>8, <1>10 DEF FindFkBridges, Settled, Answered
<1>11. CASE FindConventionBridges
  BY <1>8, <1>11 DEF FindConventionBridges, Settled, Answered
<1>12. CASE Loader
  BY <1>8, <1>12 DEF Loader, readVars, Settled, Answered
<1>13. CASE UNCHANGED vars
  BY <1>8, <1>13 DEF vars, readVars, Still, Settled, Answered
<1> QED
  BY <1>2, <1>3, <1>4, <1>5, <1>6, <1>7, <1>9, <1>10, <1>11, <1>12, <1>13 DEF Next

(* decision_postgres.py:123-145: a verified mapping's table that the       *)
(* search missed is not crowded out by anything but other such tables.     *)
THEOREM MappedIsNotCrowdedOut == Spec => []MappedNotCrowdedOut
<1>1. Init => MappedPlaced
  BY DEF Init, MappedPlaced, Settled, Answered
<1>2. Shape /\ MappedPlaced /\ [Next]_vars => (Shape /\ MappedPlaced)'
  BY ShapeKept, MappedStaysPlaced
<1>3. Shape /\ MappedPlaced => MappedNotCrowdedOut
  <2> SUFFICES ASSUME Shape, MappedPlaced, Answered,
                      NEW t \in mapped \ (IdsOf(pool) \cup touched.tables)
               PROVE  \/ t \in Near /\ (t \in Nearest \/ touched.tables # {})
                      \/ /\ Len(pool) = topK
                         /\ \A i \in DOMAIN pool : pool[i].id \in mapped /\ pool[i].score = 100
    BY DEF MappedNotCrowdedOut
  <2>1. DOMAIN pool = 1..Len(pool)
    BY Held, LenProperties DEF Shape
  <2>2. CrowdedByMapped(pool, mapped)
    BY DEF MappedPlaced, Settled
  <2> QED
    BY <2>1, <2>2 DEF CrowdedByMapped, Excused
<1> QED
  BY ShapeAtStart, <1>1, <1>2, <1>3, PTL DEF Spec

----------------------------------------------------------------------------
(* Bridges.  Between the two queries there are the keys, of candidates the *)
(* first query found in the catalogue.                                     *)

KeysBridged ==
  \A f \in fks \ touched.fks :
    {f.from[1], f.to[1]} \subseteq IdsOf(pool) \ touched.tables =>
      FkBridge(f) \in bridges

Bridged ==
  /\ pc \in {"fk bridges", "convention bridges"} => Len(pool) >= 2
  /\ pc = "convention bridges" =>
       /\ \A b \in bridges : /\ b.via = "fk"
                             /\ {b.from[1], b.to[1]} \subseteq IdsOf(pool)
       /\ KeysBridged
  /\ BridgesJoinCandidates

(* metadata_repository.py:132 and 159: fewer than two candidates have no   *)
(* bridges.                                                                *)
LEMMA NoneToBridge ==
  ASSUME bridges' = {},
         \/ pc' \notin {"fk bridges", "convention bridges", "done"}
         \/ pc' = "done" /\ code' = 500
         \/ pc' = "fk bridges" /\ Len(pool') >= 2
         \/ pc' = "done" /\ code' = 200 /\ ~(Len(pool') >= 2)
  PROVE  Bridged'
<1>1. CASE pc' \notin {"fk bridges", "convention bridges", "done"}
  BY <1>1 DEF Bridged, BridgesJoinCandidates, Answered
<1>2. CASE pc' = "done" /\ code' = 500
  <2>1. code' # 200
    BY <1>2
  <2> QED
    BY <1>2, <2>1 DEF Bridged, BridgesJoinCandidates, Answered
<1>3. CASE pc' = "fk bridges" /\ Len(pool') >= 2
  BY <1>3 DEF Bridged, BridgesJoinCandidates, Answered
<1>4. CASE pc' = "done" /\ code' = 200 /\ ~(Len(pool') >= 2)
  BY <1>4 DEF Bridged, BridgesJoinCandidates, Answered
<1> QED
  BY <1>1, <1>2, <1>3, <1>4

(* decision_postgres.py:172-189: the keys are those between the candidates *)
(* that are both in the catalogue.                                         *)
LEMMA KeysFound ==
  ASSUME Shape, FindFkBridges
  PROVE  /\ \A b \in bridges' : /\ b.via = "fk"
                                /\ {b.from[1], b.to[1]} \subseteq IdsOf(pool)
         /\ KeysBridged'
<1>1. /\ bridges' = FkBridges(IdsOf(pool)) /\ UNCHANGED <<pool, fks, touched>>
      /\ IdsOf(pool) \subseteq tables \cup touched.tables
  BY DEF FindFkBridges, Still, catalogueVars, Shape, Known
<1>2. ASSUME NEW b \in FkBridges(IdsOf(pool))
      PROVE  b.via = "fk" /\ {b.from[1], b.to[1]} \subseteq IdsOf(pool)
  <2>1. PICK f \in JoinedFks : /\ f.from[1] \in IdsOf(pool) /\ f.to[1] \in IdsOf(pool)
                               /\ b = FkBridge(f)
    BY DEF FkBridges
  <2>2. b.from = f.from /\ b.to = f.to /\ b.via = "fk"
    BY <2>1 DEF FkBridge, Bridge
  <2> QED
    BY <2>1, <2>2
<1>3. ASSUME NEW f \in fks,
             {f.from[1], f.to[1]} \subseteq IdsOf(pool) \ touched.tables
      PROVE  FkBridge(f) \in FkBridges(IdsOf(pool))
  <2>1. f.from[1] \in IdsOf(pool) \ touched.tables /\ f.to[1] \in IdsOf(pool) \ touched.tables
    BY <1>3
  <2>2. f \in JoinedFks
    BY <1>1, <2>1 DEF JoinedFks
  <2> QED
    BY <2>1, <2>2 DEF FkBridges
<1> QED
  BY <1>1, <1>2, <1>3 DEF KeysBridged

(* metadata_repository.py:159-195: more candidates, more conventions.      *)
LEMMA ConventionsGrow ==
  ASSUME NEW S, NEW T, S \subseteq T
  PROVE  /\ ConventionBridges(S) \subseteq ConventionBridges(T)
         /\ \A b \in ConventionBridges(S) :
              b.via = "convention" /\ {b.from[1], b.to[1]} \subseteq S
<1> SUFFICES ASSUME NEW b \in ConventionBridges(S)
             PROVE  /\ b \in ConventionBridges(T)
                    /\ b.via = "convention" /\ {b.from[1], b.to[1]} \subseteq S
  OBVIOUS
<1>1. PICK p \in Columns \X Columns :
        /\ p[1][1] \in S \cap tables /\ p[2][1] \in S \cap tables
        /\ p[1][1] < p[2][1] /\ p[1][2] = p[2][2]
        /\ p[1] \in Keys \/ p[2] \in Keys \/ LikeIdentifier(p[1][2])
        /\ b = Bridge(p[1], p[2], "convention", "none")
  BY DEF ConventionBridges
<1>2. p[1][1] \in T \cap tables /\ p[2][1] \in T \cap tables
  BY <1>1
<1>3. b.from = p[1] /\ b.to = p[2] /\ b.via = "convention"
  BY <1>1 DEF Bridge
<1>4. b \in ConventionBridges(T)
  BY <1>1, <1>2 DEF ConventionBridges
<1> QED
  BY <1>1, <1>3, <1>4

(* decision_postgres.py:190-208: conventions are added to the keys, except *)
(* those with the two ends of a key.                                       *)
LEMMA ConventionsAdded ==
  ASSUME pc = "convention bridges", Bridged, FindConventionBridges
  PROVE  BridgesJoinCandidates'
<1> DEFINE ends == {EndsOf(b) : b \in bridges}
           conventions == ConventionBridges(IdsOf(pool))
<1>1. /\ bridges' = bridges \cup {b \in conventions : EndsOf(b) \notin ends}
      /\ UNCHANGED <<pool, fks, tables, touched>>
  BY DEF FindConventionBridges, Still, catalogueVars
<1>2. \A b \in conventions : /\ b.via = "convention"
                             /\ {b.from[1], b.to[1]} \subseteq IdsOf(pool)
  <2>1. IdsOf(pool) \subseteq IdsOf(pool)
    OBVIOUS
  <2> QED
    BY <2>1, ConventionsGrow
<1>3. ConventionBridges(IdsOf(pool) \ touched.tables) \subseteq conventions
  <2>1. IdsOf(pool) \ touched.tables \subseteq IdsOf(pool)
    OBVIOUS
  <2> QED
    BY <2>1, ConventionsGrow
<1>4. (ConventionBridges(IdsOf(pool) \ touched.tables))'
        = ConventionBridges(IdsOf(pool) \ touched.tables)
  <2> DEFINE rest == IdsOf(pool) \ touched.tables
  <2>1. rest' = rest /\ tables' = tables
    BY <1>1 DEF IdsOf
  <2> HIDE DEF rest
  <2>2. ConventionBridges(rest)' = ConventionBridges(rest)
    BY <2>1 DEF ConventionBridges, LikeIdentifier, Bridge
  <2> QED
    BY <2>2 DEF rest
<1>5. \A b \in bridges : EndsOf(b) \in ends
  OBVIOUS
<1>6. \A e \in ends : \E c \in bridges : EndsOf(c) = e
  OBVIOUS
<1> HIDE DEF conventions, ends
<1>7. \A b \in bridges : b.via = "fk" /\ {b.from[1], b.to[1]} \subseteq IdsOf(pool)
  BY DEF Bridged
<1>8. \A b \in bridges' : {b.from[1], b.to[1]} \subseteq IdsOf(pool')
  <2> SUFFICES ASSUME NEW b \in bridges'
               PROVE  {b.from[1], b.to[1]} \subseteq IdsOf(pool)
    BY <1>1
  <2>1. b \in bridges \/ b \in conventions
    BY <1>1
  <2> QED
    BY <1>2, <1>7, <2>1, Zenon
<1>9. ASSUME NEW b \in bridges', NEW c \in bridges', EndsOf(b) = EndsOf(c)
      PROVE  b.via = c.via
  <2>1. \/ b \in bridges /\ c \in bridges
        \/ b \in conventions /\ c \in conventions
    BY <1>1, <1>5, <1>9
  <2> QED
    BY <1>2, <1>7, <2>1, Zenon
<1>10. KeysBridged /\ bridges \subseteq bridges'
  BY <1>1 DEF Bridged
<1>11. \A f \in fks' \ touched'.fks :
         {f.from[1], f.to[1]} \subseteq IdsOf(pool') \ touched'.tables =>
           FkBridge(f) \in bridges'
  BY <1>1, <1>10 DEF KeysBridged
<1>12. ASSUME NEW b \in conventions
       PROVE  \E c \in bridges' : EndsOf(c) = EndsOf(b)
  <2>1. CASE EndsOf(b) \in ends
    BY <1>6, <1>10, <2>1
  <2>2. CASE EndsOf(b) \notin ends
    BY <1>1, <2>2
  <2> QED
    BY <2>1, <2>2
<1>13. \A b \in (ConventionBridges(IdsOf(pool) \ touched.tables))' :
         \E c \in bridges' : EndsOf(c) = EndsOf(b)
  BY <1>3, <1>4, <1>12
<1> QED
  BY <1>8, <1>9, <1>11, <1>13 DEF BridgesJoinCandidates

LEMMA BridgedKept ==
  ASSUME Shape, Bridged, [Next]_vars
  PROVE  Bridged'
<1> USE DEF Shape
<1>1. CASE Receive \/ Embed \/ SearchTables
  <2>1. pc' \in {"embedding", "searching", "mappings"} /\ bridges' = bridges /\ bridges = {}
    BY <1>1 DEF Receive, Embed, SearchTables, readVars, Outset
  <2> QED
    BY <2>1, NoneToBridge
<1>2. ASSUME code = 0, bridges' = {}, NEW list \in Seq(Candidate), Distinct(list), Rank(list)
      PROVE  Bridged'
  BY <1>2, RankSettles, NoneToBridge
<1>3. ASSUME code = 0, bridges' = {}, NEW list \in Seq(Candidate), Distinct(list), NEW ids,
             ToNeighbours(list, ids)
      PROVE  Bridged'
  <2>1. pc' = "neighbours" \/ Rank(list)
    BY <1>3, GoesOn
  <2> QED
    BY <1>2, <1>3, <2>1, NoneToBridge
<1>4. CASE FindMappings
  <2>1. /\ bridges' = {} /\ code = 0
        /\ ToNeighbours(pool, mapped') \/ pc' = "mapped tables"
    BY <1>4 DEF FindMappings, Outset
  <2>2. pool \in Seq(Candidate) /\ Distinct(pool)
    BY Held DEF Known
  <2> QED
    BY <1>3, <2>1, <2>2, NoneToBridge
<1>5. CASE FetchMapped
  <2>1. PICK found \in Listed(FetchTables(mapped \ IdsOf(pool)), 100) :
          ToNeighbours(found \o pool, mapped)
    BY <1>5 DEF FetchMapped
  <2>2. pc = "mapped tables" /\ bridges' = bridges
    BY <1>5 DEF FetchMapped, readVars
  <2>3. bridges' = {} /\ code = 0 /\ Distinct(pool) /\ mapped \in SUBSET Tables
    BY <2>2, Held DEF Outset, Known
  <2>4. Merges(found \o pool, pool, found, 0)
    <3>1. 100 \in 0..100
      OBVIOUS
    <3> QED
      BY <2>1, <2>3, <3>1, FetchInserts
  <2>5. found \o pool \in Seq(Candidate) /\ Distinct(found \o pool)
    BY <2>4 DEF Merges
  <2> QED
    BY <1>3, <2>1, <2>3, <2>5
<1>6. CASE FindNeighbours
  <2>1. bridges' = {} /\ code = 0 /\ (Rank(pool) \/ pc' = "neighbour tables")
    BY <1>6 DEF FindNeighbours, Outset
  <2>2. pool \in Seq(Candidate) /\ Distinct(pool)
    BY Held DEF Known
  <2> QED
    BY <1>2, <2>1, <2>2, NoneToBridge
<1>7. CASE FetchNeighbours
  <2>1. PICK found \in Listed(FetchTables(linked \ IdsOf(pool)), 99) :
          Rank(SubSeq(pool, 1, 1) \o found \o SubSeq(pool, 2, Len(pool)))
    BY <1>7 DEF FetchNeighbours
  <2>2. pc = "neighbour tables" /\ bridges' = bridges
    BY <1>7 DEF FetchNeighbours, readVars
  <2>3. bridges' = {} /\ code = 0 /\ Distinct(pool) /\ linked \in SUBSET Tables
    BY <2>2, Held DEF Outset, Known
  <2> DEFINE list == SubSeq(pool, 1, 1) \o found \o SubSeq(pool, 2, Len(pool))
  <2>4. \E lead \in {0, 1} : Merges(list, pool, found, lead)
    <3>1. 99 \in 0..100
      OBVIOUS
    <3> QED
      BY <2>1, <2>3, <3>1, FetchInserts
  <2>6. Rank(list)
    BY <2>1
  <2> HIDE DEF list
  <2>5. list \in Seq(Candidate) /\ Distinct(list)
    BY <2>4 DEF Merges
  <2> QED
    BY <1>2, <2>3, <2>5, <2>6
<1>8. CASE SearchColumns
  <2>1. /\ bridges' = {} /\ pool' = pool
        /\ \/ pc' = "fk bridges" /\ Len(pool') >= 2
           \/ pc' = "done" /\ code' = 200 /\ ~(Len(pool') >= 2)
    BY <1>8 DEF SearchColumns, ToBridges, Outset
  <2> QED
    BY <2>1, NoneToBridge
<1>9. CASE FindFkBridges
  <2>1. /\ pc = "fk bridges" /\ pc' = "convention bridges" /\ UNCHANGED <<pool, code>>
    BY <1>9 DEF FindFkBridges
  <2>2. Len(pool) >= 2
    BY <2>1 DEF Bridged
  <2>3. BridgesJoinCandidates'
    BY <2>1 DEF BridgesJoinCandidates, Answered
  <2> QED
    BY <1>9, <2>1, <2>2, <2>3, KeysFound DEF Bridged
<1>10. CASE FindConventionBridges
  <2>1. pc = "convention bridges" /\ pc' = "done"
    BY <1>10 DEF FindConventionBridges
  <2>2. BridgesJoinCandidates'
    BY <1>10, <2>1, ConventionsAdded
  <2> QED
    BY <2>1, <2>2 DEF Bridged
<1>11. CASE Fails
  <2>1. /\ pc' = "done" /\ code' = 500
        /\ code' # 200
    BY <1>11 DEF Fails
  <2> QED
    BY <2>1 DEF Bridged, BridgesJoinCandidates, Answered
<1>12. CASE Loader
  <2>1. UNCHANGED <<pc, pool, bridges, code>> /\ pc # "done"
    BY <1>12 DEF Loader, readVars
  <2>2. /\ touched.tables \subseteq touched'.tables /\ touched.fks \subseteq touched'.fks
        /\ \A f \in Fks : f \in touched'.fks \/ (f \in fks <=> f \in fks')
        /\ fks' \subseteq Fks
    BY <1>12, LoaderWrites DEF CatalogueTypeOK
  <2>3. KeysBridged => KeysBridged'
    BY <2>1, <2>2 DEF KeysBridged
  <2>4. BridgesJoinCandidates'
    BY <2>1 DEF BridgesJoinCandidates, Answered
  <2> QED
    BY <2>1, <2>3, <2>4 DEF Bridged
<1>13. CASE UNCHANGED vars
  <2>1. UNCHANGED <<tables, fks, pc, pool, bridges, code, touched>>
    BY <1>13 DEF vars, catalogueVars, readVars
  <2>2. KeysBridged' <=> KeysBridged
    BY <2>1 DEF KeysBridged
  <2>3. BridgesJoinCandidates' <=> BridgesJoinCandidates
    BY <2>1 DEF BridgesJoinCandidates, Answered, ConventionBridges
  <2> QED
    BY <2>1, <2>2, <2>3 DEF Bridged
<1> QED
  BY <1>1, <1>4, <1>5, <1>6, <1>7, <1>8, <1>9, <1>10, <1>11, <1>12, <1>13 DEF Next

(* decision_postgres.py:172-208: the bridges of an answer join candidates, *)
(* no convention has the ends of a key, every undisturbed key is a bridge  *)
(* of its own, and every convention of candidates that were not dropped    *)
(* has a bridge with its ends.                                             *)
THEOREM BridgesAreComplete == Spec => []BridgesJoinCandidates
<1>1. Init => Bridged
  BY DEF Init, Bridged, BridgesJoinCandidates, Answered
<1>2. Shape /\ Bridged /\ [Next]_vars => (Shape /\ Bridged)'
  BY ShapeKept, BridgedKept
<1>3. Bridged => BridgesJoinCandidates
  BY DEF Bridged
<1> QED
  BY ShapeAtStart, <1>1, <1>2, <1>3, PTL DEF Spec

----------------------------------------------------------------------------
(* A call nobody disturbs.  Each of its lists holds the rows a single      *)
(* reading would give so far, and the rows of the answer are the best of   *)
(* them all.                                                               *)

NearRows == {[id |-> t, score |-> Similarity[t]] : t \in Nearest}

DirectRows ==
  NearRows \cup {[id |-> t, score |-> 100] : t \in MappedTables(mappings) \ Nearest}

LinkedRows ==
  {[id |-> t, score |-> 99] :
     t \in FkNeighbours(MappedTables(mappings)) \ (Nearest \cup MappedTables(mappings))}

Undisturbed ==
  touched = Nothing =>
    /\ pc \in {"mappings", "mapped tables"} => Range(pool) = NearRows
    /\ pc \in {"mapped tables", "neighbours", "neighbour tables"} =>
         mapped = MappedTables(mappings)
    /\ pc \in {"neighbours", "neighbour tables"} => Range(pool) = DirectRows
    /\ pc = "neighbour tables" => linked = FkNeighbours(mapped)
    /\ Settled => BestOf(pool, Wanted)

(* metadata_repository.py:112-129: the tables a key links to the mapped    *)
(* ones, besides these, are those the query returns.                       *)
LEMMA WantedRows == Wanted = DirectRows \cup LinkedRows
<1> DEFINE direct == MappedTables(mappings)
           links == UNION {{f.from[1], f.to[1]} : f \in JoinedFks}
           next == {t \in links : \E f \in JoinedFks :
                      {f.from[1], f.to[1]} \cap direct # {} /\ t \in {f.from[1], f.to[1]}}
           Score(t) == IF t \in Nearest THEN Similarity[t]
                       ELSE IF t \in direct THEN 100 ELSE 99
<1>1. Wanted = {[id |-> t, score |-> Score(t)] : t \in Nearest \cup direct \cup next}
  BY DEF Wanted
<1>2. ASSUME NEW t
      PROVE  t \in next \ direct <=> t \in FkNeighbours(direct) \ direct
  <2>1. ASSUME NEW f \in JoinedFks, {f.from[1], f.to[1]} \cap direct # {},
               t \in {f.from[1], f.to[1]}, t \notin direct
        PROVE  t \in FkNeighbours(direct)
    <3>1. /\ f.from[1] \in direct \/ f.to[1] \in direct
          /\ t = IF f.from[1] \in direct THEN f.to[1] ELSE f.from[1]
      BY <2>1
    <3> HIDE DEF direct
    <3> QED
      BY <3>1 DEF FkNeighbours
  <2>2. ASSUME t \in FkNeighbours(direct), t \notin direct
        PROVE  t \in next
    <3>1. PICK f \in JoinedFks :
            /\ f.from[1] \in direct \/ f.to[1] \in direct
            /\ t = IF f.from[1] \in direct THEN f.to[1] ELSE f.from[1]
      <4> HIDE DEF direct
      <4> QED
        BY <2>2 DEF FkNeighbours
    <3>2. {f.from[1], f.to[1]} \cap direct # {} /\ t \in {f.from[1], f.to[1]}
      BY <3>1
    <3> HIDE DEF direct
    <3> QED
      BY <3>2
  <2> HIDE DEF direct
  <2> QED
    BY <2>1, <2>2
<1> HIDE DEF direct, next, links
<1>3. Nearest \cup direct \cup next =
        Nearest \cup (direct \ Nearest) \cup (FkNeighbours(direct) \ (Nearest \cup direct))
  BY <1>2
<1>4. /\ \A t \in Nearest : Score(t) = Similarity[t]
      /\ \A t \in direct \ Nearest : Score(t) = 100
      /\ \A t \in FkNeighbours(direct) \ (Nearest \cup direct) : Score(t) = 99
  OBVIOUS
<1> HIDE DEF Score
<1>5. {[id |-> t, score |-> Score(t)] : t \in Nearest \cup direct \cup next} =
        {[id |-> t, score |-> Similarity[t]] : t \in Nearest}
        \cup {[id |-> t, score |-> 100] : t \in direct \ Nearest}
        \cup {[id |-> t, score |-> 99] : t \in FkNeighbours(direct) \ (Nearest \cup direct)}
  BY <1>3, <1>4
<1> QED
  BY <1>1, <1>5 DEF NearRows, DirectRows, LinkedRows, direct

(* Rows of tables that are in the catalogue.                               *)
LEMMA RowsExist ==
  ASSUME TypeOK
  PROVE  /\ MappedTables(mappings) \subseteq tables
         /\ \A ids : FkNeighbours(ids) \subseteq tables
  BY DEF MappedTables, FkNeighbours, JoinedFks

LEMMA RowsStay ==
  ASSUME Still
  PROVE  /\ UNCHANGED <<topK, touched, Nearest, NearRows, DirectRows, Wanted>>
         /\ MappedTables(mappings)' = MappedTables(mappings)
         /\ \A ids : FkNeighbours(ids)' = FkNeighbours(ids)
<1>1. UNCHANGED <<tables, fks, mappings, topK, touched>>
  BY DEF Still, catalogueVars, requestVars
<1>2. Near' = Near
  BY <1>1 DEF Near
<1>3. Nearest' = Nearest
  BY <1>1, <1>2 DEF Nearest
<1>4. MappedTables(mappings)' = MappedTables(mappings)
  BY <1>1 DEF MappedTables
<1>5. JoinedFks' = JoinedFks
  BY <1>1 DEF JoinedFks
<1>6. \A ids : FkNeighbours(ids)' = FkNeighbours(ids)
  BY <1>5 DEF FkNeighbours
<1>7. NearRows' = NearRows
  BY <1>3 DEF NearRows
<1>8. DirectRows' = DirectRows
  BY <1>3, <1>4, <1>7 DEF DirectRows
<1>9. Wanted' = Wanted
  BY <1>3, <1>4, <1>5 DEF Wanted
<1> QED
  BY <1>1, <1>3, <1>4, <1>6, <1>7, <1>8, <1>9

(* The ids of rows.                                                        *)
LEMMA RowIds ==
  ASSUME NEW list
  PROVE  /\ Range(list) = NearRows => IdsOf(list) = Nearest
         /\ Range(list) = DirectRows => IdsOf(list) = Nearest \cup MappedTables(mappings)
<1>1. IdsOf(list) = {c.id : c \in Range(list)}
  BY DEF IdsOf, Range
<1>2. {c.id : c \in NearRows} = Nearest
  <2>1. \A c \in NearRows : c.id \in Nearest
    BY DEF NearRows
  <2>2. ASSUME NEW t \in Nearest
        PROVE  \E c \in NearRows : c.id = t
    <3>1. /\ [id |-> t, score |-> Similarity[t]] \in NearRows
          /\ [id |-> t, score |-> Similarity[t]].id = t
      BY DEF NearRows
    <3> QED
      BY <3>1
  <2> QED
    BY <2>1, <2>2, Zenon
<1>3. {c.id : c \in DirectRows} = Nearest \cup MappedTables(mappings)
  <2> DEFINE direct == MappedTables(mappings)
             rows == {[id |-> t, score |-> 100] : t \in direct \ Nearest}
  <2>1. {c.id : c \in rows} = direct \ Nearest
    <3> HIDE DEF direct
    <3>1. \A c \in rows : c.id \in direct \ Nearest
      OBVIOUS
    <3>2. ASSUME NEW t \in direct \ Nearest
          PROVE  \E c \in rows : c.id = t
      <4>1. [id |-> t, score |-> 100] \in rows /\ [id |-> t, score |-> 100].id = t
        OBVIOUS
      <4> QED
        BY <4>1
    <3> QED
      BY <3>1, <3>2, Zenon
  <2>2. DirectRows = NearRows \cup rows
    BY DEF DirectRows
  <2> HIDE DEF rows
  <2>3. {c.id : c \in DirectRows} = {c.id : c \in NearRows} \cup {c.id : c \in rows}
    BY <2>2
  <2> QED
    BY <1>2, <2>1, <2>3
<1> QED
  BY <1>1, <1>2, <1>3

(* decision_postgres.py:132-144: ranking a list with the rows of a single  *)
(* reading leaves the best of them.                                        *)
LEMMA BestAnswered ==
  ASSUME TypeOK, code = 0, Still, NEW list \in Seq(Candidate), Distinct(list), Rank(list),
         touched = Nothing => Range(list) = Wanted
  PROVE  Undisturbed'
<1>1. topK \in Nat \ {0}
  BY DEF TypeOK
<1>2. pool' = Ranked(list) /\ pc' \in {"columns", "fk bridges", "done"}
  BY RankSettles
<1>3. topK' = topK /\ touched' = touched /\ Wanted' = Wanted
  BY RowsStay
<1>4. BestOf(Ranked(list), Range(list))
  BY <1>1, RankedIsBest
<1>5. touched = Nothing => BestOf(pool, Wanted)'
  BY <1>2, <1>3, <1>4 DEF BestOf
<1> QED
  BY <1>2, <1>3, <1>5 DEF Undisturbed, Nothing

(* decision_postgres.py:123-131: without a mapped table there is nothing   *)
(* to look for next to it, and the rows are already those of the answer.   *)
LEMMA DirectGoesOn ==
  ASSUME TypeOK, code = 0, Still, NEW list \in Seq(Candidate), Distinct(list),
         NEW ids \in SUBSET Tables, mapped' = ids, ToNeighbours(list, ids),
         touched = Nothing => ids = MappedTables(mappings) /\ Range(list) = DirectRows
  PROVE  Undisturbed'
<1>1. CASE pc' = "neighbours" /\ pool' = list
  <2>1. touched' = touched /\ MappedTables(mappings)' = MappedTables(mappings)
        /\ DirectRows' = DirectRows
    BY RowsStay
  <2>2. touched = Nothing => mapped' = MappedTables(mappings)' /\ Range(pool') = DirectRows'
    BY <1>1, <2>1
  <2> QED
    BY <1>1, <2>1, <2>2 DEF Undisturbed, Settled, Answered, Nothing
<1>2. CASE ids = {} /\ Rank(list)
  <2>1. ASSUME touched = Nothing
        PROVE  Range(list) = Wanted
    <3>1. MappedTables(mappings) = {}
      BY <1>2, <2>1
    <3>2. FkNeighbours({}) = {}
      BY DEF FkNeighbours
    <3>3. LinkedRows = {}
      BY <3>1, <3>2 DEF LinkedRows
    <3> QED
      BY <2>1, <3>3, WantedRows
  <2> QED
    BY <1>2, <2>1, BestAnswered
<1> QED
  BY <1>1, <1>2, GoesOn

LEMMA UndisturbedKept ==
  ASSUME Shape, Undisturbed, [Next]_vars
  PROVE  Undisturbed'
<1> USE DEF Shape
<1>1. ASSUME pc' \in {"embedding", "searching"} \/ (pc' = "done" /\ code' = 500)
      PROVE  Undisturbed'
  <2>1. /\ pc' \notin {"mappings", "mapped tables", "neighbours", "neighbour tables"}
        /\ ~Settled'
    <3>1. CASE pc' \in {"embedding", "searching"}
      BY <3>1 DEF Settled, Answered
    <3>2. CASE pc' = "done" /\ code' = 500
      <4>1. code' # 200
        BY <3>2
      <4> QED
        BY <3>2, <4>1 DEF Settled, Answered
    <3> QED
      BY <1>1, <3>1, <3>2
  <2> QED
    BY <2>1 DEF Undisturbed
<1>2. CASE Receive \/ Embed \/ Fails
  BY <1>1, <1>2 DEF Receive, Embed, Fails
<1>3. CASE SearchTables
  <2> DEFINE near == SortedBy(Near, Nearer)
             list == [i \in 1..Min({topK, Len(near)}) |->
                        [id |-> near[i], score |-> Similarity[near[i]]]]
  <2>1. topK \in Nat \ {0} /\ CatalogueTypeOK
    BY DEF TypeOK
  <2>2. Range(list) = NearRows
    BY <2>1, SearchFinds DEF NearRows
  <2>3. pool' = list /\ pc' = "mappings" /\ Still
    BY <1>3 DEF SearchTables
  <2> HIDE DEF list
  <2>4. Range(pool') = NearRows'
    BY <2>2, <2>3, RowsStay
  <2> QED
    BY <2>3, <2>4 DEF Undisturbed, Settled, Answered
<1>4. CASE FindMappings
  <2>1. /\ pc = "mappings" /\ Still /\ mapped' = MappedTables(mappings)
        /\ \/ mapped' \subseteq IdsOf(pool) /\ ToNeighbours(pool, mapped')
           \/ pc' = "mapped tables" /\ UNCHANGED <<pool, code>>
    BY <1>4 DEF FindMappings
  <2>2. pool \in Seq(Candidate) /\ Distinct(pool) /\ code = 0 /\ mapped' \in SUBSET Tables
    BY <2>1, Held, MappedExist DEF Known, Outset
  <2>3. touched = Nothing => Range(pool) = NearRows
    BY <2>1 DEF Undisturbed
  <2>4. CASE mapped' \subseteq IdsOf(pool) /\ ToNeighbours(pool, mapped')
    <3>1. ASSUME touched = Nothing
          PROVE  mapped' = MappedTables(mappings) /\ Range(pool) = DirectRows
      <4>1. IdsOf(pool) = Nearest /\ Range(pool) = NearRows
        BY <2>3, <3>1, RowIds
      <4>2. MappedTables(mappings) \ Nearest = {}
        BY <2>1, <2>4, <4>1
      <4>3. DirectRows = NearRows
        BY <4>2 DEF DirectRows
      <4> QED
        BY <2>1, <4>1, <4>3
    <3> QED
      BY <2>1, <2>2, <2>4, <3>1, DirectGoesOn
  <2>5. CASE pc' = "mapped tables" /\ UNCHANGED <<pool, code>>
    <3>1. /\ touched' = touched /\ NearRows' = NearRows
          /\ MappedTables(mappings)' = MappedTables(mappings)
      BY <2>1, RowsStay
    <3>2. touched' = Nothing => Range(pool') = NearRows' /\ mapped' = MappedTables(mappings)'
      BY <2>1, <2>3, <2>5, <3>1
    <3> QED
      BY <2>5, <3>2 DEF Undisturbed, Settled, Answered, Nothing
  <2> QED
    BY <2>1, <2>4, <2>5
<1>5. CASE FetchMapped
  <2>1. PICK found \in Listed(FetchTables(mapped \ IdsOf(pool)), 100) :
          ToNeighbours(found \o pool, mapped)
    BY <1>5 DEF FetchMapped
  <2>2. pc = "mapped tables" /\ Still /\ mapped' = mapped
    BY <1>5 DEF FetchMapped, readVars
  <2>3. Distinct(pool) /\ mapped \in SUBSET Tables /\ code = 0
    BY <2>2, Held DEF Known, Outset
  <2> DEFINE list == found \o pool
  <2>4. /\ Range(found) = {[id |-> t, score |-> 100] : t \in tables \cap (mapped \ IdsOf(pool))}
        /\ Merges(list, pool, found, 0)
    <3>1. 100 \in 0..100
      OBVIOUS
    <3> QED
      BY <2>1, <2>3, <3>1, FetchInserts
  <2>5. ToNeighbours(list, mapped)
    BY <2>1
  <2> HIDE DEF list
  <2>6. list \in Seq(Candidate) /\ Distinct(list) /\ Range(list) = Range(pool) \cup Range(found)
    BY <2>4 DEF Merges
  <2>7. ASSUME touched = Nothing
        PROVE  mapped = MappedTables(mappings) /\ Range(list) = DirectRows
    <3>1. mapped = MappedTables(mappings) /\ Range(pool) = NearRows /\ IdsOf(pool) = Nearest
      BY <2>2, <2>7, RowIds DEF Undisturbed
    <3>2. tables \cap (mapped \ IdsOf(pool)) = MappedTables(mappings) \ Nearest
      BY <3>1, RowsExist
    <3>3. Range(found) = {[id |-> t, score |-> 100] : t \in MappedTables(mappings) \ Nearest}
      BY <2>4, <3>2
    <3> QED
      BY <2>6, <3>1, <3>3 DEF DirectRows
  <2> QED
    BY <2>2, <2>3, <2>5, <2>6, <2>7, DirectGoesOn
<1>6. CASE FindNeighbours
  <2>1. /\ pc = "neighbours" /\ Still /\ mapped' = mapped /\ linked' = FkNeighbours(mapped)
        /\ \/ linked' \subseteq IdsOf(pool) /\ Rank(pool)
           \/ pc' = "neighbour tables" /\ UNCHANGED <<pool, code>>
    BY <1>6 DEF FindNeighbours
  <2>2. pool \in Seq(Candidate) /\ Distinct(pool) /\ code = 0
    BY <2>1, Held DEF Known, Outset
  <2>3. touched = Nothing => mapped = MappedTables(mappings) /\ Range(pool) = DirectRows
    BY <2>1 DEF Undisturbed
  <2>4. CASE linked' \subseteq IdsOf(pool) /\ Rank(pool)
    <3>1. ASSUME touched = Nothing
          PROVE  Range(pool) = Wanted
      <4>1. IdsOf(pool) = Nearest \cup MappedTables(mappings) /\ Range(pool) = DirectRows
        BY <2>3, <3>1, RowIds
      <4>2. FkNeighbours(MappedTables(mappings)) \ (Nearest \cup MappedTables(mappings)) = {}
        BY <2>1, <2>3, <2>4, <3>1, <4>1
      <4>3. LinkedRows = {}
        BY <4>2 DEF LinkedRows
      <4> QED
        BY <4>1, <4>3, WantedRows
    <3> QED
      BY <2>1, <2>2, <2>4, <3>1, BestAnswered
  <2>5. CASE pc' = "neighbour tables" /\ UNCHANGED <<pool, code>>
    <3>1. /\ touched' = touched /\ DirectRows' = DirectRows
          /\ MappedTables(mappings)' = MappedTables(mappings)
          /\ \A ids : FkNeighbours(ids)' = FkNeighbours(ids)
      BY <2>1, RowsStay
    <3>2. JoinedFks' = JoinedFks
      BY <2>1 DEF Still, catalogueVars, JoinedFks
    <3>3. FkNeighbours(mapped)' = FkNeighbours(mapped)
      BY <2>1, <3>2 DEF FkNeighbours
    <3>4. touched' = Nothing => /\ mapped' = MappedTables(mappings)'
                                /\ Range(pool') = DirectRows'
                                /\ linked' = FkNeighbours(mapped)'
      BY <2>1, <2>3, <2>5, <3>1, <3>3
    <3> QED
      BY <2>5, <3>4 DEF Undisturbed, Settled, Answered, Nothing
  <2> QED
    BY <2>1, <2>4, <2>5
<1>7. CASE FetchNeighbours
  <2>1. PICK found \in Listed(FetchTables(linked \ IdsOf(pool)), 99) :
          Rank(SubSeq(pool, 1, 1) \o found \o SubSeq(pool, 2, Len(pool)))
    BY <1>7 DEF FetchNeighbours
  <2>2. pc = "neighbour tables" /\ Still
    BY <1>7 DEF FetchNeighbours
  <2>3. Distinct(pool) /\ linked \in SUBSET Tables /\ code = 0
    BY <2>2, Held DEF Known, Outset
  <2> DEFINE list == SubSeq(pool, 1, 1) \o found \o SubSeq(pool, 2, Len(pool))
  <2>4. /\ Range(found) = {[id |-> t, score |-> 99] : t \in tables \cap (linked \ IdsOf(pool))}
        /\ \E lead \in {0, 1} : Merges(list, pool, found, lead)
    <3>1. 99 \in 0..100
      OBVIOUS
    <3> QED
      BY <2>1, <2>3, <3>1, FetchInserts
  <2>5. Rank(list)
    BY <2>1
  <2> HIDE DEF list
  <2>6. list \in Seq(Candidate) /\ Distinct(list) /\ Range(list) = Range(pool) \cup Range(found)
    BY <2>4 DEF Merges
  <2>7. ASSUME touched = Nothing
        PROVE  Range(list) = Wanted
    <3>1. /\ linked = FkNeighbours(MappedTables(mappings)) /\ Range(pool) = DirectRows
          /\ IdsOf(pool) = Nearest \cup MappedTables(mappings)
      BY <2>2, <2>7, RowIds DEF Undisturbed
    <3>2. linked \subseteq tables
      BY <3>1, RowsExist
    <3>3. tables \cap (linked \ IdsOf(pool)) =
            FkNeighbours(MappedTables(mappings)) \ (Nearest \cup MappedTables(mappings))
      BY <3>1, <3>2
    <3>4. Range(found) = LinkedRows
      BY <2>4, <3>3 DEF LinkedRows
    <3> QED
      BY <2>6, <3>1, <3>4, WantedRows
  <2> QED
    BY <2>2, <2>3, <2>5, <2>6, <2>7, BestAnswered
<1>8. ASSUME Still, pool' = pool, Settled,
             pc' \notin {"mappings", "mapped tables", "neighbours", "neighbour tables"}
      PROVE  Undisturbed'
  <2>1. topK' = topK /\ touched' = touched /\ Wanted' = Wanted
    BY <1>8, RowsStay
  <2>2. touched = Nothing => BestOf(pool, Wanted)
    BY <1>8 DEF Undisturbed
  <2>3. touched' = Nothing => BestOf(pool, Wanted)'
    BY <1>8, <2>1, <2>2 DEF BestOf
  <2> QED
    BY <1>8, <2>3 DEF Undisturbed, Nothing
<1>9. CASE SearchColumns
  BY <1>8, <1>9 DEF SearchColumns, ToBridges, Settled
<1>10. CASE FindFkBridges
  BY <1>8, <1>10 DEF FindFkBridges, Settled
<1>11. CASE FindConventionBridges
  BY <1>8, <1>11 DEF FindConventionBridges, Settled
<1>12. CASE Loader
  <2>1. touched' # Nothing
    BY <1>12, LoaderWrites
  <2> QED
    BY <2>1 DEF Undisturbed, Nothing
<1>13. CASE UNCHANGED vars
  <2>1. Still /\ UNCHANGED <<pc, pool, mapped, linked, code>>
    BY <1>13 DEF vars, readVars, Still
  <2>2. /\ topK' = topK /\ touched' = touched /\ Wanted' = Wanted
        /\ NearRows' = NearRows /\ DirectRows' = DirectRows
        /\ MappedTables(mappings)' = MappedTables(mappings)
    BY <2>1, RowsStay
  <2>3. JoinedFks' = JoinedFks
    BY <2>1 DEF Still, catalogueVars, JoinedFks
  <2>4. FkNeighbours(mapped)' = FkNeighbours(mapped)
    BY <2>1, <2>3 DEF FkNeighbours
  <2>5. BestOf(pool, Wanted)' <=> BestOf(pool, Wanted)
    BY <2>1, <2>2 DEF BestOf
  <2>6. Settled' <=> Settled
    BY <2>1 DEF Settled, Answered
  <2> QED
    BY <2>1, <2>2, <2>4, <2>5, <2>6 DEF Undisturbed, Nothing
<1> QED
  BY <1>2, <1>3, <1>4, <1>5, <1>6, <1>7, <1>9, <1>10, <1>11, <1>12, <1>13 DEF Next

(* decision_postgres.py:111-155: a call nobody disturbs answers what one   *)
(* reading of the catalogue would.                                         *)
THEOREM QuietCallsAreAtomic == Spec => []QuietCallIsAtomic
<1>1. Init => Undisturbed
  BY DEF Init, Undisturbed, Settled, Answered
<1>2. Shape /\ Undisturbed /\ [Next]_vars => (Shape /\ Undisturbed)'
  BY ShapeKept, UndisturbedKept
<1>3. Undisturbed => QuietCallIsAtomic
  BY DEF Undisturbed, QuietCallIsAtomic, BestOf, Settled
<1> QED
  BY ShapeAtStart, <1>1, <1>2, <1>3, PTL DEF Spec

============================================================================
