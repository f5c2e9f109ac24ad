------------------------ MODULE GraphServing_proofs ------------------------
(***************************************************************************)
(* Theorems about GraphServing, for any number of tables, jobs, calls and  *)
(* changes, any answers of the searches and any cuts: what a decision and  *)
(* the resolution of its entities answer, and what the jobs, the ingest    *)
(* and the calls for the pool do to each other.  The parts: rankings, the  *)
(* decision, the entities, the pool, the jobs, and the composition.        *)
(***************************************************************************)
EXTENDS GraphServing, Ordering_proofs, SequenceTheorems

----------------------------------------------------------------------------
(* Rankings.                                                               *)

LEMMA FunctionIsSeq ==
  ASSUME NEW T, NEW n \in Nat, NEW s \in [1..n -> T]
  PROVE  s \in Seq(T) /\ Len(s) = n /\ DOMAIN s = 1..n
  OBVIOUS

LEMMA EntriesOf ==
  ASSUME NEW T, NEW s \in Seq(T)
  PROVE  /\ Len(s) \in Nat /\ DOMAIN s = 1..Len(s) /\ s \in [1..Len(s) -> T]
         /\ s = <<>> <=> Len(s) = 0
  OBVIOUS

(* A head of a sequence, which is what both Cut and Upto take.             *)
LEMMA HeadOf ==
  ASSUME NEW T, NEW s \in Seq(T), NEW n \in Nat
  PROVE  /\ Upto(s, n) = Cut(s, n) /\ Cut(s, n) \in Seq(T)
         /\ Len(Cut(s, n)) = IF n < Len(s) THEN n ELSE Len(s)
         /\ DOMAIN Cut(s, n) = 1..Len(Cut(s, n)) /\ DOMAIN Cut(s, n) \subseteq DOMAIN s
         /\ \A i \in DOMAIN Cut(s, n) : Cut(s, n)[i] = s[i]
<1> DEFINE m == IF n < Len(s) THEN n ELSE Len(s)
<1>1. /\ Len(s) \in Nat /\ DOMAIN s = 1..Len(s) /\ m \in Nat /\ m <= Len(s)
      /\ \A i \in 1..m : s[i] \in T
  BY EntriesOf
<1>2. Upto(s, n) = SubSeq(s, 1, m) /\ Cut(s, n) = SubSeq(s, 1, m)
  BY DEF Upto, Cut
<1> HIDE DEF m
<1>3. /\ SubSeq(s, 1, m) \in Seq(T)
      /\ Len(SubSeq(s, 1, m)) = IF 1 <= m THEN m - 1 + 1 ELSE 0
      /\ \A i \in 1..(m - 1 + 1) : SubSeq(s, 1, m)[i] = s[1 + i - 1]
  BY <1>1, SubSeqProperties
<1>4. Len(SubSeq(s, 1, m)) = m /\ DOMAIN SubSeq(s, 1, m) = 1..m
  BY <1>1, <1>3, EntriesOf
<1>5. \A i \in 1..m : SubSeq(s, 1, m)[i] = s[i]
  BY <1>1, <1>3
<1> QED
  BY <1>1, <1>2, <1>3, <1>4, <1>5 DEF m

LEMMA FirstOf ==
  ASSUME NEW T, NEW s \in Seq(T), NEW n \in 0..Len(s)
  PROVE  /\ SubSeq(s, 1, n) = Cut(s, n) /\ SubSeq(s, 1, n) \in Seq(T)
         /\ Len(SubSeq(s, 1, n)) = n /\ DOMAIN SubSeq(s, 1, n) = 1..n
         /\ \A i \in 1..n : SubSeq(s, 1, n)[i] = s[i]
<1>1. Len(s) \in Nat
  BY EntriesOf
<1>2. SubSeq(s, 1, n) = Cut(s, n)
  BY <1>1 DEF Cut
<1>3. n \in Nat /\ (IF n < Len(s) THEN n ELSE Len(s)) = n
  BY <1>1
<1> QED
  BY <1>2, <1>3, HeadOf

(* A strictly rising list of numbers from 1..n in which every one of them  *)
(* occurs is 1, 2, ..., n.                                                 *)
LEMMA RisingIsIdentity ==
  ASSUME NEW n \in Nat, NEW f \in [1..n -> 1..n],
         \A x \in 1..n : \E i \in 1..n : f[i] = x,
         \A i, j \in 1..n : i < j => f[i] < f[j]
  PROVE  \A i \in 1..n : f[i] = i
<1> DEFINE moved == {i \in 1..n : f[i] # i}
<1> SUFFICES ASSUME moved # {} PROVE FALSE
  OBVIOUS
<1>1. moved \in SUBSET Nat /\ IsFiniteSet(moved)
  <2>1. \A x \in moved : x \in 1..n
    OBVIOUS
  <2>2. IsFiniteSet(1..n)
    BY FS_Interval
  <2> HIDE DEF moved
  <2>3. moved \in SUBSET (1..n)
    BY <2>1
  <2>4. \A x \in moved : x \in Nat
    BY <2>1
  <2> QED
    BY <2>2, <2>3, <2>4, FS_Subset
<1>2. PICK i \in moved : \A x \in moved : i <= x
  BY <1>1, Greatest
<1>3. i \in 1..n /\ f[i] # i /\ \A j \in 1..n : j < i => f[j] = j
  BY <1>2
<1>4. PICK m \in 1..n : f[m] = i
  BY <1>3
<1>5. m > i
  <2>1. ~(m < i) /\ m # i
    BY <1>3, <1>4
  <2> QED
    BY <1>3, <2>1
<1>6. f[i] < i
  BY <1>3, <1>4, <1>5
<1>7. f[f[i]] = f[i]
  BY <1>3, <1>6
<1>8. f[f[i]] < f[i]
  BY <1>3, <1>6
<1> QED
  BY <1>3, <1>7, <1>8

(* Ranking permutes: every place of s is taken, once, and equal scores     *)
(* keep their order.  What is in order stays as it is.                     *)
LEMMA RankedPermutes ==
  ASSUME NEW T, NEW s \in Seq(T), \A i \in DOMAIN s : s[i].score \in Nat
  PROVE  /\ Ranked(s) \in Seq(T) /\ Len(Ranked(s)) = Len(s) /\ Descending(Ranked(s))
         /\ \A x \in T : (\E i \in DOMAIN s : s[i] = x)
                           <=> \E i \in DOMAIN Ranked(s) : Ranked(s)[i] = x
         /\ Descending(s) => Ranked(s) = s
<1> DEFINE n == Len(s)
           D == DOMAIN s
           f == [i \in D |-> s[i].score]
           R == {p \in D \X D : s[p[1]].score > s[p[2]].score
                                \/ (s[p[1]].score = s[p[2]].score /\ p[1] < p[2])}
           order == SortedBy(D, R)
<1>1. n \in Nat /\ D = 1..n /\ s \in [1..n -> T]
  BY EntriesOf
<1>2. IsFiniteSet(D) /\ Cardinality(D) = n /\ D \in SUBSET Nat /\ f \in [D -> Nat]
  <2>1. IsFiniteSet(1..n) /\ Cardinality(1..n) = n
    BY <1>1, FS_Interval
  <2> QED
    BY <1>1, <2>1
<1>3. R = {p \in D \X D : f[p[1]] > f[p[2]] \/ (f[p[1]] = f[p[2]] /\ p[1] < p[2])}
  OBVIOUS
<1>4. Ranked(s) = [i \in D |-> s[order[i]]]
  BY DEF Ranked
<1>5. \A x, y \in D : <<x, y>> \in R <=> s[x].score > s[y].score
                                         \/ (s[x].score = s[y].score /\ x < y)
  OBVIOUS
<1> HIDE DEF D, f, R
<1>6. StrictOrder(D, R)
  BY <1>2, <1>3, FallingOrders
<1>7. /\ order \in [1..n -> D] /\ \A x \in D : \E i \in 1..n : order[i] = x
      /\ \A i, j \in 1..n : i < j => <<order[i], order[j]>> \in R
  BY <1>2, <1>6, SortedByOrders
<1> HIDE DEF n, order
<1>8. Ranked(s) \in [1..n -> T]
  BY <1>1, <1>4, <1>7
<1>9. Ranked(s) \in Seq(T) /\ Len(Ranked(s)) = n /\ DOMAIN Ranked(s) = 1..n
  BY <1>1, <1>8, FunctionIsSeq
<1>10. \A i \in 1..n : order[i] \in D /\ s[order[i]].score \in Nat
  BY <1>1, <1>7 DEF D
<1>11. Descending(Ranked(s))
  <2> SUFFICES ASSUME NEW i \in 1..n, NEW j \in 1..n, i < j
               PROVE  Ranked(s)[i].score >= Ranked(s)[j].score
    BY <1>9 DEF Descending
  <2>1. <<order[i], order[j]>> \in R
    BY <1>7
  <2>2. /\ order[i] \in D /\ order[j] \in D
        /\ s[order[i]].score \in Nat /\ s[order[j]].score \in Nat
    BY <1>10
  <2>3. s[order[i]].score > s[order[j]].score \/ s[order[i]].score = s[order[j]].score
    BY <1>5, <2>1, <2>2
  <2>4. s[order[i]].score >= s[order[j]].score
    BY <2>2, <2>3
  <2> QED
    BY <1>1, <1>4, <2>4
<1>12. \A x \in T : (\E i \in D : s[i] = x) <=> \E i \in 1..n : Ranked(s)[i] = x
  BY <1>1, <1>4, <1>7
<1>13. ASSUME Descending(s) PROVE Ranked(s) = s
  <2>1. \A i, j \in 1..n : i < j => order[i] < order[j]
    <3> SUFFICES ASSUME NEW i \in 1..n, NEW j \in 1..n, i < j
                 PROVE  order[i] < order[j]
      OBVIOUS
    <3>1. <<order[i], order[j]>> \in R /\ order[i] \in 1..n /\ order[j] \in 1..n
      BY <1>1, <1>7
    <3>2. s[order[i]].score \in Nat /\ s[order[j]].score \in Nat
      BY <1>10
    <3>3. \/ s[order[i]].score > s[order[j]].score
          \/ s[order[i]].score = s[order[j]].score /\ order[i] < order[j]
      BY <1>1, <1>5, <3>1
    <3>4. order[j] < order[i] => s[order[j]].score >= s[order[i]].score
      BY <1>1, <1>13, <3>1 DEF Descending, D
    <3> QED
      BY <3>1, <3>2, <3>3, <3>4
  <2>2. \A i \in 1..n : order[i] = i
    BY <1>1, <1>7, <2>1, RisingIsIdentity
  <2> QED
    BY <1>1, <1>4, <2>2
<1> QED
  BY <1>9, <1>11, <1>12, <1>13 DEF D, n

(* Nearest lists S, the best scores first.                                 *)
LEMMA NearestLists ==
  ASSUME NEW S \in SUBSET Nat, IsFiniteSet(S), NEW score, \A x \in S : score[x] \in Nat
  PROVE  /\ Nearest(S, score) \in Seq(S)
         /\ \A i, j \in DOMAIN Nearest(S, score) :
              i < j => score[Nearest(S, score)[i]] >= score[Nearest(S, score)[j]]
<1> DEFINE f == [x \in S |-> score[x]]
           R == {p \in S \X S : score[p[1]] > score[p[2]]
                                \/ (score[p[1]] = score[p[2]] /\ p[1] < p[2])}
<1>1. f \in [S -> Nat]
  OBVIOUS
<1>2. R = {p \in S \X S : f[p[1]] > f[p[2]] \/ (f[p[1]] = f[p[2]] /\ p[1] < p[2])}
  OBVIOUS
<1>3. Nearest(S, score) = SortedBy(S, R)
  BY DEF Nearest
<1> HIDE DEF R
<1>4. StrictOrder(S, R) /\ \A x, y \in S : <<x, y>> \in R => f[x] >= f[y]
  BY <1>1, <1>2, FallingOrders
<1>5. \A x, y \in S : <<x, y>> \in R => score[x] >= score[y]
  BY <1>4
<1> DEFINE n == Cardinality(S)
<1>6. /\ n \in Nat /\ SortedBy(S, R) \in [1..n -> S]
      /\ \A i, j \in 1..n : i < j => <<SortedBy(S, R)[i], SortedBy(S, R)[j]>> \in R
  BY <1>4, SortedByOrders
<1> HIDE DEF n
<1>7. SortedBy(S, R) \in Seq(S) /\ DOMAIN SortedBy(S, R) = 1..n
  BY <1>6, FunctionIsSeq
<1> QED
  BY <1>3, <1>5, <1>6, <1>7

LEMMA FilteredIsIn ==
  ASSUME NEW T, NEW s \in Seq(T), NEW S
  PROVE  /\ Filtered(s, S) \in Seq(T \cap S)
         /\ \A x \in ToSet(s) : x \in S => x \in ToSet(Filtered(s, S))
<1> DEFINE l == Len(s)
<1>1. l \in Nat /\ DOMAIN s = 1..l /\ s \in [1..l -> T]
  BY EntriesOf
<1> HIDE DEF l
<1>2. PICK k \in Nat :
        /\ Filtered(s, S) \in [1..k -> S]
        /\ \A n \in 1..k : \E i \in 1..l : Filtered(s, S)[n] = s[i]
        /\ \A i \in 1..l : s[i] \in S => \E n \in 1..k : Filtered(s, S)[n] = s[i]
  BY <1>1, FilteredKeeps
<1>3. \A n \in 1..k : Filtered(s, S)[n] \in T \cap S
  BY <1>1, <1>2
<1>4. Filtered(s, S) \in [1..k -> T \cap S]
  BY <1>2, <1>3
<1>5. Filtered(s, S) \in Seq(T \cap S) /\ DOMAIN Filtered(s, S) = 1..k
  BY <1>2, <1>4, FunctionIsSeq
<1>6. /\ ToSet(s) = {s[i] : i \in 1..l}
      /\ ToSet(Filtered(s, S)) = {Filtered(s, S)[n] : n \in 1..k}
  BY <1>1, <1>5 DEF ToSet
<1>7. \A x \in ToSet(s) : x \in S => x \in ToSet(Filtered(s, S))
  BY <1>2, <1>6
<1> QED
  BY <1>5, <1>7

----------------------------------------------------------------------------
(* Searches, the merge and the pruning.                                    *)

Cands == {c \in [table : Tables, key : Nat, score : 0..TopScore] : c.key = Key[c.table]}

Scoped == {c \in Cands : c.table \in InScope}

LEMMA ScoresAreNumbers ==
  /\ TopScore \in Nat
  /\ \A limit \in Nat : SearchLimit(limit) \in Nat \ {0} /\ FinalLimit(limit) \in Nat
  /\ FallbackLimit \in Nat
  /\ \A c \in Cands : c.score \in Nat /\ c.key \in Nat /\ c.table \in Tables
  BY SelectionAssumption
     DEF TopScore, SearchLimit, FinalLimit, FallbackLimit, Between, NoLimit, Cands

LEMMA CandidatesAre == ASSUME NEW s \in Seq(Cands) PROVE Candidates(s)
<1>1. \A i \in DOMAIN s : s[i] \in Cands
  BY EntriesOf
<1> QED
  BY <1>1 DEF Candidates, Cands

LEMMA TablesAreNumbers == \A S \in SUBSET Tables : S \in SUBSET Nat /\ IsFiniteSet(S)
<1> TAKE S \in SUBSET Tables
<1>1. IsFiniteSet(Tables) /\ Tables \subseteq Nat
  BY GraphAssumption
<1>2. IsFiniteSet(S)
  BY <1>1, FS_Subset
<1>3. \A x \in S : x \in Nat
  BY <1>1
<1> QED
  BY <1>2, <1>3

LEMMA AskScores ==
  ASSUME NEW a, IsAsk(a)
  PROVE  \A t \in Tables :
           /\ a.sim.hyde[t] \in 0..100 /\ a.sim.question[t] \in 0..100
           /\ a.words[t] \in Nat /\ a.words[t] \in 0..TopScore /\ Key[t] \in Nat
<1> DEFINE Percents == 0..100
           Shares == 0..1000
<1>1. /\ a.sim.hyde \in [Tables -> Percents] /\ a.sim.question \in [Tables -> Percents]
      /\ a.words \in [Tables -> Shares]
  BY DEF IsAsk
<1>2. Key \in [Tables -> Nat]
  BY GraphAssumption
<1>3. TopScore \in Nat /\ TopScore >= 1000
  BY SelectionAssumption DEF TopScore
<1>4. \A n \in Shares : n \in Nat /\ n \in 0..TopScore
  BY <1>3
<1> HIDE DEF Percents, Shares
<1>5. \A t \in Tables :
        /\ a.sim.hyde[t] \in Percents /\ a.sim.question[t] \in Percents
        /\ a.words[t] \in Nat /\ a.words[t] \in 0..TopScore /\ Key[t] \in Nat
  BY <1>1, <1>2, <1>4
<1> QED
  BY <1>5 DEF Percents

LEMMA MergedScoreBound ==
  ASSUME NEW a, IsAsk(a), NEW t \in Tables, NEW h, NEW q
  PROVE  MergedScore(t, h, q, a.sim) \in 0..TopScore
<1> DEFINE x == a.sim.hyde[t]
           y == a.sim.question[t]
           v == IF h = <<>> THEN 10 ELSE QuestionWeight
           first == IF t \in ToSet(h) THEN HydeWeight * x ELSE 0
           second == IF t \in ToSet(q) THEN v * y ELSE 0
<1>1. x \in 0..100 /\ y \in 0..100 /\ HydeWeight \in Nat /\ QuestionWeight \in Nat /\ v \in Nat
  <2>1. x \in 0..100 /\ y \in 0..100
    BY AskScores
  <2>2. HydeWeight \in Nat /\ QuestionWeight \in Nat
    BY SelectionAssumption
  <2> QED
    BY <2>1, <2>2
<1>2. \A w \in Nat, z \in 0..100 : w * z \in 0..(100 * w)
  OBVIOUS
<1>3. h = <<>> => ToSet(h) = {}
  BY DEF ToSet
<1>4. MergedScore(t, h, q, a.sim) = first + second
  BY DEF MergedScore
<1>5. HydeWeight * x \in 0..(100 * HydeWeight) /\ v * y \in 0..(100 * v)
  <2>1. HydeWeight * x \in 0..(100 * HydeWeight)
    BY <1>1, <1>2
  <2> HIDE DEF v
  <2>2. v * y \in 0..(100 * v)
    BY <1>1, <1>2
  <2> QED
    BY <2>1, <2>2
<1>6. h = <<>> => first = 0
  BY <1>3
<1>7. (h = <<>> => v = 10) /\ (h # <<>> => v = QuestionWeight)
  OBVIOUS
<1> HIDE DEF v
<1>8. first \in 0..(100 * HydeWeight) /\ second \in 0..(100 * v)
  BY <1>1, <1>5
<1> HIDE DEF first, second, v
<1> QED
  BY <1>1, <1>4, <1>6, <1>7, <1>8 DEF TopScore

LEMMA HeadDescends ==
  ASSUME NEW T, NEW s \in Seq(T), Descending(s), NEW n \in Nat
  PROVE  Descending(Cut(s, n))
  BY HeadOf DEF Descending

LEMMA MergeRanks ==
  ASSUME NEW a, IsAsk(a), NEW h \in Seq(Tables \cap InScope), NEW q \in Seq(Tables \cap InScope),
         NEW k \in Nat
  PROVE  Merge(h, q, a.sim, Key, k) \in Seq(Scoped) /\ Descending(Merge(h, q, a.sim, Key, k))
<1> DEFINE more == Filtered(q, ToSet(q) \ ToSet(h))
           rows == h \o more
           scored == [i \in DOMAIN rows |->
                        [table |-> rows[i], key |-> Key[rows[i]],
                         score |-> MergedScore(rows[i], h, q, a.sim)]]
<1>1. more \in Seq(Tables \cap InScope)
  <2>1. more \in Seq((Tables \cap InScope) \cap (ToSet(q) \ ToSet(h)))
    BY FilteredIsIn
  <2> HIDE DEF more
  <2>2. Len(more) \in Nat /\ more \in [1..Len(more) -> Tables \cap InScope]
    BY <2>1, EntriesOf
  <2> QED
    BY <2>2, FunctionIsSeq
<1>2. rows \in Seq(Tables \cap InScope)
  BY <1>1
<1>3. Merge(h, q, a.sim, Key, k) = Cut(Ranked(scored), k)
  BY DEF Merge
<1> HIDE DEF rows
<1>4. Len(rows) \in Nat /\ DOMAIN rows = 1..Len(rows) /\ \A i \in 1..Len(rows) : rows[i] \in Tables \cap InScope
  BY <1>2, EntriesOf
<1>5. \A i \in 1..Len(rows) : scored[i] \in Scoped
  <2> TAKE i \in 1..Len(rows)
  <2>1. MergedScore(rows[i], h, q, a.sim) \in 0..TopScore
    BY <1>4, MergedScoreBound
  <2>2. Key[rows[i]] \in Nat
    BY <1>4, GraphAssumption
  <2> QED
    BY <1>4, <2>1, <2>2 DEF Scoped, Cands
<1>6. scored \in [1..Len(rows) -> Scoped]
  BY <1>4, <1>5
<1> HIDE DEF scored
<1>7. scored \in Seq(Scoped) /\ DOMAIN scored = 1..Len(rows)
  BY <1>4, <1>6, FunctionIsSeq
<1>8. \A i \in DOMAIN scored : scored[i].score \in Nat
  BY <1>6, <1>7, ScoresAreNumbers DEF Scoped
<1>9. Ranked(scored) \in Seq(Scoped) /\ Descending(Ranked(scored))
  BY <1>7, <1>8, RankedPermutes
<1> QED
  BY <1>3, <1>9, HeadOf, HeadDescends

(* Both ways to search by vector keep to the tables in scope.              *)
LEMMA SearchesStayInScope ==
  ASSUME live \in SUBSET Tables, ask.limit \in Nat,
         NEW score \in [Tables -> 0..100], NEW listed \in Searches(score)
  PROVE  listed \in Seq(Tables \cap InScope)
<1>1. Limit \in Nat
  BY ScoresAreNumbers DEF Limit
<1>2. ASSUME NEW S \in SUBSET Tables
      PROVE  Upto(Nearest(S, score), Limit) \in Seq(S)
  <2>1. S \in SUBSET Nat /\ IsFiniteSet(S) /\ \A x \in S : score[x] \in Nat
    <3>1. S \in SUBSET Nat /\ IsFiniteSet(S)
      BY TablesAreNumbers
    <3>2. \A x \in Tables : score[x] \in 0..100
      OBVIOUS
    <3>3. \A x \in 0..100 : x \in Nat
      OBVIOUS
    <3>4. \A x \in S : x \in Tables
      OBVIOUS
    <3> QED
      BY <3>1, <3>2, <3>3, <3>4
  <2>2. Nearest(S, score) \in Seq(S)
    BY <2>1, NearestLists
  <2> QED
    BY <1>1, <2>2, HeadOf
<1>3. CASE listed = ScanSearch(score, Limit)
  <2>1. listed \in Seq(Vectorised \cap live \cap InScope)
    BY <1>2, <1>3 DEF ScanSearch, Vectorised
  <2>2. Len(listed) \in Nat /\ listed \in [1..Len(listed) -> Tables \cap InScope]
    BY <2>1, EntriesOf
  <2> QED
    BY <2>2, FunctionIsSeq
<1>4. CASE listed = IndexSearch(score, Limit)
  <2>1. Upto(Nearest(Vectorised, score), Limit) \in Seq(Vectorised)
    BY <1>2 DEF Vectorised
  <2>2. listed \in Seq(Vectorised \cap (live \cap InScope))
    BY <1>4, <2>1, FilteredIsIn DEF IndexSearch
  <2>3. Len(listed) \in Nat /\ listed \in [1..Len(listed) -> Tables \cap InScope]
    BY <2>2, EntriesOf
  <2> QED
    BY <2>3, FunctionIsSeq
<1> QED
  BY <1>3, <1>4 DEF Searches

(* The pool that the keyword query gives.                                  *)
KeywordPool ==
  LET listed == KeywordSearch(ask.words, FallbackLimit)
  IN  [i \in DOMAIN listed |-> [table |-> listed[i], key |-> Key[listed[i]],
                               score |-> ask.words[listed[i]]]]

LEMMA KeywordsRank ==
  ASSUME live \in SUBSET Tables, IsAsk(ask)
  PROVE  KeywordPool \in Seq(Cands) /\ Descending(KeywordPool)
<1> DEFINE S == {t \in live : ask.words[t] > 0}
           near == Nearest(S, ask.words)
           listed == Upto(near, FallbackLimit)
<1>1. /\ S \in SUBSET Nat /\ S \in SUBSET Tables /\ IsFiniteSet(S)
      /\ \A x \in S : ask.words[x] \in Nat
  <2>1. S \in SUBSET Tables
    OBVIOUS
  <2> HIDE DEF S
  <2>2. S \in SUBSET Nat /\ IsFiniteSet(S)
    BY <2>1, TablesAreNumbers
  <2>3. \A x \in S : ask.words[x] \in Nat
    BY <2>1, AskScores
  <2> QED
    BY <2>1, <2>2, <2>3
<1>2. KeywordPool = [i \in DOMAIN listed |-> [table |-> listed[i], key |-> Key[listed[i]],
                                             score |-> ask.words[listed[i]]]]
  BY DEF KeywordPool, KeywordSearch
<1> HIDE DEF S
<1>3. /\ near \in Seq(S)
      /\ \A i, j \in DOMAIN near : i < j => ask.words[near[i]] >= ask.words[near[j]]
  BY <1>1, NearestLists
<1> HIDE DEF near
<1>4. /\ listed \in Seq(S) /\ DOMAIN listed \subseteq DOMAIN near
      /\ \A i \in DOMAIN listed : listed[i] = near[i]
  <2>1. FallbackLimit \in Nat
    BY ScoresAreNumbers
  <2> QED
    BY <1>3, <2>1, HeadOf
<1> HIDE DEF listed
<1>5. Len(listed) \in Nat /\ DOMAIN listed = 1..Len(listed) /\ \A i \in DOMAIN listed : listed[i] \in S
  BY <1>4, EntriesOf
<1>6. \A i \in DOMAIN listed : KeywordPool[i] \in Cands
  <2> TAKE i \in DOMAIN listed
  <2>1. listed[i] \in Tables
    BY <1>1, <1>5
  <2>2. ask.words[listed[i]] \in 0..TopScore /\ Key[listed[i]] \in Nat
    BY <2>1, AskScores
  <2> QED
    BY <1>2, <2>1, <2>2 DEF Cands
<1>7. KeywordPool \in [1..Len(listed) -> Cands]
  BY <1>2, <1>5, <1>6
<1>8. KeywordPool \in Seq(Cands) /\ DOMAIN KeywordPool = DOMAIN listed
  BY <1>5, <1>7, FunctionIsSeq
<1>9. \A i \in DOMAIN listed : KeywordPool[i].score = ask.words[near[i]]
  BY <1>2, <1>4
<1>10. Descending(KeywordPool)
  BY <1>3, <1>4, <1>8, <1>9 DEF Descending
<1> QED
  BY <1>8, <1>10

(* Pruning keeps a head: at least the best candidate, and the longest of   *)
(* the heads in which every candidate is close.                            *)
LEMMA KeptLengthsHaveMax ==
  ASSUME NEW T, NEW s \in Seq(T), s # <<>>, NEW k \in Nat
  PROVE  /\ Max(KeptLengths(s, k)) \in KeptLengths(s, k)
         /\ KeptLengths(s, k) \subseteq 1..Len(s)
         /\ \A n \in KeptLengths(s, k) : n <= Max(KeptLengths(s, k))
<1>1. Len(s) \in Nat \ {0}
  BY EntriesOf
<1>2. \A n \in KeptLengths(s, k) : n \in 1..Len(s)
  BY DEF KeptLengths
<1>3. 1 \in KeptLengths(s, k)
  BY <1>1 DEF KeptLengths
<1>4. IsFiniteSet(1..Len(s))
  BY <1>1, FS_Interval
<1>5. IsFiniteSet(KeptLengths(s, k)) /\ KeptLengths(s, k) \in SUBSET Nat
  BY <1>2, <1>4, FS_Subset
<1> QED
  BY <1>2, <1>3, <1>5, Greatest

LEMMA PruneRankedIsHead ==
  ASSUME NEW T, NEW s \in Seq(T), NEW k \in Nat
  PROVE  \E n \in 0..Len(s) : PruneRanked(s, k) = SubSeq(s, 1, n) /\ (n = 0 <=> s = <<>>)
<1>1. Len(s) \in Nat /\ (s = <<>> <=> Len(s) = 0)
  BY EntriesOf
<1>2. CASE s = <<>>
  <2>1. SubSeq(s, 1, 0) = <<>>
    BY SubSeqEmpty
  <2> QED
    BY <1>1, <1>2, <2>1 DEF PruneRanked
<1>3. CASE s # <<>>
  <2>1. 1 \in 1..Len(s) /\ Max(KeptLengths(s, k)) \in 1..Len(s)
    BY <1>1, <1>3, KeptLengthsHaveMax
  <2>2. PruneRanked(s, k) = SubSeq(s, 1, 1) \/ PruneRanked(s, k) = SubSeq(s, 1, Max(KeptLengths(s, k)))
    BY <1>3 DEF PruneRanked
  <2>3. PICK n \in 1..Len(s) : PruneRanked(s, k) = SubSeq(s, 1, n)
    BY <2>1, <2>2
  <2>4. n \in 0..Len(s) /\ n # 0
    BY <1>1
  <2> QED
    BY <1>3, <2>3, <2>4
<1> QED
  BY <1>2, <1>3

LEMMA PruneKeeps ==
  ASSUME NEW T \in SUBSET Cands, NEW s \in Seq(T), NEW k \in Nat
  PROVE  /\ Prune(s, k) \in Seq(T) /\ Descending(Prune(s, k))
         /\ Prune(s, k) = <<>> <=> s = <<>>
<1>1. \A i \in DOMAIN s : s[i].score \in Nat
  BY EntriesOf, ScoresAreNumbers
<1>2. Ranked(s) \in Seq(T) /\ Len(Ranked(s)) = Len(s) /\ Descending(Ranked(s))
  BY <1>1, RankedPermutes
<1> DEFINE r == Ranked(s)
<1> HIDE DEF r
<1>3. r \in Seq(T) /\ Descending(r) /\ (r = <<>> <=> s = <<>>)
  BY <1>2, EntriesOf DEF r
<1>4. PICK n \in 0..Len(r) : PruneRanked(r, k) = SubSeq(r, 1, n) /\ (n = 0 <=> r = <<>>)
  BY <1>3, PruneRankedIsHead
<1>5. /\ SubSeq(r, 1, n) = Cut(r, n) /\ SubSeq(r, 1, n) \in Seq(T) /\ Len(SubSeq(r, 1, n)) = n
  BY <1>3, FirstOf
<1>6. Len(r) \in Nat
  BY <1>3, EntriesOf
<1>7. Descending(SubSeq(r, 1, n))
  <2>1. n \in Nat
    BY <1>6
  <2> QED
    BY <1>3, <1>5, <2>1, HeadDescends
<1>8. SubSeq(r, 1, n) = <<>> <=> n = 0
  BY <1>5, EntriesOf
<1> QED
  BY <1>3, <1>4, <1>5, <1>7, <1>8 DEF Prune, r

----------------------------------------------------------------------------
(* The final candidates.                                                   *)

LEMMA ImageIsFinite ==
  ASSUME NEW n \in Nat, NEW s, DOMAIN s = 1..n
  PROVE  /\ IsFiniteSet({s[i] : i \in 1..n})
         /\ IsFiniteSet({s[i].key : i \in 1..n})
<1>1. IsFiniteSet(1..n)
  BY FS_Interval
<1>2. ASSUME NEW T, NEW f \in [1..n -> T], \A x \in T : \E i \in 1..n : f[i] = x
      PROVE  IsFiniteSet(T)
  <2>1. f \in Surjection(1..n, T)
    BY <1>2 DEF Surjection
  <2> QED
    BY <1>1, <2>1, FS_Surjection
<1>3. IsFiniteSet({s[i] : i \in 1..n})
  <2> DEFINE T == {s[i] : i \in 1..n}
             f == [i \in 1..n |-> s[i]]
  <2>1. f \in [1..n -> T] /\ \A x \in T : \E i \in 1..n : f[i] = x
    OBVIOUS
  <2> HIDE DEF T, f
  <2>2. IsFiniteSet(T)
    BY <1>2, <2>1
  <2> QED
    BY <2>2 DEF T
<1>4. IsFiniteSet({s[i].key : i \in 1..n})
  <2> DEFINE T == {s[i].key : i \in 1..n}
             f == [i \in 1..n |-> s[i].key]
  <2>1. f \in [1..n -> T] /\ \A x \in T : \E i \in 1..n : f[i] = x
    OBVIOUS
  <2> HIDE DEF T, f
  <2>2. IsFiniteSet(T)
    BY <1>2, <2>1
  <2> QED
    BY <2>2 DEF T
<1> QED
  BY <1>3, <1>4

LEMMA KeysAreFinite ==
  ASSUME NEW s \in Seq(Cands)
  PROVE  IsFiniteSet(Keys(s)) /\ Keys(s) \in SUBSET Nat
<1>1. Len(s) \in Nat /\ DOMAIN s = 1..Len(s) /\ \A i \in 1..Len(s) : s[i] \in Cands
  BY EntriesOf
<1>2. Keys(s) = {s[i].key : i \in 1..Len(s)}
  BY <1>1 DEF Keys
<1>3. IsFiniteSet(Keys(s))
  <2>1. IsFiniteSet({s[i].key : i \in 1..Len(s)})
    BY <1>1, ImageIsFinite
  <2> QED
    BY <1>2, <2>1
<1> QED
  BY <1>1, <1>2, <1>3, ScoresAreNumbers

(* The table found by its key is the last one of the pool.                 *)
LEMMA ByKeyIsIn ==
  ASSUME NEW s \in Seq(Cands), NEW k \in Keys(s)
  PROVE  \E i \in DOMAIN s : /\ s[i] = ByKey(s, k) /\ s[i].key = k
                             /\ \A j \in DOMAIN s : s[j].key = k => j <= i
<1> DEFINE D == {i \in DOMAIN s : s[i].key = k}
<1>1. Len(s) \in Nat /\ DOMAIN s = 1..Len(s)
  BY EntriesOf
<1>2. (\A x \in D : x \in 1..Len(s)) /\ D # {}
  BY <1>1 DEF Keys
<1>3. IsFiniteSet(1..Len(s))
  BY <1>1, FS_Interval
<1> HIDE DEF D
<1>4. D \in SUBSET (1..Len(s)) /\ D \in SUBSET Nat
  BY <1>1, <1>2
<1>5. IsFiniteSet(D)
  BY <1>3, <1>4, FS_Subset
<1>6. Max(D) \in D /\ \A x \in D : x <= Max(D)
  BY <1>2, <1>4, <1>5, Greatest
<1>7. \E i \in DOMAIN s : s[i].key = k /\ \A j \in DOMAIN s : s[j].key = k => j <= i
  BY <1>6 DEF D
<1> DEFINE i == CHOOSE i \in DOMAIN s : s[i].key = k /\ \A j \in DOMAIN s : s[j].key = k => j <= i
<1>8. i \in DOMAIN s /\ s[i].key = k /\ \A j \in DOMAIN s : s[j].key = k => j <= i
  BY <1>7
<1>9. ByKey(s, k) = s[i]
  BY DEF ByKey
<1> HIDE DEF i
<1> QED
  BY <1>8, <1>9

(* The joins only add candidates of the pool.                              *)
LEMMA ExpandedIsOfPool ==
  ASSUME NEW s \in Seq(Cands), NEW p, NEW bs
  PROVE  /\ IsFiniteSet(Expanded(s, p, bs))
         /\ \A x \in Expanded(s, p, bs) : \E i \in DOMAIN s : s[i] = x
         /\ Expanded(s, p, bs) \in SUBSET Cands
<1> DEFINE E == Expanded(s, p, bs)
<1>1. Len(s) \in Nat /\ DOMAIN s = 1..Len(s) /\ \A i \in 1..Len(s) : s[i] \in Cands
  BY EntriesOf
<1>2. \A x \in E : \E k \in Keys(s) : x = ByKey(s, k)
  BY DEF Expanded, Neighbours
<1> HIDE DEF E
<1>3. \A x \in E : \E i \in DOMAIN s : s[i] = x
  BY <1>2, ByKeyIsIn
<1>4. E \in SUBSET {s[i] : i \in 1..Len(s)}
  BY <1>1, <1>3
<1>5. IsFiniteSet({s[i] : i \in 1..Len(s)})
  BY <1>1, ImageIsFinite
<1>6. IsFiniteSet(E)
  BY <1>4, <1>5, FS_Subset
<1>7. E \in SUBSET Cands
  BY <1>1, <1>3
<1> QED
  BY <1>3, <1>6, <1>7 DEF E

(* An enumeration lists each element of a finite set once.                 *)
LEMMA Enumerates ==
  ASSUME NEW S, IsFiniteSet(S), NEW r \in SetToSeqs(S)
  PROVE  /\ r \in Seq(S) /\ Cardinality(S) \in Nat /\ Len(r) = Cardinality(S)
         /\ \A x \in S : \E i \in DOMAIN r : r[i] = x
         /\ \A i, j \in DOMAIN r : i # j => r[i] # r[j]
<1> DEFINE n == Cardinality(S)
<1>1. n \in Nat
  BY FS_CardinalityType
<1>2. r \in [1..n -> S] /\ \A i, j \in 1..n : i # j => r[i] # r[j]
  BY DEF SetToSeqs
<1>3. r \in Injection(1..n, S)
  BY <1>2 DEF Injection, IsInjective
<1>4. Cardinality(1..n) = n
  BY <1>1, FS_Interval
<1>5. r \in Surjection(1..n, S)
  BY <1>3, <1>4, FS_Injection
<1>6. \A x \in S : \E i \in 1..n : r[i] = x
  BY <1>5 DEF Surjection
<1> HIDE DEF n
<1> QED
  BY <1>1, <1>2, <1>6, FunctionIsSeq DEF n

(* A sequence of entries of another one.                                   *)
LEMMA OfEntries ==
  ASSUME NEW T, NEW p \in Seq(T)
  PROVE  /\ p \in Seq(ToSet(p)) /\ ToSet(p) \in SUBSET T
         /\ \A s \in Seq(ToSet(p)) : s \in Seq(T) /\ Keys(s) \subseteq Keys(p)
<1>1. Len(p) \in Nat /\ DOMAIN p = 1..Len(p) /\ p \in [1..Len(p) -> T]
  BY EntriesOf
<1>2. p \in [1..Len(p) -> ToSet(p)] /\ ToSet(p) \in SUBSET T
  BY <1>1 DEF ToSet
<1>3. p \in Seq(ToSet(p))
  BY <1>1, <1>2, FunctionIsSeq
<1>4. ASSUME NEW s \in Seq(ToSet(p)) PROVE s \in Seq(T) /\ Keys(s) \subseteq Keys(p)
  <2>1. Len(s) \in Nat /\ DOMAIN s = 1..Len(s) /\ s \in [1..Len(s) -> ToSet(p)]
    BY EntriesOf
  <2>2. s \in [1..Len(s) -> T]
    BY <1>2, <2>1
  <2>3. s \in Seq(T)
    BY <2>1, <2>2, FunctionIsSeq
  <2>4. \A i \in DOMAIN s : \E j \in DOMAIN p : p[j] = s[i]
    BY <2>1 DEF ToSet
  <2> QED
    BY <2>3, <2>4 DEF Keys
<1> QED
  BY <1>2, <1>3, <1>4

LEMMA FinalsAreOfPool ==
  ASSUME NEW p \in Seq(Cands), NEW k \in Nat, NEW bs, NEW s \in Finals(p, Prune(p, k), bs, k)
  PROVE  s \in Seq(ToSet(p))
<1> DEFINE T == ToSet(p)
           pr == Prune(p, k)
           E == Expanded(p, pr, bs)
<1>1. p \in Seq(T) /\ T \in SUBSET Cands
  BY OfEntries
<1>2. \A x \in E : x \in T
  BY ExpandedIsOfPool DEF ToSet
<1>3. IsFiniteSet(E)
  BY ExpandedIsOfPool
<1> HIDE DEF T, E
<1>4. pr \in Seq(T)
  BY <1>1, PruneKeeps
<1>5. Prune(pr, k) \in Seq(T)
  BY <1>1, <1>4, PruneKeeps
<1>6. ASSUME NEW r \in SetToSeqs(E) PROVE Prune(r, k) \in Seq(T)
  <2>1. r \in Seq(E) /\ Len(r) \in Nat
    BY <1>3, Enumerates, EntriesOf
  <2>2. r \in [1..Len(r) -> T]
    BY <1>2, <2>1, EntriesOf
  <2>3. r \in Seq(T)
    BY <2>1, <2>2, FunctionIsSeq
  <2> QED
    BY <1>1, <2>3, PruneKeeps
<1>7. s = pr \/ s = Prune(pr, k) \/ \E r \in SetToSeqs(E) : s = Prune(r, k)
  BY DEF Finals, E
<1> QED
  BY <1>4, <1>5, <1>6, <1>7 DEF T

LEMMA CutFinalKeeps ==
  ASSUME NEW T, NEW s \in Seq(T), NEW limit \in Nat
  PROVE  CutFinal(s, limit) \in Seq(T)
<1>1. FinalLimit(limit) \in Nat
  BY ScoresAreNumbers
<1> QED
  BY <1>1, HeadOf DEF CutFinal

----------------------------------------------------------------------------
(* Pruning takes what the joins add away again.                            *)

LEMMA Scored ==
  ASSUME NEW s \in Seq(Cands)
  PROVE  /\ Len(s) \in Nat /\ DOMAIN s = 1..Len(s)
         /\ \A i \in 1..Len(s) : s[i] \in Cands /\ s[i].score \in Nat
         /\ Descending(s) => \A i, j \in 1..Len(s) : i <= j => s[i].score >= s[j].score
<1>1. Len(s) \in Nat /\ DOMAIN s = 1..Len(s) /\ \A i \in 1..Len(s) : s[i] \in Cands
  BY EntriesOf
<1>2. \A i \in 1..Len(s) : s[i].score \in Nat
  BY <1>1, ScoresAreNumbers
<1>3. ASSUME Descending(s), NEW i \in 1..Len(s), NEW j \in 1..Len(s), i <= j
      PROVE  s[i].score >= s[j].score
  <2>1. CASE i = j
    <3>1. s[i].score \in Nat
      BY <1>2
    <3> QED
      BY <2>1, <3>1
  <2>2. CASE i < j
    BY <1>1, <1>3, <2>2 DEF Descending
  <2> QED
    BY <1>1, <1>3, <2>1, <2>2
<1> QED
  BY <1>1, <1>2, <1>3

LEMMA Counting == \A n \in Nat : IsFiniteSet(1..n) /\ Cardinality(1..n) = n
  BY FS_Interval

(* A function into fewer places takes one of them twice.                   *)
LEMMA TwoMeet ==
  ASSUME NEW i \in Nat \ {0}, NEW f \in [1..i -> 1..(i - 1)]
  PROVE  \E m, n \in 1..i : m # n /\ f[m] = f[n]
<1> DEFINE S == 1..i
           T == 1..(i - 1)
<1> SUFFICES ASSUME \A m, n \in S : f[m] = f[n] => m = n
             PROVE  FALSE
  OBVIOUS
<1>1. Cardinality(S) = i /\ IsFiniteSet(T) /\ Cardinality(T) = i - 1
  BY Counting
<1>2. f \in Injection(S, T)
  BY DEF Injection, IsInjective
<1>3. Cardinality(S) <= Cardinality(T)
  <2> HIDE DEF S, T
  <2> QED
    BY <1>1, <1>2, FS_Injection
<1> QED
  BY <1>1, <1>3

(* Of two rankings, the one whose entries are all found in the other, at   *)
(* places of their own, has no better score at any place.                  *)
LEMMA NoBetterScores ==
  ASSUME NEW s \in Seq(Cands), NEW p \in Seq(Cands), Descending(s), Descending(p),
         NEW i \in 1..Len(s), NEW f \in [1..i -> 1..Len(p)],
         \A m, n \in 1..i : f[m] = f[n] => m = n,
         \A m \in 1..i : p[f[m]].score = s[m].score
  PROVE  i \in 1..Len(p) /\ p[i].score >= s[i].score
<1>1. /\ Len(s) \in Nat /\ \A m \in 1..Len(s) : s[m].score \in Nat
      /\ Len(p) \in Nat /\ \A m \in 1..Len(p) : p[m].score \in Nat
  BY Scored
<1>2. \E m \in 1..i : f[m] >= i
  <2> SUFFICES ASSUME \A m \in 1..i : ~(f[m] >= i) PROVE FALSE
    OBVIOUS
  <2>1. i \in Nat \ {0} /\ i - 1 \in Nat
    BY <1>1
  <2>2. \A m \in 1..i : f[m] \in 1..(i - 1)
    BY <1>1, <2>1
  <2>3. f \in [1..i -> 1..(i - 1)]
    BY <2>2
  <2> QED
    BY <2>1, <2>3, TwoMeet
<1>3. PICK m \in 1..i : f[m] >= i
  BY <1>2
<1>4. i \in 1..Len(p) /\ f[m] \in 1..Len(p) /\ m \in 1..Len(s)
  BY <1>1, <1>3
<1>5. s[m].score >= s[i].score
  BY <1>1, <1>4, Scored
<1>6. p[i].score >= p[f[m]].score
  BY <1>3, <1>4, Scored
<1>7. p[f[m]].score = s[m].score
  OBVIOUS
<1> QED
  BY <1>1, <1>4, <1>5, <1>6, <1>7

LEMMA CloseToo ==
  ASSUME NEW s, NEW p, NEW n \in Nat, Close(s, n + 1),
         p[1].score \in Nat, p[n].score \in Nat, p[n + 1].score \in Nat, s[n + 1].score \in Nat,
         s[1].score = p[1].score, s[n].score = p[n].score, p[n + 1].score >= s[n + 1].score
  PROVE  Close(p, n + 1)
<1> DEFINE a == p[1].score
           b == p[n].score
           c == p[n + 1].score
           d == s[n + 1].score
           gap == GapRatio * a
<1>1. a \in Nat /\ b \in Nat /\ c \in Nat /\ d \in Nat /\ c >= d
  OBVIOUS
<1>2. GapRatio \in Nat /\ MinStep \in Nat /\ TopRadius \in Nat
  BY SelectionAssumption
<1>3. gap \in Nat
  BY <1>1, <1>2
<1>4. n + 1 - 1 = n
  OBVIOUS
<1>5. /\ 100 * d >= gap
      /\ TopRadius = 0 \/ d + TopRadius >= a
      /\ MinStep = 0 \/ d + MinStep >= b
  BY <1>4 DEF Close
<1>6. Close(p, n + 1) <=> /\ 100 * c >= gap
                          /\ TopRadius = 0 \/ c + TopRadius >= a
                          /\ MinStep = 0 \/ c + MinStep >= b
  BY <1>4 DEF Close
<1> HIDE DEF a, b, c, d, gap
<1>7. 100 * c >= gap
  BY <1>1, <1>3, <1>5
<1>8. (TopRadius = 0 \/ c + TopRadius >= a) /\ (MinStep = 0 \/ c + MinStep >= b)
  BY <1>1, <1>2, <1>5
<1> QED
  BY <1>6, <1>7, <1>8

(* The same head is kept of a ranking with the same scores in that head    *)
(* and no better one after it.                                             *)
LEMMA SameHeadKept ==
  ASSUME NEW p \in Seq(Cands), NEW s \in Seq(Cands), p # <<>>, NEW k \in Nat,
         NEW n \in 1..Len(p), n <= Len(s),
         PruneRanked(p, k) = SubSeq(p, 1, n),
         p[1].score = 0 => n = 1,
         p[1].score # 0 => n = Max(KeptLengths(p, k)),
         \A i \in 1..n : s[i].score = p[i].score,
         n < Len(s) => n + 1 \in 1..Len(p) /\ p[n + 1].score >= s[n + 1].score
  PROVE  PruneRanked(s, k) = SubSeq(s, 1, n)
<1>1. /\ Len(s) \in Nat /\ \A m \in 1..Len(s) : s[m].score \in Nat
      /\ Len(p) \in Nat /\ \A m \in 1..Len(p) : p[m].score \in Nat
      /\ n \in Nat \ {0} /\ 1 \in 1..n
  <2>1. /\ Len(s) \in Nat /\ \A m \in 1..Len(s) : s[m].score \in Nat
        /\ Len(p) \in Nat /\ \A m \in 1..Len(p) : p[m].score \in Nat
    BY Scored
  <2>2. n \in Nat \ {0} /\ 1 \in 1..n
    BY <2>1
  <2> QED
    BY <2>1, <2>2
<1>2. s # <<>>
  BY <1>1, EntriesOf
<1>3. s[1].score = p[1].score
  BY <1>1
<1>4. CASE p[1].score = 0
  BY <1>2, <1>3, <1>4 DEF PruneRanked
<1>5. CASE p[1].score # 0
  <2>1. /\ n \in KeptLengths(p, k) /\ \A m \in KeptLengths(p, k) : m <= n
    BY <1>5, KeptLengthsHaveMax
  <2> DEFINE most == IF k > 1 THEN k ELSE 1
  <2>2. n <= most /\ \A i \in 2..n : Close(p, i)
    BY <2>1 DEF KeptLengths
  <2>3. \A i \in 2..n : i \in 1..n /\ i - 1 \in 1..n
    BY <1>1
  <2>4. \A i \in 2..n : Close(s, i)
    BY <1>3, <2>2, <2>3 DEF Close
  <2>5. n \in KeptLengths(s, k)
    BY <1>1, <2>2, <2>4 DEF KeptLengths
  <2>6. ASSUME NEW m \in KeptLengths(s, k), m > n PROVE FALSE
    <3>1. m \in 1..Len(s) /\ m <= most /\ \A i \in 2..m : Close(s, i)
      BY DEF KeptLengths
    <3>2. n + 1 \in 2..m /\ n + 1 \in 1..Len(s) /\ n + 1 <= most /\ n < Len(s) /\ most \in Nat
      BY <1>1, <2>6, <3>1
    <3>3. n + 1 \in 1..Len(p) /\ p[n + 1].score >= s[n + 1].score
      BY <3>2
    <3>4. Close(s, n + 1) /\ (n + 1) - 1 = n /\ s[n].score = p[n].score
      BY <1>1, <3>1, <3>2
    <3>5. 1 \in 1..Len(p) /\ n \in 1..Len(p) /\ 1 \in 1..Len(s) /\ n \in 1..Len(s)
      BY <1>1, <3>2
    <3>6. Close(p, n + 1)
      BY <1>1, <1>3, <3>2, <3>3, <3>4, <3>5, CloseToo
    <3>7. \A i \in 2..(n + 1) : i \in 2..n \/ i = n + 1
      BY <1>1
    <3>8. n + 1 \in KeptLengths(p, k)
      BY <2>2, <3>2, <3>3, <3>6, <3>7 DEF KeptLengths
    <3> QED
      BY <1>1, <2>1, <3>8
  <2>7. /\ Max(KeptLengths(s, k)) \in KeptLengths(s, k)
        /\ Max(KeptLengths(s, k)) \in 1..Len(s)
        /\ n <= Max(KeptLengths(s, k))
    BY <1>2, <2>5, KeptLengthsHaveMax
  <2>8. Max(KeptLengths(s, k)) = n
    BY <1>1, <2>6, <2>7
  <2> QED
    BY <1>2, <1>3, <1>5, <2>8 DEF PruneRanked
<1> QED
  BY <1>4, <1>5

(* What pruning keeps of a ranking, by its length.                         *)
LEMMA PrunedHead ==
  ASSUME NEW p \in Seq(Cands), p # <<>>, Descending(p), NEW k \in Nat
  PROVE  \E n \in 1..Len(p) :
           /\ Prune(p, k) = PruneRanked(p, k) /\ PruneRanked(p, k) = SubSeq(p, 1, n)
           /\ p[1].score = 0 => n = 1
           /\ p[1].score # 0 => n = Max(KeptLengths(p, k))
<1>1. Len(p) \in Nat \ {0}
  BY EntriesOf
<1>2. Prune(p, k) = PruneRanked(p, k)
  BY Scored, RankedPermutes DEF Prune
<1>3. Max(KeptLengths(p, k)) \in 1..Len(p) /\ 1 \in 1..Len(p)
  BY <1>1, KeptLengthsHaveMax
<1>4. PruneRanked(p, k) = IF p[1].score = 0 THEN SubSeq(p, 1, 1)
                          ELSE SubSeq(p, 1, Max(KeptLengths(p, k)))
  BY DEF PruneRanked
<1> QED
  BY <1>2, <1>3, <1>4

(* The best n candidates of p are as good as those of any ranking of       *)
(* candidates of p that holds these n, each once.                          *)
LEMMA SameBest ==
  ASSUME NEW p \in Seq(Cands), NEW r \in Seq(Cands), Descending(p), Descending(r),
         \A i, j \in DOMAIN p : p[i] = p[j] => i = j,
         \A i, j \in DOMAIN r : r[i] = r[j] => i = j,
         \A i \in DOMAIN r : \E j \in DOMAIN p : p[j] = r[i],
         NEW n \in 1..Len(p), \A i \in 1..n : \E j \in DOMAIN r : r[j] = p[i]
  PROVE  /\ n <= Len(r)
         /\ \A i \in 1..n : r[i].score = p[i].score
         /\ n < Len(r) => n + 1 \in 1..Len(p) /\ p[n + 1].score >= r[n + 1].score
<1>1. /\ Len(p) \in Nat /\ DOMAIN p = 1..Len(p) /\ \A i \in 1..Len(p) : p[i].score \in Nat
      /\ Len(r) \in Nat /\ DOMAIN r = 1..Len(r) /\ \A i \in 1..Len(r) : r[i].score \in Nat
  BY Scored
<1>2. ASSUME NEW i \in 1..Len(r)
      PROVE  i \in 1..Len(p) /\ p[i].score >= r[i].score
  <2> DEFINE f == [m \in 1..i |-> CHOOSE j \in 1..Len(p) : p[j] = r[m]]
  <2>1. \A m \in 1..i : m \in 1..Len(r)
    BY <1>1
  <2>2. \A m \in 1..i : f[m] \in 1..Len(p) /\ p[f[m]] = r[m]
    BY <1>1, <2>1
  <2>3. f \in [1..i -> 1..Len(p)]
    BY <2>2
  <2> HIDE DEF f
  <2>4. \A l, m \in 1..i : f[l] = f[m] => l = m
    BY <1>1, <2>1, <2>2
  <2>5. \A m \in 1..i : p[f[m]].score = r[m].score
    BY <2>2
  <2> QED
    BY <2>3, <2>4, <2>5, NoBetterScores
<1>3. ASSUME NEW i \in 1..n
      PROVE  i \in 1..Len(r) /\ r[i].score >= p[i].score
  <2> DEFINE f == [m \in 1..i |-> CHOOSE j \in 1..Len(r) : r[j] = p[m]]
  <2>1. (\A m \in 1..i : m \in 1..n /\ m \in 1..Len(p)) /\ i \in 1..Len(p)
    BY <1>1
  <2>2. \A m \in 1..i : f[m] \in 1..Len(r) /\ r[f[m]] = p[m]
    BY <1>1, <2>1
  <2>3. f \in [1..i -> 1..Len(r)]
    BY <2>2
  <2> HIDE DEF f
  <2>4. \A l, m \in 1..i : f[l] = f[m] => l = m
    <3> SUFFICES ASSUME NEW l \in 1..i, NEW m \in 1..i, f[l] = f[m] PROVE l = m
      OBVIOUS
    <3>1. p[l] = p[m]
      BY <2>2
    <3> QED
      BY <1>1, <2>1, <3>1
  <2>5. \A m \in 1..i : r[f[m]].score = p[m].score
    BY <2>2
  <2> QED
    BY <2>1, <2>3, <2>4, <2>5, NoBetterScores
<1>4. n \in 1..n /\ n \in Nat
  BY <1>1
<1>5. n <= Len(r)
  BY <1>1, <1>3, <1>4
<1>6. ASSUME NEW i \in 1..n PROVE r[i].score = p[i].score
  <2>1. i \in 1..Len(r) /\ i \in 1..Len(p) /\ r[i].score >= p[i].score /\ p[i].score >= r[i].score
    BY <1>2, <1>3
  <2> QED
    BY <1>1, <2>1
<1>7. ASSUME n < Len(r) PROVE n + 1 \in 1..Len(p) /\ p[n + 1].score >= r[n + 1].score
  <2>1. n + 1 \in 1..Len(r)
    BY <1>1, <1>4, <1>7
  <2> QED
    BY <1>2, <2>1
<1> QED
  BY <1>5, <1>6, <1>7

LEMMA FinalsScoreTheSame ==
  ASSUME NEW p \in Seq(Cands), Descending(p), Distinct(p), NEW k \in Nat, NEW bs,
         NEW s \in Finals(p, Prune(p, k), bs, k)
  PROVE  Scores(s) = Scores(Prune(p, k)) /\ Len(s) = Len(Prune(p, k))
<1> DEFINE pr == Prune(p, k)
           E == Expanded(p, pr, bs)
<1>1. CASE p = <<>>
  <2>1. pr = <<>>
    BY <1>1, PruneKeeps
  <2>2. s = <<>>
    BY <2>1 DEF Finals
  <2> QED
    BY <2>1, <2>2
<1>2. CASE p # <<>>
  <2>1. PICK n \in 1..Len(p) :
           /\ pr = PruneRanked(p, k) /\ PruneRanked(p, k) = SubSeq(p, 1, n)
           /\ p[1].score = 0 => n = 1
           /\ p[1].score # 0 => n = Max(KeptLengths(p, k))
    BY <1>2, PrunedHead
  <2>2. Len(p) \in Nat /\ n \in 0..Len(p)
    BY EntriesOf
  <2>3. /\ pr = SubSeq(p, 1, n) /\ pr \in Seq(Cands) /\ Len(pr) = n /\ DOMAIN pr = 1..n
        /\ Descending(pr) /\ \A i \in 1..n : pr[i] = p[i]
    <3>1. Descending(pr)
      BY PruneKeeps
    <3> HIDE DEF pr
    <3> QED
      BY <2>1, <2>2, <3>1, FirstOf
  <2>4. \A i, j \in DOMAIN p : p[i] = p[j] => i = j
    BY DEF Distinct
  <2> HIDE DEF pr
  (* Any ranking of candidates of the pool with those of pr is pruned to   *)
  (* the scores of pr.                                                     *)
  <2>5. ASSUME NEW r \in Seq(Cands), Descending(r),
               \A i, j \in DOMAIN r : r[i] = r[j] => i = j,
               \A i \in DOMAIN r : \E j \in DOMAIN p : p[j] = r[i],
               \A i \in 1..n : \E j \in DOMAIN r : r[j] = p[i]
        PROVE  Scores(Prune(r, k)) = Scores(pr) /\ Len(Prune(r, k)) = Len(pr)
    <3>1. /\ n <= Len(r)
          /\ \A i \in 1..n : r[i].score = p[i].score
          /\ n < Len(r) => n + 1 \in 1..Len(p) /\ p[n + 1].score >= r[n + 1].score
      BY <2>4, <2>5, SameBest
    <3>2. PruneRanked(r, k) = SubSeq(r, 1, n)
      BY <1>2, <2>1, <3>1, SameHeadKept
    <3>3. Ranked(r) = r
      <4>1. \A i \in DOMAIN r : r[i].score \in Nat
        BY <2>5, Scored
      <4> QED
        BY <2>5, <4>1, RankedPermutes
    <3>4. n \in 0..Len(r)
      BY <2>2, <3>1, EntriesOf
    <3>5. /\ DOMAIN SubSeq(r, 1, n) = 1..n /\ Len(SubSeq(r, 1, n)) = n
          /\ \A i \in 1..n : SubSeq(r, 1, n)[i] = r[i]
      BY <3>4, FirstOf
    <3>6. Prune(r, k) = SubSeq(r, 1, n)
      BY <3>2, <3>3 DEF Prune
    <3>7. \A i \in 1..n : SubSeq(r, 1, n)[i].score = pr[i].score
      BY <2>3, <3>1, <3>5
    <3> QED
      BY <2>3, <3>5, <3>6, <3>7 DEF Scores
  <2>6. ASSUME s = Prune(pr, k)
        PROVE  Scores(s) = Scores(pr) /\ Len(s) = Len(pr)
    <3>1. \A i \in 1..n : i \in DOMAIN p
      BY <2>2, EntriesOf
    <3>2. \A i, j \in DOMAIN pr : pr[i] = pr[j] => i = j
      BY <2>3, <2>4, <3>1
    <3>3. \A i \in DOMAIN pr : \E j \in DOMAIN p : p[j] = pr[i]
      BY <2>3, <3>1
    <3>4. \A i \in 1..n : \E j \in DOMAIN pr : pr[j] = p[i]
      BY <2>3
    <3> QED
      BY <2>3, <2>5, <2>6, <3>2, <3>3, <3>4
  <2>7. ASSUME NEW r \in SetToSeqs(E), Descending(r), s = Prune(r, k)
        PROVE  Scores(s) = Scores(pr) /\ Len(s) = Len(pr)
    <3>1. /\ IsFiniteSet(E) /\ E \in SUBSET Cands
          /\ \A x \in E : \E i \in DOMAIN p : p[i] = x
      BY ExpandedIsOfPool
    <3>2. \A i \in 1..n : p[i] \in E
      <4> TAKE i \in 1..n
      <4>1. i \in DOMAIN p /\ i \in DOMAIN pr /\ pr[i] = p[i]
        BY <2>2, <2>3, EntriesOf
      <4>2. p[i].key \in Keys(pr) \cap Keys(p)
        BY <4>1 DEF Keys
      <4>3. ByKey(p, p[i].key) = p[i]
        BY <4>1, <4>2, ByKeyIsIn DEF Distinct
      <4> QED
        BY <4>2, <4>3 DEF Expanded
    <3> HIDE DEF E
    <3>3. /\ r \in Seq(E) /\ \A x \in E : \E i \in DOMAIN r : r[i] = x
          /\ \A i, j \in DOMAIN r : i # j => r[i] # r[j]
      BY <2>7, <3>1, Enumerates
    <3>4. Len(r) \in Nat /\ r \in [1..Len(r) -> Cands] /\ \A i \in DOMAIN r : r[i] \in E
      BY <3>1, <3>3, EntriesOf
    <3>5. r \in Seq(Cands)
      BY <3>4, FunctionIsSeq
    <3>6. \A i \in DOMAIN r : \E j \in DOMAIN p : p[j] = r[i]
      BY <3>1, <3>4
    <3>7. \A i \in 1..n : \E j \in DOMAIN r : r[j] = p[i]
      BY <3>2, <3>3
    <3> QED
      BY <2>5, <2>7, <3>3, <3>5, <3>6, <3>7
  <2>8. pr # <<>>
    BY <2>2, <2>3, EntriesOf
  <2>9. s = Prune(pr, k) \/ \E r \in SetToSeqs(E) : Descending(r) /\ s = Prune(r, k)
    BY <2>8 DEF Finals, pr, E
  <2>10. Scores(s) = Scores(pr) /\ Len(s) = Len(pr)
    BY <2>6, <2>7, <2>9
  <2> QED
    BY <2>10 DEF pr
<1> QED
  BY <1>1, <1>2

LEMMA CutFinalScores ==
  ASSUME NEW s \in Seq(Cands), NEW r \in Seq(Cands), Scores(s) = Scores(r), Len(s) = Len(r),
         NEW limit \in Nat
  PROVE  Scores(CutFinal(s, limit)) = Scores(CutFinal(r, limit))
<1> DEFINE m == FinalLimit(limit)
<1>1. m \in Nat
  BY ScoresAreNumbers
<1>2. CASE ~(m > 0)
  BY <1>2 DEF CutFinal
<1>3. CASE m > 0
  <2>1. CutFinal(s, limit) = Cut(s, m) /\ CutFinal(r, limit) = Cut(r, m)
    BY <1>3 DEF CutFinal
  <2> HIDE DEF m
  <2>2. /\ DOMAIN Cut(s, m) = DOMAIN Cut(r, m) /\ DOMAIN Cut(s, m) \subseteq DOMAIN s
        /\ DOMAIN Cut(r, m) \subseteq DOMAIN r
        /\ \A i \in DOMAIN Cut(s, m) : Cut(s, m)[i] = s[i]
        /\ \A i \in DOMAIN Cut(r, m) : Cut(r, m)[i] = r[i]
    BY <1>1, HeadOf
  <2>3. \A i \in DOMAIN s : s[i].score = Scores(s)[i]
    BY DEF Scores
  <2>4. \A i \in DOMAIN r : r[i].score = Scores(r)[i]
    BY DEF Scores
  <2>5. \A i \in DOMAIN Cut(s, m) : Cut(s, m)[i].score = Cut(r, m)[i].score
    BY <2>2, <2>3, <2>4
  <2>6. Scores(Cut(s, m)) = Scores(Cut(r, m))
    BY <2>2, <2>5 DEF Scores
  <2> QED
    BY <2>1, <2>6
<1> QED
  BY <1>2, <1>3

----------------------------------------------------------------------------
(* The joins and their groups.                                             *)

LEMMA ClassesJoin ==
  ASSUME NEW keys, NEW bs
  PROVE  /\ \A k \in keys : /\ k \in Classes(keys, bs)[k]
                            /\ Classes(keys, bs)[k] \in SUBSET keys
         /\ \A b \in bs : {b.from, b.to} \subseteq keys =>
              /\ b.to \in Classes(keys, bs)[b.from]
              /\ Classes(keys, bs)[b.from] = Classes(keys, bs)[b.to]
<1> DEFINE class == Classes(keys, bs)
<1>1. \A k \in keys : class[k] = {l \in keys : \A C \in SUBSET keys :
                                     k \in C /\ Closed(C, bs) => l \in C}
  BY DEF Classes
<1>2. \A k \in keys : k \in class[k] /\ class[k] \in SUBSET keys
  BY <1>1
<1>3. ASSUME NEW b \in bs, {b.from, b.to} \subseteq keys
      PROVE  b.to \in class[b.from] /\ class[b.from] = class[b.to]
  <2>1. \A C \in SUBSET keys : Closed(C, bs) => (b.from \in C <=> b.to \in C)
    BY DEF Closed
  <2>2. b.to \in class[b.from]
    BY <1>1, <1>3, <2>1
  <2>3. \A l \in keys : l \in class[b.from] <=> l \in class[b.to]
    BY <1>1, <1>3, <2>1
  <2> QED
    BY <1>2, <1>3, <2>2, <2>3
<1> QED
  BY <1>2, <1>3

LEMMA TwoAreTwo == ASSUME NEW x, NEW y, x # y PROVE Cardinality({x, y}) = 2
<1>1. IsFiniteSet({x}) /\ Cardinality({x}) = 1
  BY FS_Singleton
<1>2. Cardinality({x} \cup {y}) = 1 + 1
  <2>1. y \notin {x}
    OBVIOUS
  <2> QED
    BY <1>1, <2>1, FS_AddElement
<1>3. {x} \cup {y} = {x, y}
  OBVIOUS
<1> QED
  BY <1>2, <1>3

(* No bridge ends at a table that is still alone, but one to itself.       *)
LEMMA IsolatedIsUntouched ==
  ASSUME NEW keys, IsFiniteSet(keys), NEW bs, NEW k \in Isolated(keys, bs),
         NEW b \in bs, {b.from, b.to} \subseteq keys, b.from # b.to
  PROVE  k \notin {b.from, b.to}
<1> DEFINE class == Classes(keys, bs)
<1>1. k \in keys /\ Cardinality(class[k]) < 2
  BY DEF Isolated
<1>2. SUFFICES ASSUME k \in {b.from, b.to} PROVE FALSE
  OBVIOUS
<1>3. class[k] \in SUBSET keys /\ {b.from, b.to} \in SUBSET class[k]
  BY <1>1, <1>2, ClassesJoin
<1>4. IsFiniteSet(class[k])
  BY <1>3, FS_Subset
<1>5. Cardinality({b.from, b.to}) <= Cardinality(class[k])
  BY <1>3, <1>4, FS_Subset
<1>6. Cardinality({b.from, b.to}) = 2
  BY TwoAreTwo
<1>7. Cardinality(class[k]) \in Nat
  BY <1>4, FS_CardinalityType
<1> HIDE DEF class
<1> QED
  BY <1>1, <1>5, <1>6, <1>7

(* Each bridge within the answer is in one group, groups do not meet.      *)
LEMMA GroupsHold ==
  ASSUME NEW fin, NEW keys, IsFiniteSet(keys), Keys(fin) \subseteq keys, NEW bs,
         \A b \in bs : {b.from, b.to} \subseteq keys
  PROVE  /\ \A b \in bs : b.from # b.to /\ {b.from, b.to} \subseteq Keys(fin) =>
              Cardinality({g \in JoinGroups(fin, keys, bs) : b \in g.bridges}) = 1
         /\ \A g \in JoinGroups(fin, keys, bs) :
              /\ g.members \subseteq Keys(fin)
              /\ \A b \in g.bridges : {b.from, b.to} \subseteq g.members
              /\ \A h \in JoinGroups(fin, keys, bs) : g # h => g.members \cap h.members = {}
<1> DEFINE class == Classes(keys, bs)
           ofKey(l) == {k \in Keys(fin) : class[k] = class[l]}
           groups == JoinGroups(fin, keys, bs)
<1>1. groups = {g \in {Group(ofKey(l), bs) : l \in Keys(fin)} :
                   Cardinality(g.members) >= 2 /\ g.bridges # {}}
  BY DEF JoinGroups
<1>2. \A S : /\ Group(S, bs).members = S
             /\ Group(S, bs).bridges = {b \in bs : b.from \in S /\ b.to \in S}
  BY DEF Group
<1>3. \A b \in bs : class[b.from] = class[b.to]
  BY ClassesJoin
<1> HIDE DEF class, groups
<1>4. \A g \in groups : \E l \in Keys(fin) : g = Group(ofKey(l), bs)
  BY <1>1
<1>5. \A l, m \in Keys(fin) : class[l] = class[m] => ofKey(l) = ofKey(m)
  OBVIOUS
<1>6. ASSUME NEW g \in groups, NEW h \in groups, g.members \cap h.members # {}
      PROVE  g = h
  <2>1. PICK l \in Keys(fin) : g = Group(ofKey(l), bs)
    BY <1>4
  <2>2. PICK m \in Keys(fin) : h = Group(ofKey(m), bs)
    BY <1>4
  <2>3. g.members = ofKey(l) /\ h.members = ofKey(m)
    BY <1>2, <2>1, <2>2
  <2>4. class[l] = class[m]
    BY <1>6, <2>3
  <2> QED
    BY <1>5, <2>1, <2>2, <2>4
<1>7. ASSUME NEW g \in groups
      PROVE  /\ g.members \subseteq Keys(fin)
             /\ \A b \in g.bridges : {b.from, b.to} \subseteq g.members
  <2>1. PICK l \in Keys(fin) : g = Group(ofKey(l), bs)
    BY <1>4
  <2> QED
    BY <1>2, <2>1
<1>8. ASSUME NEW b \in bs, b.from # b.to, {b.from, b.to} \subseteq Keys(fin)
      PROVE  Cardinality({g \in groups : b \in g.bridges}) = 1
  <2> DEFINE S == ofKey(b.from)
             own == Group(S, bs)
  <2>1. b.from \in S /\ b.to \in S
    BY <1>3, <1>8
  <2>2. S \in SUBSET keys /\ {b.from, b.to} \in SUBSET S
    BY <2>1
  <2> HIDE DEF S
  <2>3. IsFiniteSet(S)
    BY <2>2, FS_Subset
  <2>4. Cardinality({b.from, b.to}) <= Cardinality(S) /\ Cardinality(S) \in Nat
    BY <2>2, <2>3, FS_Subset, FS_CardinalityType
  <2>5. Cardinality({b.from, b.to}) = 2
    BY <1>8, TwoAreTwo
  <2>7. Cardinality(S) >= 2
    BY <2>4, <2>5
  <2>8. own.members = S /\ b \in own.bridges
    BY <1>2, <2>1
  <2>9. own \in groups
    BY <1>1, <1>8, <2>7, <2>8 DEF S
  <2> HIDE DEF own
  <2>10. \A g \in groups : b \in g.bridges => g = own
    <3> SUFFICES ASSUME NEW g \in groups, b \in g.bridges PROVE g = own
      OBVIOUS
    <3>1. b.from \in g.members
      BY <1>7
    <3>2. g.members \cap own.members # {}
      BY <2>1, <2>8, <3>1
    <3> QED
      BY <1>6, <2>9, <3>2
  <2>11. {g \in groups : b \in g.bridges} = {own}
    BY <2>8, <2>9, <2>10
  <2> QED
    BY <2>11, FS_Singleton
<1> QED
  BY <1>6, <1>7, <1>8 DEF groups

----------------------------------------------------------------------------
(* The decision.                                                           *)

BeforeJoins == {"idle", "hyde", "embed", "search_hyde", "search_question", "keyword", "fk"}

BeforeFinal == BeforeJoins \cup {"ontology", "convention"}

(* The pool is a ranking, pruned by its scores; unless it comes from the   *)
(* keywords, all of it is in scope.                                        *)
RankingInv ==
  /\ place \in DecisionPlaces /\ hyde \in BOOLEAN /\ fallback \in BOOLEAN
  /\ embedded \in SUBSET {"hyde", "question"}
  /\ hits = [hyde |-> hits.hyde, question |-> hits.question]
  /\ hits.hyde \in Seq(Tables \cap InScope) /\ hits.question \in Seq(Tables \cap InScope)
  /\ pool \in Seq(Cands) /\ Descending(pool)
  /\ fallback \/ pool \in Seq(Scoped)
  /\ place = "keyword" => fallback
  /\ pruned = Prune(pool, Limit)

(* The joins are between tables of the pool; what a later source joins was *)
(* alone before.                                                           *)
JoinsInv ==
  /\ \A b \in bridges : /\ b \in ask.edges /\ {b.from, b.to} \subseteq Keys(pool)
                        /\ b.via \in {"fk", "ontology", "convention"}
                        /\ b.via # "fk" => b.from # b.to
  /\ WeakerSourcesFillGaps
  /\ place \in BeforeJoins => bridges = {}
  /\ place = "ontology" => \A b \in bridges : b.via = "fk"
  /\ place = "convention" => \A b \in bridges : b.via # "convention"

(* What is answered is one of the choices there are.                       *)
AnswerInv ==
  /\ final \in Seq(ToSet(pool))
  /\ place \in BeforeFinal => final = <<>>
  /\ Chosen => \E s \in Finals(pool, pruned, bridges, Limit) : final = CutFinal(s, ask.limit)
  /\ response = [target |-> response.target, secondary |-> response.secondary,
                 groups |-> response.groups, labels |-> response.labels,
                 matched |-> response.matched]
  /\ place = "answered" => response.groups = JoinGroups(final, Keys(pool), bridges)

DecisionInv == IsAsk(ask) /\ RankingInv /\ JoinsInv /\ AnswerInv

LEMMA DecisionInvImplies ==
  ASSUME DecisionInv
  PROVE  /\ DecisionTypeOK
         /\ ExpansionAddsNothing /\ GroupsKeepBridges
         /\ WeakerSourcesFillGaps /\ OutOfScopeOnlyByFallback
<1>1. /\ ask.limit \in Nat /\ Limit \in Nat \ {0} /\ pool \in Seq(Cands)
      /\ pruned = Prune(pool, Limit)
  BY ScoresAreNumbers DEF DecisionInv, RankingInv, IsAsk, Limit
<1>2. pruned \in Seq(Cands)
  <2>1. Cands \in SUBSET Cands
    OBVIOUS
  <2> QED
    BY <1>1, <2>1, PruneKeeps
<1>3. final \in Seq(Cands) /\ Keys(final) \subseteq Keys(pool)
  BY <1>1, OfEntries DEF DecisionInv, AnswerInv
<1>4. DecisionTypeOK
  <2>1. Candidates(pool) /\ Candidates(pruned) /\ Candidates(final)
    BY <1>1, <1>2, <1>3, CandidatesAre
  <2>2. DOMAIN hits = {"hyde", "question"}
    BY DEF DecisionInv, RankingInv
  <2>3. bridges \in SUBSET ask.edges
    BY DEF DecisionInv, JoinsInv
  <2> QED
    BY <2>1, <2>2, <2>3 DEF DecisionInv, RankingInv, DecisionTypeOK
<1>5. ExpansionAddsNothing
  <2> SUFFICES ASSUME Chosen, Distinct(pool)
               PROVE  Scores(final) = Scores(CutFinal(pruned, ask.limit))
    BY DEF ExpansionAddsNothing
  <2>1. PICK s \in Finals(pool, pruned, bridges, Limit) : final = CutFinal(s, ask.limit)
    BY DEF DecisionInv, AnswerInv
  <2>2. Scores(s) = Scores(pruned) /\ Len(s) = Len(pruned)
    BY <1>1, FinalsScoreTheSame DEF DecisionInv, RankingInv
  <2>3. s \in Seq(Cands)
    BY <1>1, FinalsAreOfPool, OfEntries
  <2> QED
    BY <1>1, <1>2, <2>1, <2>2, <2>3, CutFinalScores
<1>6. GroupsKeepBridges
  <2> SUFFICES ASSUME place = "answered" PROVE GroupsKeepBridges
    BY DEF GroupsKeepBridges
  <2>1. response.groups = JoinGroups(final, Keys(pool), bridges)
    BY DEF DecisionInv, AnswerInv
  <2>2. \A b \in bridges : {b.from, b.to} \subseteq Keys(pool)
    BY DEF DecisionInv, JoinsInv
  <2>3. IsFiniteSet(Keys(pool))
    BY <1>1, KeysAreFinite
  <2> QED
    BY <1>3, <2>1, <2>2, <2>3, GroupsHold DEF GroupsKeepBridges
<1>7. WeakerSourcesFillGaps
  BY DEF DecisionInv, JoinsInv
<1>8. OutOfScopeOnlyByFallback
  <2> SUFFICES ASSUME pool \in Seq(Scoped), NEW i \in DOMAIN pool PROVE pool[i].table \in InScope
    BY DEF OutOfScopeOnlyByFallback, DecisionInv, RankingInv
  <2>1. pool[i] \in Scoped
    BY EntriesOf
  <2> QED
    BY <2>1 DEF Scoped
<1> QED
  BY <1>4, <1>5, <1>6, <1>7, <1>8

LEMMA DecisionInvInit ==
  ASSUME NEW asks, \A a \in asks : IsAsk(a), DecisionInit(asks)
  PROVE  DecisionInv
<1>1. /\ IsAsk(ask) /\ place = "idle" /\ hyde = FALSE /\ embedded = {} /\ fallback = FALSE
      /\ hits = [hyde |-> <<>>, question |-> <<>>]
      /\ pool = <<>> /\ pruned = <<>> /\ bridges = {} /\ final = <<>> /\ response = NoResponse
  BY DEF DecisionInit
<1>2. \A T : <<>> \in Seq(T)
  OBVIOUS
<1>3. Limit \in Nat
  <2>1. ask.limit \in Nat
    BY <1>1 DEF IsAsk
  <2> QED
    BY <2>1, ScoresAreNumbers DEF Limit
<1>4. Prune(<<>>, Limit) = <<>> /\ Descending(<<>>)
  BY <1>2, <1>3, PruneKeeps
<1>5. RankingInv
  BY <1>1, <1>2, <1>4 DEF RankingInv, DecisionPlaces
<1>6. JoinsInv
  BY <1>1 DEF JoinsInv, WeakerSourcesFillGaps
<1>7. AnswerInv
  BY <1>1, <1>2 DEF AnswerInv, Chosen, NoResponse
<1> QED
  BY <1>1, <1>5, <1>6, <1>7 DEF DecisionInv

(* What a step leaves alone.                                               *)
LEMMA RankingSame ==
  ASSUME RankingInv, UNCHANGED <<ask, hits, pool, pruned>>,
         place' \in DecisionPlaces, hyde' \in BOOLEAN, fallback' \in BOOLEAN,
         embedded' \in SUBSET {"hyde", "question"},
         fallback => fallback', place' = "keyword" => fallback'
  PROVE  RankingInv'
  BY DEF RankingInv, Limit

LEMMA JoinsSame ==
  ASSUME JoinsInv, UNCHANGED <<ask, pool, bridges>>,
         place' \in BeforeJoins => place \in BeforeJoins,
         place' \in {"ontology", "convention"} => place' = place
  PROVE  JoinsInv'
  BY DEF JoinsInv, WeakerSourcesFillGaps

LEMMA AnswerSame ==
  ASSUME AnswerInv, UNCHANGED <<ask, pool, pruned, bridges, final, response>>,
         place' \in BeforeFinal => place \in BeforeFinal,
         place' \in {"labels", "columns", "answered"} => Chosen,
         place' = "answered" => place = "answered"
  PROVE  AnswerInv'
  BY DEF AnswerInv, Chosen, Limit

LEMMA DecisionUntouched ==
  ASSUME DecisionInv, UNCHANGED decisionVars
  PROVE  DecisionInv'
<1>1. UNCHANGED <<ask, place, hyde, embedded, hits, pool, pruned, fallback, bridges, final, response>>
  BY DEF decisionVars
<1>2. RankingInv'
  BY <1>1, RankingSame DEF DecisionInv, RankingInv
<1>3. JoinsInv'
  BY <1>1, JoinsSame DEF DecisionInv
<1>4. AnswerInv'
  BY <1>1, AnswerSame DEF DecisionInv, Chosen
<1> QED
  BY <1>1, <1>2, <1>3, <1>4 DEF DecisionInv

(* The steps before there is a pool, and a query that raises.              *)
LEMMA EarlyStepsKeep ==
  ASSUME DecisionInv, Receive \/ GenerateHyde \/ Embed \/ QueryRaises
  PROVE  DecisionInv'
<1>1. /\ UNCHANGED <<ask, hits, pool, pruned, bridges, final, response>>
      /\ place' \in DecisionPlaces /\ hyde' \in BOOLEAN /\ fallback' \in BOOLEAN
      /\ embedded' \in SUBSET {"hyde", "question"}
      /\ fallback => fallback'
      /\ place' = "keyword" => fallback'
      /\ place' \in BeforeFinal => place \in BeforeJoins
      /\ place' \notin {"ontology", "convention", "labels", "columns", "answered"}
  BY DEF DecisionInv, RankingInv, Receive, GenerateHyde, Embed, QueryRaises, Goes,
         DecisionPlaces, BeforeJoins, BeforeFinal, HydeReplies
<1>2. RankingInv'
  BY <1>1, RankingSame DEF DecisionInv
<1>3. JoinsInv'
  BY <1>1, JoinsSame DEF DecisionInv, BeforeFinal
<1>4. AnswerInv'
  BY <1>1, AnswerSame DEF DecisionInv, BeforeFinal
<1> QED
  BY <1>1, <1>2, <1>3, <1>4 DEF DecisionInv

LEMMA SearchHydeKeeps ==
  ASSUME DecisionInv, live \in SUBSET Tables, SearchHyde
  PROVE  DecisionInv'
<1>1. PICK listed \in Searches(ask.sim.hyde) : hits' = [hits EXCEPT !.hyde = listed]
  BY DEF SearchHyde
<1>2. listed \in Seq(Tables \cap InScope)
  BY SearchesStayInScope DEF DecisionInv, IsAsk
<1>3. hits' = [hyde |-> listed, question |-> hits.question]
  BY <1>1 DEF DecisionInv, RankingInv
<1>4. /\ UNCHANGED <<ask, hyde, embedded, pool, pruned, fallback, bridges, final, response>>
      /\ place = "search_hyde" /\ place' = "search_question"
  BY DEF SearchHyde, Goes
<1>5. RankingInv'
  BY <1>2, <1>3, <1>4 DEF DecisionInv, RankingInv, DecisionPlaces, Limit
<1>6. JoinsInv'
  BY <1>4, JoinsSame DEF DecisionInv, BeforeJoins
<1>7. AnswerInv'
  BY <1>4, AnswerSame DEF DecisionInv, BeforeFinal, BeforeJoins
<1> QED
  BY <1>4, <1>5, <1>6, <1>7 DEF DecisionInv

(* A pool is made while there are neither joins nor an answer.             *)
LEMMA NewPoolKeeps ==
  ASSUME DecisionInv, place \in BeforeJoins,
         UNCHANGED <<ask, hyde, embedded, bridges, final, response>>,
         hits' = [hyde |-> hits.hyde, question |-> hits'.question],
         hits'.question \in Seq(Tables \cap InScope),
         pool' \in Seq(Cands), Descending(pool'), pruned' = Prune(pool', Limit),
         fallback' \in BOOLEAN, fallback' \/ pool' \in Seq(Scoped),
         \/ place' = "fk"
         \/ place' = "keyword" /\ fallback'
         \/ place' = "labels" /\ pruned' = <<>>
  PROVE  DecisionInv'
<1>1. bridges = {} /\ final = <<>>
  BY DEF DecisionInv, JoinsInv, AnswerInv, BeforeFinal
<1>2. RankingInv'
  BY DEF DecisionInv, RankingInv, DecisionPlaces, Limit
<1>3. JoinsInv'
  BY <1>1 DEF JoinsInv, WeakerSourcesFillGaps
<1>4. AnswerInv'
  <2>1. final' \in Seq(ToSet(pool'))
    BY <1>1
  <2>2. ASSUME Chosen'
        PROVE  \E s \in Finals(pool', pruned', bridges', Limit') : final' = CutFinal(s, ask'.limit)
    <3>1. pruned' = <<>>
      BY <2>2 DEF Chosen
    <3>2. <<>> \in Finals(pool', pruned', bridges', Limit')
      BY <3>1 DEF Finals
    <3>3. CutFinal(<<>>, ask.limit) = <<>>
      <4>1. <<>> \in Seq({}) /\ ask.limit \in Nat
        BY DEF DecisionInv, IsAsk
      <4>2. CutFinal(<<>>, ask.limit) \in Seq({})
        BY <4>1, CutFinalKeeps
      <4> QED
        BY <4>2, EntriesOf
    <3> QED
      BY <1>1, <3>2, <3>3
  <2>3. place' # "answered"
    OBVIOUS
  <2> QED
    BY <1>1, <2>1, <2>2, <2>3 DEF DecisionInv, AnswerInv
<1> QED
  BY <1>2, <1>3, <1>4 DEF DecisionInv

LEMMA SearchQuestionKeeps ==
  ASSUME DecisionInv, live \in SUBSET Tables, SearchQuestion
  PROVE  DecisionInv'
<1>1. PICK listed \in Searches(ask.sim.question) :
         /\ hits' = [hits EXCEPT !.question = listed]
         /\ pool' = Merge(hits.hyde, listed, ask.sim, Key, Limit)
  BY DEF SearchQuestion
<1>2. listed \in Seq(Tables \cap InScope)
  BY SearchesStayInScope DEF DecisionInv, IsAsk
<1>3. hits' = [hyde |-> hits.hyde, question |-> listed] /\ hits.hyde \in Seq(Tables \cap InScope)
  BY <1>1 DEF DecisionInv, RankingInv
<1>4. Limit \in Nat /\ IsAsk(ask)
  BY ScoresAreNumbers DEF DecisionInv, IsAsk, Limit
<1>5. pool' \in Seq(Scoped) /\ Descending(pool')
  BY <1>1, <1>2, <1>3, <1>4, MergeRanks
<1>6. pool' \in Seq(Cands)
  <2>1. Len(pool') \in Nat /\ pool' \in [1..Len(pool') -> Cands]
    BY <1>5, EntriesOf DEF Scoped
  <2> QED
    BY <2>1, FunctionIsSeq
<1>7. /\ UNCHANGED <<ask, hyde, embedded, bridges, final, response>>
      /\ pruned' = Prune(pool', Limit) /\ fallback' = (pruned' = <<>>)
      /\ place = "search_question" /\ place' = (IF pruned' = <<>> THEN "keyword" ELSE "fk")
  BY DEF SearchQuestion, Goes
<1>8. place \in BeforeJoins /\ fallback' \in BOOLEAN
  BY <1>7 DEF BeforeJoins
<1>9. place' = "fk" \/ (place' = "keyword" /\ fallback')
  BY <1>7
<1>10. hits' = [hyde |-> hits.hyde, question |-> hits'.question]
       /\ hits'.question \in Seq(Tables \cap InScope)
  BY <1>2, <1>3
<1> QED
  BY <1>5, <1>6, <1>7, <1>8, <1>9, <1>10, NewPoolKeeps

LEMMA SearchKeywordsKeeps ==
  ASSUME DecisionInv, live \in SUBSET Tables, SearchKeywords
  PROVE  DecisionInv'
<1>1. pool' = KeywordPool
  BY DEF SearchKeywords, KeywordPool
<1>2. pool' \in Seq(Cands) /\ Descending(pool')
  BY <1>1, KeywordsRank DEF DecisionInv
<1>3. /\ UNCHANGED <<ask, hyde, embedded, hits, fallback, bridges, final, response>>
      /\ pruned' = Prune(pool', Limit)
      /\ place = "keyword" /\ place' = (IF pruned' = <<>> THEN "labels" ELSE "fk")
  BY DEF SearchKeywords, Goes
<1>4. /\ place \in BeforeJoins /\ fallback = TRUE
      /\ hits = [hyde |-> hits.hyde, question |-> hits.question]
      /\ hits.question \in Seq(Tables \cap InScope)
  BY <1>3 DEF BeforeJoins, DecisionInv, RankingInv
<1>5. /\ hits' = [hyde |-> hits.hyde, question |-> hits'.question]
      /\ hits'.question \in Seq(Tables \cap InScope)
      /\ fallback' \in BOOLEAN /\ (fallback' \/ pool' \in Seq(Scoped))
  BY <1>3, <1>4
<1>6. place' = "fk" \/ (place' = "labels" /\ pruned' = <<>>)
  BY <1>3
<1> QED
  BY <1>2, <1>3, <1>4, <1>5, <1>6, NewPoolKeeps

(* A source of joins answers.                                              *)
LEMMA JoinedKeeps ==
  ASSUME DecisionInv, place \in {"fk", "ontology", "convention"},
         UNCHANGED <<ask, hyde, embedded, hits, pool, pruned, fallback, response>>,
         \A b \in bridges' : /\ b \in ask.edges /\ {b.from, b.to} \subseteq Keys(pool)
                             /\ b.via \in {"fk", "ontology", "convention"}
                             /\ b.via # "fk" => b.from # b.to,
         WeakerSourcesFillGaps',
         \/ place' = "ontology" /\ final' = final /\ \A b \in bridges' : b.via = "fk"
         \/ place' = "convention" /\ final' = final /\ \A b \in bridges' : b.via # "convention"
         \/ Choose(bridges')
  PROVE  DecisionInv'
<1>1. Limit \in Nat /\ Limit' = Limit /\ ask.limit \in Nat
  BY ScoresAreNumbers DEF DecisionInv, IsAsk, Limit
<1>2. place' \in {"ontology", "convention", "labels"}
  BY DEF Choose, Goes
<1>3. RankingInv'
  BY <1>2, RankingSame DEF DecisionInv, RankingInv, DecisionPlaces
<1>4. JoinsInv'
  BY <1>2 DEF JoinsInv, BeforeJoins, Choose, Goes
<1>5. AnswerInv'
  <2>1. CASE place' \in {"ontology", "convention"}
    <3>1. final' = final /\ final = <<>>
      BY <2>1 DEF Choose, Goes, DecisionInv, AnswerInv, BeforeFinal, BeforeJoins
    <3> QED
      BY <2>1, <3>1 DEF DecisionInv, AnswerInv, Chosen
  <2>2. CASE place' = "labels"
    <3>1. PICK s \in Finals(pool, pruned, bridges', Limit) : final' = CutFinal(s, ask.limit)
      BY <2>2 DEF Choose
    <3>2. s \in Seq(ToSet(pool))
      BY <1>1, <3>1, FinalsAreOfPool DEF DecisionInv, RankingInv
    <3>3. final' \in Seq(ToSet(pool))
      BY <1>1, <3>1, <3>2, CutFinalKeeps
    <3> QED
      BY <1>1, <2>2, <3>1, <3>3 DEF DecisionInv, AnswerInv, BeforeFinal, BeforeJoins
  <2> QED
    BY <1>2, <2>1, <2>2
<1> QED
  BY <1>3, <1>4, <1>5 DEF DecisionInv

(* The rows of each source are edges between the tables it was asked for.  *)
LEMMA RowsAreEdges ==
  ASSUME NEW edges, NEW keys \in SUBSET Nat
  PROVE  /\ \A b \in FkRows(edges, keys) :
              b \in edges /\ b.via = "fk" /\ b.from \in keys /\ b.to \in keys
         /\ \A R \in OntologyRows(edges, keys) : \A b \in R :
              /\ b \in edges /\ b.via = "ontology" /\ b.from \in keys /\ b.to \in keys
              /\ b.from # b.to
         /\ \A R \in ConventionRows(edges, keys) : \A b \in R :
              /\ b \in edges /\ b.via = "convention" /\ b.from \in keys /\ b.to \in keys
              /\ b.from # b.to
<1>1. \A via : \A b \in Within(edges, keys, via) :
        b \in edges /\ b.via = via /\ b.from \in keys /\ b.to \in keys
  BY DEF Within
<1>2. \A m, n \in keys : m < n => m # n
  OBVIOUS
<1>3. \A rows : \A R \in AnyRows(rows) : R \subseteq rows
  BY DEF AnyRows
<1>4. \A b \in FkRows(edges, keys) : b \in Within(edges, keys, "fk")
  BY DEF FkRows
<1>5. \A R \in OntologyRows(edges, keys) : \A b \in R :
        b \in Within(edges, keys, "ontology") /\ b.from < b.to
  BY <1>3 DEF OntologyRows
<1>6. \A R \in ConventionRows(edges, keys) : \A b \in R :
        b \in Within(edges, keys, "convention") /\ b.from < b.to
  BY <1>3 DEF ConventionRows
<1> QED
  BY <1>1, <1>2, <1>4, <1>5, <1>6

LEMMA JoinFkKeeps == ASSUME DecisionInv, JoinFk PROVE DecisionInv'
<1>1. Keys(pool) \in SUBSET Nat
  BY KeysAreFinite DEF DecisionInv, RankingInv
<1>2. \A b \in bridges' :
        b \in ask.edges /\ b.via = "fk" /\ b.from \in Keys(pool) /\ b.to \in Keys(pool)
  BY <1>1, RowsAreEdges DEF JoinFk
<1>3. WeakerSourcesFillGaps'
  BY <1>2 DEF WeakerSourcesFillGaps
<1>4. /\ place = "fk"
      /\ UNCHANGED <<ask, hyde, embedded, hits, pool, pruned, fallback, response>>
      /\ \/ place' = "ontology" /\ final' = final
         \/ place' = "convention" /\ final' = final
         \/ Choose(bridges')
  BY DEF JoinFk, AfterOntology, Goes
<1> QED
  BY <1>2, <1>3, <1>4, JoinedKeeps

LEMMA JoinByOntologyKeeps == ASSUME DecisionInv, JoinByOntology PROVE DecisionInv'
<1>1. Keys(pool) \in SUBSET Nat /\ IsFiniteSet(Keys(pool)) /\ OntologyKeys \subseteq Keys(pool)
  BY KeysAreFinite DEF DecisionInv, RankingInv, OntologyKeys, Isolated
<1>2. PICK rows \in OntologyRows(ask.edges, OntologyKeys) : bridges' = bridges \cup rows
  BY DEF JoinByOntology
<1>3. \A b \in rows : /\ b \in ask.edges /\ b.via = "ontology" /\ b.from # b.to
                      /\ b.from \in OntologyKeys /\ b.to \in OntologyKeys
  BY <1>1, RowsAreEdges
<1>4. /\ place = "ontology"
      /\ UNCHANGED <<ask, hyde, embedded, hits, pool, pruned, fallback, response>>
      /\ \/ place' = "convention" /\ final' = final
         \/ Choose(bridges')
  BY DEF JoinByOntology, AfterOntology, Goes
<1>5. \A b \in bridges : /\ b \in ask.edges /\ {b.from, b.to} \subseteq Keys(pool)
                         /\ b.via = "fk"
  BY <1>4 DEF DecisionInv, JoinsInv
<1>6. \A b \in bridges' : /\ b \in ask.edges /\ {b.from, b.to} \subseteq Keys(pool)
                          /\ b.via \in {"fk", "ontology"}
                          /\ b.via # "fk" => b.from # b.to
  BY <1>1, <1>2, <1>3, <1>5
<1>7. \A b \in bridges, c \in rows : b.from # b.to => {b.from, b.to} \cap {c.from, c.to} = {}
  BY <1>1, <1>3, <1>5, IsolatedIsUntouched DEF OntologyKeys
<1>8. WeakerSourcesFillGaps'
  <2> SUFFICES ASSUME NEW b \in bridges', NEW c \in bridges',
                      \/ b.via = "fk" /\ c.via # "fk" /\ b.from # b.to
                      \/ b.via = "ontology" /\ c.via = "convention"
               PROVE  {b.from, b.to} \cap {c.from, c.to} = {}
    BY DEF WeakerSourcesFillGaps
  <2>1. b.via = "fk" /\ c.via # "fk" /\ b.from # b.to
    BY <1>6
  <2>2. b \in bridges /\ c \in rows
    BY <1>2, <1>3, <1>5, <2>1
  <2> QED
    BY <1>7, <2>1, <2>2
<1> QED
  BY <1>4, <1>6, <1>8, JoinedKeeps

LEMMA JoinByConventionKeeps == ASSUME DecisionInv, JoinByConvention PROVE DecisionInv'
<1>1. Keys(pool) \in SUBSET Nat /\ IsFiniteSet(Keys(pool)) /\ ConventionKeys \subseteq Keys(pool)
  BY KeysAreFinite DEF DecisionInv, RankingInv, ConventionKeys, Isolated
<1>2. PICK rows \in ConventionRows(ask.edges, ConventionKeys) : bridges' = bridges \cup rows
  BY DEF JoinByConvention
<1>3. \A b \in rows : /\ b \in ask.edges /\ b.via = "convention" /\ b.from # b.to
                      /\ b.from \in ConventionKeys /\ b.to \in ConventionKeys
  BY <1>1, RowsAreEdges
<1>4. /\ place = "convention" /\ Choose(bridges')
      /\ UNCHANGED <<ask, hyde, embedded, hits, pool, pruned, fallback, response>>
  BY DEF JoinByConvention
<1>5. \A b \in bridges : /\ b \in ask.edges /\ {b.from, b.to} \subseteq Keys(pool)
                         /\ b.via \in {"fk", "ontology"}
                         /\ b.via # "fk" => b.from # b.to
  BY <1>4 DEF DecisionInv, JoinsInv
<1>6. \A b \in bridges' : /\ b \in ask.edges /\ {b.from, b.to} \subseteq Keys(pool)
                          /\ b.via \in {"fk", "ontology", "convention"}
                          /\ b.via # "fk" => b.from # b.to
  BY <1>1, <1>2, <1>3, <1>5
<1>7. \A b \in bridges, c \in rows : b.from # b.to => {b.from, b.to} \cap {c.from, c.to} = {}
  BY <1>1, <1>3, <1>5, IsolatedIsUntouched DEF ConventionKeys
<1>8. WeakerSourcesFillGaps'
  <2> SUFFICES ASSUME NEW b \in bridges', NEW c \in bridges',
                      \/ b.via = "fk" /\ c.via # "fk" /\ b.from # b.to
                      \/ b.via = "ontology" /\ c.via = "convention"
               PROVE  {b.from, b.to} \cap {c.from, c.to} = {}
    BY DEF WeakerSourcesFillGaps
  <2>1. b.from # b.to /\ b.via # "convention"
    BY <1>6
  <2>2. b \in bridges
    BY <1>2, <1>3, <2>1
  <2>3. CASE c \in rows
    BY <1>7, <2>1, <2>2, <2>3
  <2>4. CASE c \in bridges
    BY <2>2, <2>4 DEF DecisionInv, JoinsInv, WeakerSourcesFillGaps
  <2> QED
    BY <1>2, <2>3, <2>4
<1> QED
  BY <1>4, <1>6, <1>8, JoinedKeeps

(* The answer is put together from what was chosen.                        *)
LEMMA LastStepsKeep ==
  ASSUME DecisionInv, ReadLabels \/ Respond
  PROVE  DecisionInv'
<1>1. /\ UNCHANGED <<ask, hyde, embedded, hits, pool, pruned, fallback, bridges, final>>
      /\ Chosen /\ place' \in {"columns", "answered"}
  BY DEF ReadLabels, Respond, Goes, Chosen
<1>2. RankingInv'
  BY <1>1, RankingSame DEF DecisionInv, RankingInv, DecisionPlaces
<1>3. JoinsInv'
  BY <1>1, JoinsSame DEF DecisionInv, BeforeJoins
<1>4. response = [target |-> response.target, secondary |-> response.secondary,
                  groups |-> response.groups, labels |-> response.labels,
                  matched |-> response.matched]
  BY DEF DecisionInv, AnswerInv
<1>5. /\ response' = [target |-> response'.target, secondary |-> response'.secondary,
                      groups |-> response'.groups, labels |-> response'.labels,
                      matched |-> response'.matched]
      /\ place' = "answered" => response'.groups = JoinGroups(final, Keys(pool), bridges)
  <2>1. CASE ReadLabels
    <3>1. PICK labels : response' = [response EXCEPT !.labels = labels]
      BY <2>1 DEF ReadLabels
    <3>2. place' = "columns"
      BY <2>1 DEF ReadLabels, Goes
    <3> QED
      BY <1>4, <3>1, <3>2
  <2>2. CASE Respond
    <3> DEFINE target == Target(final, Area)
               secondary == Secondary(final, Area)
               groups == JoinGroups(final, Keys(pool), bridges)
               matched == {final[i].table : i \in {j \in DOMAIN final :
                             \E t \in WithColumns : Key[t] = final[j].key}}
    <3>1. response' = [response EXCEPT !.matched = matched, !.target = target,
                                       !.secondary = secondary, !.groups = groups]
      BY <2>2 DEF Respond
    <3> HIDE DEF target, secondary, groups, matched
    <3>2. response' = [target |-> target, secondary |-> secondary, groups |-> groups,
                       labels |-> response.labels, matched |-> matched]
      BY <1>4, <3>1
    <3>3. response'.groups = groups
      BY <3>2
    <3> QED
      BY <3>2, <3>3 DEF groups
  <2> QED
    BY <2>1, <2>2
<1>6. AnswerInv'
  BY <1>1, <1>5 DEF DecisionInv, AnswerInv, Chosen, BeforeFinal, BeforeJoins, Limit
<1> QED
  BY <1>1, <1>2, <1>3, <1>6 DEF DecisionInv

LEMMA DecisionStepKeeps ==
  ASSUME DecisionInv, live \in SUBSET Tables, DecisionNext
  PROVE  DecisionInv'
  BY EarlyStepsKeep, SearchHydeKeeps, SearchQuestionKeeps, SearchKeywordsKeeps, JoinFkKeeps,
     JoinByOntologyKeeps, JoinByConventionKeeps, LastStepsKeep DEF DecisionNext

----------------------------------------------------------------------------
(* The entities.                                                           *)

AtMostOne(S) == \A x, y \in S : x = y

LEMMA AtMostOneCounts ==
  ASSUME NEW S, IsFiniteSet(S)
  PROVE  /\ AtMostOne(S) <=> Cardinality(S) <= 1
         /\ Cardinality(S) \in Nat /\ (S = {} <=> Cardinality(S) = 0)
<1>1. Cardinality(S) \in Nat /\ (S = {} <=> Cardinality(S) = 0)
  BY FS_CardinalityType, FS_EmptySet
<1>2. ASSUME AtMostOne(S), S # {} PROVE Cardinality(S) = 1
  <2>1. PICK x \in S : TRUE
    BY <1>2
  <2>2. S = {x}
    BY <1>2, <2>1 DEF AtMostOne
  <2>3. Cardinality({x}) = 1
    BY FS_Singleton
  <2> QED
    BY <2>2, <2>3
<1>3. ASSUME ~AtMostOne(S) PROVE Cardinality(S) >= 2
  <2>1. PICK x \in S, y \in S : x # y
    BY <1>3 DEF AtMostOne
  <2>2. Cardinality({x, y}) = 2 /\ {x, y} \in SUBSET S
    BY <2>1, TwoAreTwo
  <2>3. Cardinality({x, y}) <= Cardinality(S)
    BY <2>2, FS_Subset
  <2> QED
    BY <1>1, <2>2, <2>3
<1> QED
  BY <1>1, <1>2, <1>3

(* What a LIMIT leaves: something of what there is, and of two at least    *)
(* two.                                                                    *)
LEMMA SubsetsCut ==
  ASSUME NEW S, IsFiniteSet(S), NEW n \in Nat \ {0, 1}
  PROVE  \A T \in Subsets(S, n) :
           /\ T \subseteq S /\ IsFiniteSet(T) /\ Cardinality(T) <= n
           /\ T = {} <=> S = {}
           /\ AtMostOne(T) => T = S
<1> SUFFICES ASSUME NEW T \in Subsets(S, n)
             PROVE  /\ T \subseteq S /\ IsFiniteSet(T) /\ Cardinality(T) <= n
                    /\ T = {} <=> S = {}
                    /\ AtMostOne(T) => T = S
  OBVIOUS
<1>1. /\ T \in SUBSET S
      /\ Cardinality(T) = IF Cardinality(S) < n THEN Cardinality(S) ELSE n
  BY DEF Subsets
<1>2. IsFiniteSet(T) /\ (Cardinality(S) = Cardinality(T) => S = T)
  BY <1>1, FS_Subset
<1>3. /\ Cardinality(S) \in Nat /\ (S = {} <=> Cardinality(S) = 0)
  BY AtMostOneCounts
<1>4. /\ Cardinality(T) \in Nat /\ (T = {} <=> Cardinality(T) = 0)
      /\ AtMostOne(T) <=> Cardinality(T) <= 1
  BY <1>2, AtMostOneCounts
<1>5. AtMostOne(T) => Cardinality(T) = Cardinality(S)
  BY <1>1, <1>3, <1>4
<1> QED
  BY <1>1, <1>2, <1>3, <1>4, <1>5

LEMMA LowestCut ==
  ASSUME NEW S, IsFiniteSet(S), NEW n \in Nat \ {0, 1}
  PROVE  \A T \in Lowest(S, n) :
           /\ T \subseteq S /\ IsFiniteSet(T) /\ Cardinality(T) <= n
           /\ T = {} <=> S = {}
           /\ AtMostOne(T) => T = S
  BY SubsetsCut DEF Lowest

LEMMA ImageOfFinite ==
  ASSUME NEW S, IsFiniteSet(S), NEW T, NEW f \in [S -> T], \A y \in T : \E x \in S : f[x] = y
  PROVE  IsFiniteSet(T) /\ Cardinality(T) <= Cardinality(S)
<1>1. f \in Surjection(S, T)
  BY DEF Surjection
<1> QED
  BY <1>1, FS_Surjection

LEMMA CodeValuesCounted ==
  ASSUME NEW rows, IsFiniteSet(rows)
  PROVE  /\ IsFiniteSet(CodeValues(rows))
         /\ Cardinality(CodeValues(rows)) <= Cardinality(rows)
         /\ CodeValues(rows) = {} <=> rows = {}
<1> DEFINE T == CodeValues(rows)
           f == [r \in rows |-> [code |-> r.code, text |-> r.text]]
<1>1. f \in [rows -> T] /\ \A y \in T : \E x \in rows : f[x] = y
  BY DEF CodeValues
<1>2. CodeValues(rows) = {} <=> rows = {}
  BY DEF CodeValues
<1> HIDE DEF T, f
<1> QED
  BY <1>1, <1>2, ImageOfFinite DEF T

TellApart(rows) == \A r, s \in rows : r.code = s.code /\ r.text = s.text => r = s

(* Rows that code and label tell apart: a single one of these, a single    *)
(* row.                                                                    *)
LEMMA CodeValuesTellApart ==
  ASSUME NEW rows, AtMostOne(CodeValues(rows)), TellApart(rows)
  PROVE  AtMostOne(rows)
<1> SUFFICES ASSUME NEW r \in rows, NEW s \in rows PROVE r = s
  BY DEF AtMostOne
<1>1. [code |-> r.code, text |-> r.text] = [code |-> s.code, text |-> s.text]
  BY DEF AtMostOne, CodeValues
<1>2. r.code = s.code /\ r.text = s.text
  BY <1>1
<1> QED
  BY <1>2 DEF TellApart

(* The labels a probe finds are labels of rows that match; when it finds   *)
(* one label of rows without blanks, there is no other.                    *)
LEMMA ProbeFinds ==
  ASSUME IsEntity(entity), NEW p, NEW texts \in ProbeValues(p)
  PROVE  /\ texts \subseteq {r.text : r \in Matching(p)}
         /\ texts = {} <=> Matching(p) = {}
         /\ Plain(p) /\ AtMostOne(texts) => \A r \in Matching(p) : r.text \in texts
<1> DEFINE M == Matching(p)
           S == {<<r.text, r.padded>> : r \in M}
           f == [r \in M |-> <<r.text, r.padded>>]
<1>1. M \in SUBSET entity.rows /\ IsFiniteSet(entity.rows)
  BY DEF Matching, IsEntity
<1>2. f \in [M -> S] /\ \A y \in S : \E x \in M : f[x] = y
  OBVIOUS
<1>3. PICK V \in Subsets(S, ValueLimit) : texts = {v[1] : v \in V}
  BY DEF ProbeValues
<1> HIDE DEF M, f
<1>4. IsFiniteSet(M)
  BY <1>1, FS_Subset
<1>5. IsFiniteSet(S)
  <2> HIDE DEF S
  <2> QED
    BY <1>2, <1>4, ImageOfFinite
<1>6. V \subseteq S /\ (V = {} <=> S = {}) /\ (AtMostOne(V) => V = S)
  <2>1. ValueLimit \in Nat \ {0, 1}
    BY ResolutionAssumption
  <2> HIDE DEF S
  <2> QED
    BY <1>3, <1>5, <2>1, SubsetsCut
<1>7. \A v \in S : \E r \in M : v = <<r.text, r.padded>> /\ v[1] = r.text
  OBVIOUS
<1>8. texts \subseteq {r.text : r \in M} /\ (texts = {} <=> M = {})
  <2>1. texts = {} <=> V = {}
    BY <1>3
  <2>2. S = {} <=> M = {}
    OBVIOUS
  <2> HIDE DEF S
  <2>3. \A t \in texts : \E r \in M : t = r.text
    BY <1>3, <1>6, <1>7
  <2> QED
    BY <1>6, <2>1, <2>2, <2>3
<1>9. ASSUME Plain(p), AtMostOne(texts) PROVE \A r \in M : r.text \in texts
  <2>0. \A r \in M : ~r.padded
    BY <1>9 DEF Plain, M
  <2>1. \A v \in V : \E r \in M : v = <<r.text, r.padded>> /\ ~r.padded
    BY <1>6, <1>7, <2>0
  <2>2. AtMostOne(V)
    <3> SUFFICES ASSUME NEW v \in V, NEW w \in V PROVE v = w
      BY DEF AtMostOne
    <3>1. v[1] = w[1]
      BY <1>3, <1>9 DEF AtMostOne
    <3>2. PICK r \in M : v = <<r.text, r.padded>> /\ ~r.padded
      BY <2>1
    <3>3. PICK s \in M : w = <<s.text, s.padded>> /\ ~s.padded
      BY <2>1
    <3>4. r.padded \in BOOLEAN /\ s.padded \in BOOLEAN
      BY <1>1 DEF IsEntity
    <3>5. r.text = s.text /\ r.padded = s.padded
      BY <3>1, <3>2, <3>3, <3>4
    <3> QED
      BY <3>2, <3>3, <3>5
  <2>3. \A r \in M : <<r.text, r.padded>> \in V
    BY <1>6, <2>2
  <2>4. \A r \in M : <<r.text, r.padded>>[1] = r.text
    OBVIOUS
  <2> QED
    BY <1>3, <2>3, <2>4
<1> QED
  BY <1>8, <1>9 DEF M

(* What is given for the pair is all there is.                             *)
Sound(p) ==
  \A e \in resolved : e.mention = p.mention /\ e.column = p.column =>
    e.values = CodeValues(Matching(p)) /\ Cardinality(e.values) = 1

(* A pair that matches is found and looked up unless a query of its own    *)
(* failed; and as long as nothing is suggested, what was looked up is      *)
(* sound.                                                                  *)
EntityInv ==
  /\ IsEntity(entity)
  /\ stage \in Stages /\ status \in {"none", "skipped", "failed", "partial", "complete"}
  /\ status = "complete" => stage = "done"
  /\ stage \in {"idle", "pool"} => found = <<>>
  /\ pairs \in Seq(ToSet(Pairs))
  /\ stage = "lookup" => ToSet(pairs) \subseteq DOMAIN found
  /\ \A p \in DOMAIN found :
       /\ found[p] # {} /\ found[p] \subseteq {r.text : r \in Matching(p)}
       /\ Plain(p) /\ AtMostOne(found[p]) => \A r \in Matching(p) : r.text \in found[p]
  /\ \A e \in resolved : e.values # {} /\ Cardinality(e.values) <= MaxValues
  /\ \A p \in ToSet(Pairs) : Matching(p) # {} =>
       /\ stage = "probing" => p \in ToSet(pairs) \cup DOMAIN found \cup swallowed
       /\ stage = "lookup" => p \in ToSet(pairs) \cup swallowed \/ Answers(p) # {}
  /\ suggested = {} => \A p \in ToSet(Pairs) : Plain(p) => Sound(p)
  /\ CompleteIsExact

LEMMA EntityInvImplies == ASSUME EntityInv PROVE EntityTypeOK /\ CompleteIsExact
<1>1. ASSUME NEW p \in DOMAIN found PROVE found[p] \subseteq Texts
  <2>1. \A r \in Matching(p) : r.text \in Texts
    BY DEF Matching, EntityInv, IsEntity
  <2> QED
    BY <2>1 DEF EntityInv
<1> QED
  BY <1>1 DEF EntityInv, EntityTypeOK

LEMMA EntityInvInit ==
  ASSUME NEW inputs, \A e \in inputs : IsEntity(e), EntityInit(inputs)
  PROVE  EntityInv
<1>1. /\ IsEntity(entity) /\ stage = "idle" /\ pairs = <<>> /\ found = <<>>
      /\ resolved = {} /\ suggested = {} /\ status = "none" /\ swallowed = {}
  BY DEF EntityInit
<1>2. DOMAIN found = {} /\ \A T : <<>> \in Seq(T)
  BY <1>1
<1>3. \A p : Sound(p)
  BY <1>1 DEF Sound
<1> QED
  BY <1>1, <1>2, <1>3 DEF EntityInv, Stages, CompleteIsExact

(* What depends on the inputs only stays.                                  *)
LEMMA InputsStay ==
  ASSUME entity' = entity
  PROVE  /\ Pairs' = Pairs /\ \A p : Matching(p)' = Matching(p)
         /\ \A p : Plain(p)' = Plain(p)
         /\ IsEntity(entity') = IsEntity(entity)
  BY DEF Pairs, Mentions, Matching, Plain

LEMMA AnswersStay ==
  ASSUME UNCHANGED <<entity, resolved>>
  PROVE  \A p : Answers(p)' = Answers(p) /\ Sound(p)' = Sound(p)
  BY DEF Answers, Sound, Matching, CodeValues

LEMMA EntityUntouched ==
  ASSUME EntityInv, UNCHANGED entityVars
  PROVE  EntityInv'
<1>1. UNCHANGED <<entity, stage, pairs, found, resolved, suggested, status, swallowed>>
  BY DEF entityVars
<1>2. /\ Pairs' = Pairs /\ \A p : Matching(p)' = Matching(p)
      /\ \A p : Plain(p)' = Plain(p)
      /\ \A p : Answers(p)' = Answers(p) /\ Sound(p)' = Sound(p)
  BY <1>1, InputsStay, AnswersStay
<1> QED
  BY <1>1, <1>2 DEF EntityInv, CompleteIsExact, CodeValues

LEMMA PairsAreSeq ==
  ASSUME IsEntity(entity)
  PROVE  Pairs \in Seq(ToSet(Pairs)) /\ Len(Pairs) \in Nat /\ DOMAIN Pairs = 1..Len(Pairs)
<1> DEFINE firsts == {i \in DOMAIN entity.words :
                        /\ entity.words[i] \notin StopWords
                        /\ \A j \in 1..(i - 1) : entity.words[j] # entity.words[i]}
           m == IF Cardinality(firsts) < MaxMentions THEN Cardinality(firsts) ELSE MaxMentions
           n == Len(entity.columns)
           N == Len(Mentions) * n
<1>1. IsFiniteSet(firsts)
  <2>1. Len(entity.words) \in Nat /\ DOMAIN entity.words = 1..Len(entity.words)
    BY EntriesOf DEF IsEntity
  <2>2. IsFiniteSet(DOMAIN entity.words) /\ firsts \in SUBSET DOMAIN entity.words
    BY <2>1, FS_Interval
  <2> HIDE DEF firsts
  <2> QED
    BY <2>2, FS_Subset
<1>2. m \in Nat
  <2> HIDE DEF firsts
  <2> QED
    BY <1>1, FS_CardinalityType, ResolutionAssumption
<1>3. Mentions = [i \in 1..m |-> entity.words[SortedBy(firsts, Rising(firsts))[i]]]
  BY DEF Mentions
<1> HIDE DEF m, firsts
<1>4. Mentions \in [1..m -> {Mentions[i] : i \in 1..m}]
  BY <1>3
<1>5. Len(Mentions) = m
  BY <1>2, <1>4, FunctionIsSeq
<1>6. n \in Nat
  BY EntriesOf DEF IsEntity
<1>7. N \in Nat
  BY <1>2, <1>5, <1>6
<1>8. Pairs = [i \in 1..N |-> [mention |-> Mentions[((i - 1) \div n) + 1],
                               column  |-> entity.columns[((i - 1) % n) + 1]]]
  BY DEF Pairs
<1> HIDE DEF N
<1>9. DOMAIN Pairs = 1..N /\ Pairs \in [1..N -> ToSet(Pairs)]
  BY <1>8 DEF ToSet
<1> QED
  BY <1>7, <1>9, FunctionIsSeq

(* The first pair is taken.                                                *)
LEMMA TakenPair ==
  ASSUME NEW T, NEW s \in Seq(T), s # <<>>
  PROVE  /\ Head(s) \in T /\ Head(s) \in ToSet(s) /\ Tail(s) \in Seq(T)
         /\ \A x \in ToSet(s) : x = Head(s) \/ x \in ToSet(Tail(s))
         /\ ToSet(Tail(s)) \subseteq ToSet(s)
<1>1. Len(s) \in Nat \ {0} /\ DOMAIN s = 1..Len(s) /\ Head(s) = s[1] /\ Head(s) \in T
  BY EntriesOf
<1>2. /\ Tail(s) \in Seq(T) /\ Len(Tail(s)) = Len(s) - 1
      /\ \A i \in 1..Len(Tail(s)) : Tail(s)[i] = s[i + 1]
  BY HeadTailProperties
<1>3. DOMAIN Tail(s) = 1..(Len(s) - 1)
  BY <1>2, EntriesOf
<1>4. \A i \in 1..Len(s) : i = 1 \/ (i - 1 \in 1..(Len(s) - 1) /\ (i - 1) + 1 = i)
  BY <1>1
<1>5. \A i \in 1..Len(s) : s[i] = Head(s) \/ \E j \in DOMAIN Tail(s) : Tail(s)[j] = s[i]
  BY <1>1, <1>2, <1>3, <1>4
<1>6. \A i \in 1..(Len(s) - 1) : i + 1 \in 1..Len(s)
  BY <1>1
<1>7. \A i \in DOMAIN Tail(s) : \E j \in DOMAIN s : s[j] = Tail(s)[i]
  BY <1>1, <1>2, <1>3, <1>6
<1>8. ToSet(s) = {s[i] : i \in DOMAIN s} /\ ToSet(Tail(s)) = {Tail(s)[i] : i \in DOMAIN Tail(s)}
  BY DEF ToSet
<1>9. Head(s) \in ToSet(s)
  BY <1>1, <1>8
<1>10. ASSUME NEW x \in ToSet(s) PROVE x = Head(s) \/ x \in ToSet(Tail(s))
  BY <1>1, <1>5, <1>8
<1>11. ToSet(Tail(s)) \subseteq ToSet(s)
  BY <1>7, <1>8
<1> QED
  BY <1>1, <1>2, <1>9, <1>10, <1>11

LEMMA FirstStagesKeep ==
  ASSUME EntityInv, Resolve \/ \E connected \in BOOLEAN : OpenPool(connected)
  PROVE  EntityInv'
<1>1. /\ UNCHANGED <<entity, found, resolved, suggested, swallowed>>
      /\ stage \in {"idle", "pool"} /\ stage' \in {"pool", "probing", "done"}
      /\ status' \in {"none", "skipped", "failed", "partial", "complete"}
      /\ status' # "complete"
      /\ pairs' = pairs \/ pairs' = Pairs
      /\ stage' = "probing" => pairs' = Pairs
  BY DEF Resolve, OpenPool, Ends, EntityInv
<1>2. /\ Pairs' = Pairs /\ (\A p : Matching(p)' = Matching(p))
      /\ \A p : Plain(p)' = Plain(p)
      /\ \A p : Answers(p)' = Answers(p) /\ Sound(p)' = Sound(p)
  BY <1>1, InputsStay, AnswersStay
<1>3. pairs' \in Seq(ToSet(Pairs))
  BY <1>1, PairsAreSeq DEF EntityInv
<1> QED
  BY <1>1, <1>2, <1>3 DEF EntityInv, CompleteIsExact, Stages

LEMMA ProbeKeeps == ASSUME EntityInv, Probe PROVE EntityInv'
<1> DEFINE p == Head(pairs)
<1>1. /\ UNCHANGED <<entity, stage, resolved, suggested, status>>
      /\ stage = "probing" /\ pairs # <<>> /\ pairs' = Tail(pairs)
  BY DEF Probe
<1>2. /\ Pairs' = Pairs /\ (\A q : Matching(q)' = Matching(q))
      /\ \A q : Plain(q)' = Plain(q)
      /\ \A q : Answers(q)' = Answers(q) /\ Sound(q)' = Sound(q)
  BY <1>1, InputsStay, AnswersStay
<1>3. pairs \in Seq(ToSet(Pairs)) /\ IsEntity(entity) /\ status # "complete"
  BY <1>1 DEF EntityInv
<1>4. /\ p \in ToSet(pairs) /\ pairs' \in Seq(ToSet(Pairs))
      /\ \A q \in ToSet(pairs) : q = p \/ q \in ToSet(pairs')
  BY <1>1, <1>3, TakenPair
<1> HIDE DEF p
<1>5. CASE swallowed' = swallowed \cup {p} /\ UNCHANGED found
  <2>1. \A q \in ToSet(Pairs) : Matching(q) # {} =>
          q \in ToSet(pairs') \cup DOMAIN found' \cup swallowed'
    BY <1>1, <1>4, <1>5 DEF EntityInv
  <2> QED
    BY <1>1, <1>2, <1>3, <1>4, <1>5, <2>1 DEF EntityInv, CompleteIsExact, Stages
<1>6. ASSUME NEW texts \in ProbeValues(p), swallowed' = swallowed,
             found' = IF texts = {} THEN found
                      ELSE [q \in DOMAIN found \cup {p} |-> IF q = p THEN texts ELSE found[q]]
      PROVE  EntityInv'
  <2>1. /\ texts \subseteq {r.text : r \in Matching(p)}
        /\ texts = {} <=> Matching(p) = {}
        /\ Plain(p) /\ AtMostOne(texts) => \A r \in Matching(p) : r.text \in texts
    BY <1>3, ProbeFinds
  <2>2. /\ DOMAIN found \subseteq DOMAIN found' /\ (texts # {} => p \in DOMAIN found')
        /\ \A q \in DOMAIN found' :
             \/ q \in DOMAIN found /\ found'[q] = found[q]
             \/ q = p /\ texts # {} /\ found'[q] = texts
    <3>1. CASE texts = {}
      BY <1>6, <3>1
    <3>2. CASE texts # {}
      <4>1. found' = [q \in DOMAIN found \cup {p} |-> IF q = p THEN texts ELSE found[q]]
        BY <1>6, <3>2
      <4> QED
        BY <3>2, <4>1
    <3> QED
      BY <3>1, <3>2
  <2>3. \A q \in DOMAIN found' :
          /\ found'[q] # {} /\ found'[q] \subseteq {r.text : r \in Matching(q)}
          /\ Plain(q) /\ AtMostOne(found'[q]) => \A r \in Matching(q) : r.text \in found'[q]
    BY <2>1, <2>2 DEF EntityInv
  <2>4. \A q \in ToSet(Pairs) : Matching(q) # {} =>
          q \in ToSet(pairs') \cup DOMAIN found' \cup swallowed
    BY <1>1, <1>4, <2>1, <2>2 DEF EntityInv
  <2> QED
    BY <1>1, <1>2, <1>3, <1>4, <1>6, <2>3, <2>4 DEF EntityInv, CompleteIsExact, Stages
<1> QED
  BY <1>5, <1>6 DEF Probe, p

LEMMA ProbesDoneKeeps == ASSUME EntityInv, ProbesDone PROVE EntityInv'
<1>1. /\ UNCHANGED <<entity, found, resolved, suggested, status, swallowed>>
      /\ stage = "probing" /\ pairs = <<>> /\ stage' = "lookup"
      /\ pairs' = Filtered(Pairs, DOMAIN found)
  BY DEF ProbesDone
<1>2. /\ Pairs' = Pairs /\ (\A q : Matching(q)' = Matching(q))
      /\ \A q : Plain(q)' = Plain(q)
      /\ \A q : Answers(q)' = Answers(q) /\ Sound(q)' = Sound(q)
  BY <1>1, InputsStay, AnswersStay
<1>3. /\ pairs' \in Seq(ToSet(Pairs)) /\ ToSet(pairs') \subseteq DOMAIN found
      /\ \A q \in ToSet(Pairs) : q \in DOMAIN found => q \in ToSet(pairs')
  <2>1. /\ pairs' \in Seq(ToSet(Pairs) \cap DOMAIN found)
        /\ \A q \in ToSet(Pairs) : q \in DOMAIN found => q \in ToSet(pairs')
    BY <1>1, PairsAreSeq, FilteredIsIn DEF EntityInv
  <2> QED
    BY <2>1, EntriesOf DEF ToSet
<1>4. /\ ToSet(pairs) = {} /\ status # "complete"
      /\ \A q \in ToSet(Pairs) : Matching(q) # {} => q \in ToSet(pairs') \cup swallowed
  <2>1. ToSet(pairs) = {} /\ status # "complete"
    BY <1>1 DEF ToSet, EntityInv
  <2> QED
    BY <1>1, <1>3, <2>1 DEF EntityInv
<1> QED
  BY <1>1, <1>2, <1>3, <1>4 DEF EntityInv, CompleteIsExact, Stages

(* What is appended is not empty and within the cut; a single code and     *)
(* label stands for a single row, which is then all there was.             *)
LEMMA AppendResolutionGives ==
  ASSUME NEW p, NEW rows, rows # {}, IsFiniteSet(rows), AppendResolution(p, rows)
  PROVE  \E values :
           /\ values # {} /\ Cardinality(values) <= MaxValues
           /\ resolved' = resolved \cup {[mention |-> p.mention, column |-> p.column,
                                           values |-> values]}
           /\ suggested \subseteq suggested'
           /\ suggested' = {} /\ TellApart(rows) =>
                /\ AtMostOne(rows) /\ values = CodeValues(rows)
                /\ Cardinality(values) = 1
<1>1. PICK first \in Lowest(rows, MaxValues) :
        /\ resolved' = resolved \cup {[mention |-> p.mention, column |-> p.column,
                                        values |-> CodeValues(first)]}
        /\ suggested' = IF Ambiguous(CodeValues(first)) THEN suggested \cup {p} ELSE suggested
  BY DEF AppendResolution
<1>2. MaxValues \in Nat \ {0, 1}
  BY ResolutionAssumption
<1>3. /\ first \subseteq rows /\ IsFiniteSet(first) /\ Cardinality(first) <= MaxValues
      /\ first # {} /\ (AtMostOne(first) => first = rows)
  BY <1>1, <1>2, LowestCut
<1> DEFINE values == CodeValues(first)
<1>4. /\ IsFiniteSet(values) /\ Cardinality(values) <= Cardinality(first) /\ values # {}
      /\ Cardinality(values) \in Nat /\ Cardinality(first) \in Nat
  BY <1>3, CodeValuesCounted, FS_CardinalityType
<1>5. Cardinality(values) <= MaxValues
  BY <1>2, <1>3, <1>4
<1>6. ASSUME suggested' = {}, TellApart(rows)
      PROVE  AtMostOne(rows) /\ first = rows /\ Cardinality(values) = 1
  <2>1. ~Ambiguous(values)
    BY <1>1, <1>6
  <2>2. AtMostOne(values) /\ Cardinality(values) = 1
    BY <1>4, <2>1, AtMostOneCounts DEF Ambiguous
  <2>3. TellApart(first)
    BY <1>3, <1>6 DEF TellApart
  <2>4. AtMostOne(first)
    BY <2>2, <2>3, CodeValuesTellApart
  <2> QED
    BY <1>3, <2>2, <2>4
<1> HIDE DEF values
<1>7. suggested \subseteq suggested'
  BY <1>1
<1> QED
  BY <1>1, <1>4, <1>5, <1>6, <1>7 DEF values

(* What was sound is sound still; the pair looked up is, unless something  *)
(* is suggested.                                                           *)
LEMMA LookUpKeeps == ASSUME EntityInv, LookUp PROVE EntityInv'
<1>0. PICK p : p = Head(pairs)
  OBVIOUS
<1> DEFINE byValues == {r \in entity.rows : r.column = p.column /\ r.text \in found[p] /\ ~r.padded}
<1>1. /\ UNCHANGED <<entity, stage, found, status>>
      /\ stage = "lookup" /\ pairs # <<>> /\ pairs' = Tail(pairs)
  BY DEF LookUp
<1>2. /\ Pairs' = Pairs /\ (\A q : Matching(q)' = Matching(q))
      /\ \A q : Plain(q)' = Plain(q)
  BY <1>1, InputsStay
<1>3. /\ pairs \in Seq(ToSet(Pairs)) /\ IsEntity(entity) /\ status # "complete"
      /\ ToSet(pairs) \subseteq DOMAIN found
  BY <1>1 DEF EntityInv
<1>4. /\ p \in ToSet(Pairs) /\ p \in ToSet(pairs) /\ pairs' \in Seq(ToSet(Pairs))
      /\ \A q \in ToSet(pairs) : q = p \/ q \in ToSet(pairs')
      /\ ToSet(pairs') \subseteq DOMAIN found
  BY <1>0, <1>1, <1>3, TakenPair
<1>5. /\ found[p] # {} /\ found[p] \subseteq {r.text : r \in Matching(p)}
      /\ Plain(p) /\ AtMostOne(found[p]) => \A r \in Matching(p) : r.text \in found[p]
  BY <1>3, <1>4 DEF EntityInv
<1>6. /\ byValues \in SUBSET entity.rows /\ Matching(p) \in SUBSET entity.rows
      /\ IsFiniteSet(byValues) /\ IsFiniteSet(Matching(p))
  <2>1. /\ byValues \in SUBSET entity.rows /\ Matching(p) \in SUBSET entity.rows
        /\ IsFiniteSet(entity.rows)
    BY <1>3 DEF Matching, IsEntity
  <2> HIDE DEF byValues
  <2> QED
    BY <2>1, FS_Subset
<1>7. ByValues(p, found[p]) = Lowest(byValues, LookupLimit) /\ ByKeyword(p) = Lowest(Matching(p), LookupLimit)
  BY DEF ByValues, ByKeyword
<1>8. LookupLimit \in Nat \ {0, 1}
  BY ResolutionAssumption
<1>9. /\ \E r \in Matching(p) : r.text \in found[p]
      /\ \A r \in Matching(p) : r.text \in found[p] /\ ~r.padded => r \in byValues
      /\ \A r \in byValues : r.text \in found[p] /\ r \in Matching(p)
  <2>1. PICK r \in Matching(p) : r.text \in found[p]
    BY <1>5
  <2>2. ASSUME NEW s \in byValues PROVE s.text \in found[p] /\ s \in Matching(p)
    <3>1. s \in entity.rows /\ s.column = p.column /\ s.text \in found[p]
      OBVIOUS
    <3>2. PICK t \in Matching(p) : t.text = s.text
      BY <1>5, <3>1
    <3> QED
      BY <3>1, <3>2 DEF Matching
  <2>3. \A s \in Matching(p) : s \in entity.rows /\ s.column = p.column
    BY DEF Matching
  <2> QED
    BY <2>1, <2>2, <2>3
<1> HIDE DEF byValues
<1>10. \A rows \in ByKeyword(p) :
         /\ rows \subseteq Matching(p) /\ rows # {} /\ IsFiniteSet(rows)
         /\ (AtMostOne(rows) => rows = Matching(p))
  <2>1. Matching(p) # {}
    BY <1>9
  <2> QED
    BY <1>6, <1>7, <1>8, <2>1, LowestCut
<1>11. \A rows \in ByValues(p, found[p]) :
         /\ rows \subseteq byValues /\ IsFiniteSet(rows)
         /\ (AtMostOne(rows) => rows = byValues)
  BY <1>6, <1>7, <1>8, LowestCut
<1>12. Plain(p) => TellApart(Matching(p)) /\ \A r \in Matching(p) : ~r.padded
  BY DEF Plain, TellApart
(* A resolution is appended, or nothing is done but for the failure.       *)
<1>13. ASSUME suggested \subseteq suggested', swallowed \subseteq swallowed',
              NEW values, values # {}, Cardinality(values) <= MaxValues,
              resolved' = resolved \cup {[mention |-> p.mention, column |-> p.column,
                                           values |-> values]},
              suggested' = {} /\ Plain(p) =>
                values = CodeValues(Matching(p)) /\ Cardinality(values) = 1
       PROVE  EntityInv'
  <2> DEFINE new == [mention |-> p.mention, column |-> p.column, values |-> values]
  <2>1. /\ resolved' = resolved \cup {new}
        /\ new.values = values /\ new.mention = p.mention /\ new.column = p.column
    BY <1>13
  <2> HIDE DEF new
  <2>2. \A e \in resolved' : e.values # {} /\ Cardinality(e.values) <= MaxValues
    BY <1>13, <2>1 DEF EntityInv
  <2>3. Answers(p)' # {}
    BY <2>1 DEF Answers
  <2>4. \A q : Answers(q) # {} => Answers(q)' # {}
    BY <2>1 DEF Answers
  <2>5. ASSUME NEW q \in ToSet(Pairs), Matching(q) # {}
        PROVE  q \in ToSet(pairs') \cup swallowed' \/ Answers(q)' # {}
    <3>1. q \in ToSet(pairs) \cup swallowed \/ Answers(q) # {}
      BY <1>1, <2>5 DEF EntityInv
    <3> QED
      BY <1>4, <1>13, <2>3, <2>4, <3>1
  <2>6. ASSUME suggested' = {}, NEW q \in ToSet(Pairs), Plain(q)
        PROVE  Sound(q)'
    <3>1. Sound(q) /\ suggested = {}
      BY <1>13, <2>6 DEF EntityInv
    <3> SUFFICES ASSUME NEW e \in resolved', e.mention = q.mention, e.column = q.column
                 PROVE  e.values = CodeValues(Matching(q))' /\ Cardinality(e.values) = 1
      BY DEF Sound
    <3>2. CodeValues(Matching(q))' = CodeValues(Matching(q))
      BY <1>2 DEF CodeValues
    <3>3. CASE e \in resolved
      BY <3>1, <3>2, <3>3 DEF Sound
    <3>4. CASE e = new
      <4>1. p.mention = q.mention /\ p.column = q.column
        BY <2>1, <3>4
      <4>2. Matching(p) = Matching(q)
        BY <4>1 DEF Matching
      <4>3. Plain(p)
        BY <2>6, <4>2 DEF Plain
      <4> QED
        BY <1>13, <2>1, <2>6, <3>2, <3>4, <4>2, <4>3
    <3> QED
      BY <2>1, <3>3, <3>4
  <2>7. CompleteIsExact'
    BY <1>1, <1>3 DEF CompleteIsExact
  <2> QED
    BY <1>1, <1>2, <1>3, <1>4, <2>2, <2>5, <2>6, <2>7 DEF EntityInv
<1>14. ASSUME NEW rows \in ByValues(p, found[p]) \ {{}}, AppendResolution(p, rows),
              swallowed' = swallowed
       PROVE  EntityInv'
  <2>1. rows # {} /\ IsFiniteSet(rows) /\ rows \subseteq byValues /\ (AtMostOne(rows) => rows = byValues)
    BY <1>11, <1>14
  <2>2. PICK values :
           /\ values # {} /\ Cardinality(values) <= MaxValues
           /\ resolved' = resolved \cup {[mention |-> p.mention, column |-> p.column,
                                           values |-> values]}
           /\ suggested \subseteq suggested'
           /\ suggested' = {} /\ TellApart(rows) =>
                /\ AtMostOne(rows) /\ values = CodeValues(rows)
                /\ Cardinality(values) = 1
    BY <1>14, <2>1, AppendResolutionGives
  <2>3. ASSUME suggested' = {}, Plain(p)
        PROVE  values = CodeValues(Matching(p)) /\ Cardinality(values) = 1
    <3>1. TellApart(rows)
      BY <1>9, <1>12, <2>1, <2>3 DEF TellApart
    <3>2. /\ AtMostOne(rows) /\ values = CodeValues(rows) /\ rows = byValues
          /\ Cardinality(values) = 1
      BY <2>1, <2>2, <2>3, <3>1
    <3>3. AtMostOne(found[p])
      <4> SUFFICES ASSUME NEW t \in found[p], NEW u \in found[p] PROVE t = u
        BY DEF AtMostOne
      <4>1. PICK r \in Matching(p) : r.text = t
        BY <1>5
      <4>2. PICK s \in Matching(p) : s.text = u
        BY <1>5
      <4>3. r \in byValues /\ s \in byValues
        BY <1>9, <1>12, <2>3, <4>1, <4>2
      <4> QED
        BY <3>2, <4>1, <4>2, <4>3 DEF AtMostOne
    <3>4. Matching(p) \subseteq byValues
      BY <1>5, <1>9, <1>12, <2>3, <3>3
    <3>5. byValues \subseteq Matching(p)
      BY <1>9
    <3>6. rows = Matching(p)
      BY <3>2, <3>4, <3>5
    <3> QED
      BY <3>2, <3>6
  <2> QED
    BY <1>13, <1>14, <2>2, <2>3
<1>15. ASSUME NEW rows \in ByKeyword(p), AppendResolution(p, rows), swallowed \subseteq swallowed'
       PROVE  EntityInv'
  <2>1. /\ rows # {} /\ IsFiniteSet(rows) /\ rows \subseteq Matching(p)
        /\ AtMostOne(rows) => rows = Matching(p)
    BY <1>10, <1>15
  <2>2. PICK values :
           /\ values # {} /\ Cardinality(values) <= MaxValues
           /\ resolved' = resolved \cup {[mention |-> p.mention, column |-> p.column,
                                           values |-> values]}
           /\ suggested \subseteq suggested'
           /\ suggested' = {} /\ TellApart(rows) =>
                /\ AtMostOne(rows) /\ values = CodeValues(rows)
                /\ Cardinality(values) = 1
    BY <1>15, <2>1, AppendResolutionGives
  <2>3. ASSUME suggested' = {}, Plain(p)
        PROVE  values = CodeValues(Matching(p)) /\ Cardinality(values) = 1
    <3>1. TellApart(rows)
      BY <1>12, <2>1, <2>3 DEF TellApart
    <3> QED
      BY <2>1, <2>2, <2>3, <3>1
  <2> QED
    BY <1>13, <1>15, <2>2, <2>3
<1>16. ASSUME swallowed' = swallowed \cup {p}, UNCHANGED <<resolved, suggested>>
       PROVE  EntityInv'
  <2>1. \A q : Answers(q)' = Answers(q) /\ Sound(q)' = Sound(q)
    BY <1>1, <1>16, AnswersStay
  <2>2. ASSUME NEW q \in ToSet(Pairs), Matching(q) # {}
        PROVE  q \in ToSet(pairs') \cup swallowed' \/ Answers(q)' # {}
    <3>1. q \in ToSet(pairs) \cup swallowed \/ Answers(q) # {}
      BY <1>1, <2>2 DEF EntityInv
    <3> QED
      BY <1>4, <1>16, <2>1, <3>1
  <2>3. CompleteIsExact'
    BY <1>1, <1>3 DEF CompleteIsExact
  <2> QED
    BY <1>1, <1>2, <1>3, <1>4, <1>16, <2>1, <2>2, <2>3 DEF EntityInv
<1> QED
  BY <1>0, <1>14, <1>15, <1>16 DEF LookUp

LEMMA ConcludeKeeps == ASSUME EntityInv, Conclude PROVE EntityInv'
<1>1. /\ UNCHANGED <<entity, pairs, found, resolved, suggested, swallowed>>
      /\ stage = "lookup" /\ pairs = <<>> /\ stage' = "done"
      /\ status' \in {"failed", "partial", "complete"}
      /\ status' = "complete" => suggested = {}
  BY DEF Conclude, Ends
<1>2. /\ Pairs' = Pairs /\ (\A q : Matching(q)' = Matching(q))
      /\ \A q : Plain(q)' = Plain(q)
      /\ \A q : Answers(q)' = Answers(q) /\ Sound(q)' = Sound(q)
  BY <1>1, InputsStay, AnswersStay
<1>3. ToSet(pairs) = {}
  BY <1>1 DEF ToSet
<1>4. ASSUME status' = "complete", NEW q \in ToSet(Pairs)
      PROVE  /\ Answers(q) = {} => Matching(q) = {} \/ q \in swallowed
             /\ Answers(q) # {} /\ Plain(q) =>
                  /\ Answers(q) = {CodeValues(Matching(q))}
                  /\ Cardinality(CodeValues(Matching(q))) = 1
  <2>1. Answers(q) = {} => Matching(q) = {} \/ q \in swallowed
    BY <1>1, <1>3 DEF EntityInv
  <2>2. Plain(q) => Sound(q)
    BY <1>1, <1>4 DEF EntityInv
  <2>3. Sound(q) => \A V \in Answers(q) : V = CodeValues(Matching(q)) /\ Cardinality(V) = 1
    BY DEF Sound, Answers
  <2> QED
    BY <2>1, <2>2, <2>3
<1>5. CompleteIsExact'
  BY <1>1, <1>2, <1>4 DEF CompleteIsExact, CodeValues
<1> QED
  BY <1>1, <1>2, <1>3, <1>5 DEF EntityInv, Stages

LEMMA EntityStepKeeps ==
  ASSUME EntityInv, NEW connected \in BOOLEAN, EntityNext(connected)
  PROVE  EntityInv'
  BY FirstStagesKeep, ProbeKeeps, ProbesDoneKeeps, LookUpKeeps, ConcludeKeeps DEF EntityNext

----------------------------------------------------------------------------
(* The pool of the search application.                                     *)

(* The calls that ever asked are finitely many.  A call that makes a pool  *)
(* has none yet; two that make one at a time, or one and the pool made     *)
(* meanwhile, are in the history of races.                                 *)
Asked == {c \in AllCallers : caller[c] # "idle"}

PoolInv ==
  /\ PoolTypeOK
  /\ IsFiniteSet(Asked) /\ raced \subseteq Asked
  /\ \A c \in openPools : caller[c] = "served"
  /\ app \in {"down", "closing", "stopped"} => Creating = {}
  /\ \A c, d \in Creating : c # d => c \in raced
  /\ current # NoPool => current \in openPools
  /\ \A c \in Creating : current # NoPool => {c, current} \subseteq raced
  /\ app = "stopped" => current = NoPool
  /\ app # "stopped" /\ openPools # {} => current # NoPool
  /\ openPools \ {current} \subseteq raced
  /\ openPools \ {current} # {} => \E c \in raced : c \notin openPools \ {current}

LEMMA PoolInvImplies == ASSUME PoolInv PROVE PoolLostOnlyByRace
<1> DEFINE lost == openPools \ {current}
<1>1. lost \subseteq raced /\ (current # NoPool => current \in openPools)
      /\ (app = "stopped" => current = NoPool)
  BY DEF PoolInv
<1>2. ASSUME lost # {} PROVE Cardinality(lost) < Cardinality(raced)
  <2>1. IsFiniteSet(raced)
    BY FS_Subset DEF PoolInv
  <2>2. lost # raced
    BY <1>2 DEF PoolInv
  <2>3. /\ IsFiniteSet(lost) /\ Cardinality(lost) <= Cardinality(raced)
        /\ Cardinality(raced) # Cardinality(lost)
    BY <1>1, <2>1, <2>2, FS_Subset
  <2> QED
    BY <2>1, <2>3, FS_CardinalityType
<1> QED
  BY <1>1, <1>2 DEF PoolLostOnlyByRace

LEMMA PoolInvInit == ASSUME PoolInit PROVE PoolInv
<1>1. Asked = {} /\ Creating = {}
  BY DEF PoolInit, Asked, Creating
<1> QED
  BY <1>1, FS_EmptySet DEF PoolInit, PoolInv, PoolTypeOK

LEMMA GetPoolKeeps ==
  ASSUME NEW c \in AllCallers, PoolInv, GetPool(c)
  PROVE  PoolInv'
<1>1. /\ caller \in [AllCallers -> {"idle", "creating", "served", "refused"}]
      /\ caller[c] = "idle" /\ app \in {"starting", "up"} /\ c \notin Creating
      /\ app' = app /\ openPools' = openPools /\ current' = current
  BY DEF PoolInv, PoolTypeOK, GetPool, Creating
<1>2. caller' = [caller EXCEPT ![c] = IF current = NoPool THEN "creating" ELSE "served"]
  BY DEF GetPool, GoesTo
<1>3. caller' \in [AllCallers -> {"idle", "creating", "served", "refused"}]
  BY <1>1, <1>2
<1>4. Asked' = Asked \cup {c}
  BY <1>1, <1>2 DEF Asked
<1>5. IsFiniteSet(Asked')
  BY <1>4, FS_AddElement DEF PoolInv
<1>6. Creating' = (IF current = NoPool THEN Creating \cup {c} ELSE Creating)
  BY <1>1, <1>2 DEF Creating
<1>7. /\ Creating \subseteq Asked
      /\ raced \subseteq raced' /\ raced' \subseteq raced \cup Creating \cup {c}
      /\ current = NoPool /\ Creating # {} => Creating \cup {c} \subseteq raced'
  BY DEF GetPool, Asked, Creating
<1>8. PoolTypeOK'
  BY <1>1, <1>3, <1>7 DEF PoolInv, PoolTypeOK, Creating
<1>9. \A d \in openPools' : caller'[d] = "served"
  BY <1>1, <1>2 DEF PoolInv, PoolTypeOK
<1>10. \A d, e \in Creating' : d # e => d \in raced'
  BY <1>6, <1>7 DEF PoolInv
<1>11. \A d \in Creating' : current' # NoPool => {d, current'} \subseteq raced'
  BY <1>1, <1>6, <1>7 DEF PoolInv
<1> QED
  BY <1>1, <1>4, <1>5, <1>7, <1>8, <1>9, <1>10, <1>11 DEF PoolInv

LEMMA PoolCreatedKeeps ==
  ASSUME NEW c \in AllCallers, PoolInv, PoolCreated(c)
  PROVE  PoolInv'
<1>1. /\ caller \in [AllCallers -> {"idle", "creating", "served", "refused"}]
      /\ c \in Creating /\ app \in {"starting", "up"} /\ NoPool \notin AllCallers
      /\ app' = app /\ raced' = raced /\ openPools' = openPools \cup {c} /\ current' = c
  BY CallerAssumption DEF PoolInv, PoolTypeOK, PoolCreated, Creating, AllCallers
<1>2. caller' = [caller EXCEPT ![c] = "served"]
  BY DEF PoolCreated, GoesTo
<1>3. Asked' = Asked /\ Creating' = Creating \ {c}
  BY <1>1, <1>2 DEF Asked, Creating
<1>4. c \notin openPools
  BY <1>1 DEF PoolInv, Creating
<1>5. PoolTypeOK'
  BY <1>1, <1>2 DEF PoolInv, PoolTypeOK
<1>6. \A d \in openPools' : caller'[d] = "served"
  BY <1>1, <1>2 DEF PoolInv, PoolTypeOK
<1>7. \A d \in Creating' : {d, c} \subseteq raced
  BY <1>1, <1>3 DEF PoolInv
<1>8. openPools' \ {current'} = openPools
  BY <1>1, <1>4
<1>9. ASSUME openPools # {} PROVE c \in raced /\ openPools \subseteq raced
  BY <1>1, <1>9 DEF PoolInv
<1> QED
  BY <1>1, <1>3, <1>4, <1>5, <1>6, <1>7, <1>8, <1>9 DEF PoolInv

LEMMA PoolStepKeeps ==
  ASSUME NEW calls \in SUBSET Callers, PoolInv, PoolNext(calls)
  PROVE  PoolInv'
<1>1. ASSUME UNCHANGED <<caller, openPools, raced>>
      PROVE  Asked' = Asked /\ Creating' = Creating
  BY <1>1 DEF Asked, Creating
<1>2. CASE Start \/ Serve
  BY <1>1, <1>2 DEF Start, Serve, PoolInv, PoolTypeOK
<1>3. CASE Stop
  BY <1>1, <1>3 DEF Stop, PoolInv, PoolTypeOK
<1>4. CASE ClosePool
  <2>1. /\ Asked' = Asked /\ Creating' = {} /\ caller' = caller /\ raced' = raced
        /\ app' = "stopped" /\ current' = NoPool /\ openPools' = openPools \ {current}
    BY <1>4 DEF ClosePool, Asked, Creating, PoolInv
  <2>2. NoPool \notin openPools
    BY CallerAssumption DEF PoolInv, PoolTypeOK, AllCallers
  <2>3. openPools' \ {current'} = openPools \ {current}
    BY <2>1, <2>2
  <2> QED
    BY <2>1, <2>3 DEF PoolInv, PoolTypeOK
<1>5. ASSUME NEW c \in AllCallers, PoolRefused(c) PROVE PoolInv'
  <2>1. /\ caller \in [AllCallers -> {"idle", "creating", "served", "refused"}]
        /\ caller[c] = "creating" /\ caller' = [caller EXCEPT ![c] = "refused"]
        /\ UNCHANGED <<app, current, openPools, raced>>
    BY <1>5 DEF PoolRefused, GoesTo, PoolInv, PoolTypeOK
  <2>2. Asked' = Asked /\ Creating' = Creating \ {c}
    BY <2>1 DEF Asked, Creating
  <2>3. PoolTypeOK' /\ \A d \in openPools' : caller'[d] = "served"
    BY <2>1 DEF PoolInv, PoolTypeOK
  <2> QED
    BY <2>1, <2>2, <2>3 DEF PoolInv
<1> QED
  BY <1>2, <1>3, <1>4, <1>5, GetPoolKeeps, PoolCreatedKeeps DEF PoolNext, AllCallers

----------------------------------------------------------------------------
(* The jobs and the ingest.                                                *)

(* Tables of todo[j] that are not in the batch it works on.                *)
LaterTables(j) == {todo[j][i][1] : i \in {n \in DOMAIN todo[j] : n > BatchSize}}

(* A job that embeds or writes has dealt with what it fetched, but for     *)
(* what it holds.                                                          *)
JobInv(j) ==
  /\ job[j] \in {"idle", "fetching"} => settled[j] = {}
  /\ job[j] = "embedding" => fetched[j] = settled[j] \cup Held(j)
  /\ job[j] = "writing" => fetched[j] = settled[j] \cup vectors[j] \cup LaterTables(j)
  /\ job[j] \in {"index", "done"} => fetched[j] = settled[j]
  /\ job[j] # "writing" => vectors[j] = {}
  /\ vectors[j] \subseteq BatchTables(j)

(* A text that a job holds is the one of its table, or was overtaken; so   *)
(* is a text that a vector was made from.                                  *)
TextsInv ==
  /\ \A j \in Jobs : \A i \in DOMAIN todo[j] :
       todo[j][i][2] = text[todo[j][i][1]] \/ todo[j][i][1] \in overtaken
  /\ \A t \in Tables : vector[t] \notin {0, text[t]} => t \in overtaken

VectorizerInv ==
  /\ VectorizerTypeOK
  /\ text \in [Tables -> Nat] /\ vector \in [Tables -> Nat]
  /\ \A j \in Jobs : JobInv(j)
  /\ TextsInv
  /\ DriversClosed

LEMMA VectorizerInvImplies ==
  ASSUME VectorizerInv
  PROVE  VectorsFollowTexts /\ DriversClosed
BY DEF VectorizerInv, VectorsFollowTexts, JobInv, TextsInv

(* The batch is the first BatchSize entries of what the job holds, the     *)
(* rest comes after.                                                       *)
LEMMA BatchAndRest ==
  ASSUME NEW j \in Jobs, todo[j] \in Seq(Tables \X Nat)
  PROVE  /\ Batch(j) \in Seq(Tables \X Nat)
         /\ DOMAIN Batch(j) = {i \in DOMAIN todo[j] : i <= BatchSize}
         /\ \A i \in DOMAIN Batch(j) : Batch(j)[i] = todo[j][i]
         /\ Rest(j) \in Seq(Tables \X Nat)
         /\ \A i \in DOMAIN Rest(j) : i + BatchSize \in DOMAIN todo[j]
                                       /\ Rest(j)[i] = todo[j][i + BatchSize]
         /\ \A i \in DOMAIN todo[j] : i > BatchSize =>
              i - BatchSize \in DOMAIN Rest(j) /\ Rest(j)[i - BatchSize] = todo[j][i]
<1> DEFINE s == todo[j]
           m == IF BatchSize < Len(s) THEN BatchSize ELSE Len(s)
<1>1. BatchSize \in Nat \ {0} /\ Len(s) \in Nat /\ DOMAIN s = 1..Len(s)
      /\ \A i \in 1..Len(s) : s[i] \in Tables \X Nat
  BY BatchAssumption
<1>2. m \in Nat /\ m <= Len(s) /\ m <= BatchSize
  BY <1>1
<1>3. /\ Batch(j) \in Seq(Tables \X Nat) /\ Len(Batch(j)) = m
      /\ \A i \in 1..m : Batch(j)[i] = s[i]
  <2>1. \A i \in 1..m : s[i] \in Tables \X Nat
    BY <1>1, <1>2
  <2>2. Batch(j) = SubSeq(s, 1, m)
    BY DEF Batch, Upto
  <2> HIDE DEF m
  <2>3. /\ SubSeq(s, 1, m) \in Seq(Tables \X Nat)
        /\ Len(SubSeq(s, 1, m)) = IF 1 <= m THEN m - 1 + 1 ELSE 0
        /\ \A i \in 1..(m - 1 + 1) : SubSeq(s, 1, m)[i] = s[1 + i - 1]
    BY <1>2, <2>1, SubSeqProperties
  <2> QED
    BY <1>2, <2>2, <2>3
<1>4. /\ Rest(j) \in Seq(Tables \X Nat)
      /\ Len(Rest(j)) = IF BatchSize + 1 <= Len(s) THEN Len(s) - BatchSize ELSE 0
      /\ \A i \in 1..(Len(s) - BatchSize) : Rest(j)[i] = s[BatchSize + i]
  <2>1. BatchSize + 1 \in Int /\ Len(s) \in Int
        /\ \A i \in (BatchSize + 1)..Len(s) : s[i] \in Tables \X Nat
    BY <1>1
  <2>2. Rest(j) = SubSeq(s, BatchSize + 1, Len(s))
    BY DEF Rest
  <2>3. /\ SubSeq(s, BatchSize + 1, Len(s)) \in Seq(Tables \X Nat)
        /\ Len(SubSeq(s, BatchSize + 1, Len(s))) =
             IF BatchSize + 1 <= Len(s) THEN Len(s) - (BatchSize + 1) + 1 ELSE 0
        /\ \A i \in 1..(Len(s) - (BatchSize + 1) + 1) :
             SubSeq(s, BatchSize + 1, Len(s))[i] = s[BatchSize + 1 + i - 1]
    BY <2>1, SubSeqProperties
  <2> QED
    BY <1>1, <2>2, <2>3
<1>5. DOMAIN Batch(j) = 1..m /\ DOMAIN Rest(j) = 1..Len(Rest(j))
  BY <1>3, <1>4
<1>6. DOMAIN Batch(j) = {i \in DOMAIN s : i <= BatchSize}
  BY <1>1, <1>5
<1>7. ASSUME NEW i \in DOMAIN Rest(j)
      PROVE  i + BatchSize \in DOMAIN s /\ Rest(j)[i] = s[i + BatchSize]
  <2>1. i \in 1..(Len(s) - BatchSize)
    BY <1>1, <1>4, <1>5
  <2>2. Rest(j)[i] = s[BatchSize + i]
    BY <1>4, <2>1
  <2>3. BatchSize + i = i + BatchSize /\ i + BatchSize \in 1..Len(s)
    BY <1>1, <2>1
  <2> QED
    BY <1>1, <2>2, <2>3
<1>8. ASSUME NEW i \in DOMAIN s, i > BatchSize
      PROVE  i - BatchSize \in DOMAIN Rest(j) /\ Rest(j)[i - BatchSize] = s[i]
  <2>1. i - BatchSize \in 1..(Len(s) - BatchSize) /\ BatchSize + (i - BatchSize) = i
    BY <1>1, <1>8
  <2>2. Rest(j)[i - BatchSize] = s[BatchSize + (i - BatchSize)]
    BY <1>4, <2>1
  <2>3. i - BatchSize \in DOMAIN Rest(j)
    BY <1>1, <1>4, <1>5, <2>1
  <2> QED
    BY <2>1, <2>2, <2>3
<1> QED
  BY <1>3, <1>4, <1>5, <1>6, <1>7, <1>8

LEMMA HeldIsBatchAndLater ==
  ASSUME NEW j \in Jobs, todo[j] \in Seq(Tables \X Nat)
  PROVE  /\ Held(j) = BatchTables(j) \cup LaterTables(j)
         /\ LaterTables(j) = {Rest(j)[i][1] : i \in DOMAIN Rest(j)}
         /\ BatchTables(j) \subseteq Tables /\ Held(j) \subseteq Tables
<1>1. DOMAIN todo[j] \subseteq Nat /\ BatchSize \in Nat
      /\ \A i \in DOMAIN todo[j] : todo[j][i][1] \in Tables
  BY BatchAssumption
<1>2. BatchTables(j) = {todo[j][i][1] : i \in {n \in DOMAIN todo[j] : n <= BatchSize}}
  <2>1. /\ DOMAIN Batch(j) = {n \in DOMAIN todo[j] : n <= BatchSize}
        /\ \A i \in DOMAIN Batch(j) : Batch(j)[i] = todo[j][i]
    BY BatchAndRest
  <2>2. BatchTables(j) = {todo[j][i][1] : i \in DOMAIN Batch(j)}
    BY <2>1 DEF BatchTables
  <2> QED
    BY <2>1, <2>2
<1>3. Held(j) = BatchTables(j) \cup LaterTables(j)
  BY <1>1, <1>2 DEF Held, LaterTables
<1>4. LaterTables(j) = {Rest(j)[i][1] : i \in DOMAIN Rest(j)}
  <2>1. ASSUME NEW i \in DOMAIN todo[j], i > BatchSize
        PROVE  todo[j][i][1] \in {Rest(j)[n][1] : n \in DOMAIN Rest(j)}
    BY <2>1, BatchAndRest
  <2>2. ASSUME NEW i \in DOMAIN Rest(j) PROVE Rest(j)[i][1] \in LaterTables(j)
    <3>1. i + BatchSize \in DOMAIN todo[j] /\ Rest(j)[i] = todo[j][i + BatchSize]
      BY BatchAndRest
    <3>2. i \in Nat \ {0}
      <4>1. Rest(j) \in Seq(Tables \X Nat)
        BY BatchAndRest
      <4> QED
        BY <4>1
    <3>3. i + BatchSize > BatchSize
      BY <1>1, <3>2
    <3> QED
      BY <3>1, <3>3 DEF LaterTables
  <2> QED
    BY <2>1, <2>2 DEF LaterTables
<1>5. Held(j) \subseteq Tables
  BY <1>1 DEF Held
<1> QED
  BY <1>3, <1>4, <1>5

(* The tables fetched are all those without a vector, each once.           *)
LEMMA InOrderCovers ==
  ASSUME NEW S, IsFiniteSet(S), NEW s \in InOrder(S)
  PROVE  s \in Seq(S) /\ {s[i] : i \in DOMAIN s} = S
<1>1. s \in Seq(S) /\ \A x \in S : \E i \in DOMAIN s : s[i] = x
  BY Enumerates DEF InOrder
<1> QED
  BY <1>1

(* What a step of one job leaves to the others.                            *)
LEMMA JobInvSame ==
  ASSUME NEW j \in Jobs, JobInv(j), job'[j] = job[j], settled'[j] = settled[j],
         fetched'[j] = fetched[j], todo'[j] = todo[j], vectors'[j] = vectors[j]
  PROVE  JobInv(j)'
<1>1. Batch(j)' = Batch(j)
  BY DEF Batch, Upto
<1>2. BatchTables(j)' = BatchTables(j) /\ LaterTables(j)' = LaterTables(j) /\ Held(j)' = Held(j)
  BY <1>1 DEF BatchTables, LaterTables, Held
<1> QED
  BY <1>2 DEF JobInv

(* A job without a batch holds nothing.                                    *)
LEMMA JobInvEmpty ==
  ASSUME NEW j \in Jobs, todo'[j] = <<>>, vectors'[j] = {},
         job'[j] \in {"index", "done", "failed"},
         job'[j] # "failed" => fetched'[j] = settled'[j]
  PROVE  JobInv(j)'
BY DEF JobInv

LEMMA VectorizerInvInit ==
  ASSUME NEW workers \in SUBSET Tables, GraphInit(workers), VectorizerInit
  PROVE  VectorizerInv
<1>1. VectorizerTypeOK
  BY DEF VectorizerInit, VectorizerTypeOK, Places
<1>2. text \in [Tables -> Nat] /\ vector \in [Tables -> Nat]
  BY DEF GraphInit
<1>3. ASSUME NEW j \in Jobs PROVE JobInv(j)
  BY DEF VectorizerInit, JobInv
<1>4. TextsInv
  BY DEF VectorizerInit, GraphInit, TextsInv
<1>5. DriversClosed
  BY DEF VectorizerInit, DriversClosed, Running
<1> QED
  BY <1>1, <1>2, <1>3, <1>4, <1>5 DEF VectorizerInv

LEMMA StartJobKeeps ==
  ASSUME NEW j \in Jobs, VectorizerInv, StartJob(j)
  PROVE  VectorizerInv'
<1>1. /\ job \in [Jobs -> Places] /\ job[j] = "idle"
      /\ job' = [job EXCEPT ![j] = "fetching"] /\ drivers' = drivers \cup {j}
      /\ UNCHANGED <<text, vector, todo, vectors, fetched, settled, overtaken>>
  BY DEF VectorizerInv, VectorizerTypeOK, StartJob, Moves, graphVars
<1>2. VectorizerTypeOK'
  BY <1>1 DEF VectorizerInv, VectorizerTypeOK, Places
<1>3. ASSUME NEW k \in Jobs PROVE JobInv(k)'
  <2>1. CASE k = j
    <3>1. Batch(j)' = Batch(j)
      BY <1>1 DEF Batch, Upto
    <3> QED
      BY <1>1, <2>1, <3>1 DEF VectorizerInv, JobInv, BatchTables
  <2>2. CASE k # j
    BY <1>1, <2>2, JobInvSame DEF VectorizerInv
  <2> QED
    BY <2>1, <2>2
<1>4. DriversClosed'
  BY <1>1 DEF VectorizerInv, DriversClosed, Running
<1> QED
  BY <1>1, <1>2, <1>3, <1>4 DEF VectorizerInv, TextsInv

LEMMA FetchMissingKeeps ==
  ASSUME NEW j \in Jobs, VectorizerInv, FetchMissing(j)
  PROVE  VectorizerInv'
<1> DEFINE S == Tables \ Vectorised
<1>1. PICK missing \in InOrder(S) :
        /\ todo' = [todo EXCEPT ![j] = [i \in DOMAIN missing |-> <<missing[i], text[missing[i]]>>]]
        /\ fetched' = [fetched EXCEPT ![j] = S]
        /\ Moves(j, IF missing = <<>> THEN "index" ELSE "embedding")
  BY DEF FetchMissing
<1> DEFINE held == [i \in DOMAIN missing |-> <<missing[i], text[missing[i]]>>]
<1>2. IsFiniteSet(S)
  BY GraphAssumption, FS_Subset
<1>3. missing \in Seq(S) /\ {missing[i] : i \in DOMAIN missing} = S
  BY <1>2, InOrderCovers
<1>4. /\ job \in [Jobs -> Places] /\ todo \in [Jobs -> Seq(Tables \X Nat)]
      /\ vectors \in [Jobs -> SUBSET Tables] /\ fetched \in [Jobs -> SUBSET Tables]
      /\ settled \in [Jobs -> SUBSET Tables] /\ text \in [Tables -> Nat]
      /\ job[j] = "fetching" /\ settled[j] = {} /\ vectors[j] = {}
      /\ UNCHANGED <<text, vector, vectors, drivers, settled, overtaken>>
  BY DEF VectorizerInv, VectorizerTypeOK, FetchMissing, graphVars, JobInv
<1>5. held \in Seq(Tables \X Nat)
  <2>1. /\ DOMAIN missing = 1..Len(missing) /\ Len(missing) \in Nat
        /\ \A i \in 1..Len(missing) : missing[i] \in Tables
    BY <1>3
  <2>2. held \in [1..Len(missing) -> Tables \X Nat]
    BY <1>4, <2>1
  <2> QED
    BY <2>1, <2>2
<1>6. /\ job' = [job EXCEPT ![j] = IF missing = <<>> THEN "index" ELSE "embedding"]
      /\ todo' = [todo EXCEPT ![j] = held]
  BY <1>1 DEF Moves
<1>7. VectorizerTypeOK'
  <2> HIDE DEF held, S
  <2>1. S \subseteq Tables
    BY DEF S
  <2>2. job' \in [Jobs -> Places]
    BY <1>4, <1>6 DEF Places
  <2>3. todo' \in [Jobs -> Seq(Tables \X Nat)]
    BY <1>4, <1>5, <1>6
  <2>4. fetched' \in [Jobs -> SUBSET Tables]
    BY <1>1, <1>4, <2>1
  <2> QED
    BY <1>4, <2>2, <2>3, <2>4 DEF VectorizerInv, VectorizerTypeOK
<1>8. todo'[j] = held /\ fetched'[j] = S /\ job'[j] = (IF missing = <<>> THEN "index" ELSE "embedding")
  BY <1>1, <1>4, <1>6
<1>9. Held(j)' = S
  <2>1. Held(j)' = {held[i][1] : i \in DOMAIN held}
    BY <1>8 DEF Held
  <2>2. \A i \in DOMAIN held : held[i][1] = missing[i]
    OBVIOUS
  <2> QED
    BY <1>3, <2>1, <2>2
<1>10. missing = <<>> => S = {}
  BY <1>3
<1>11. ASSUME NEW k \in Jobs PROVE JobInv(k)'
  <2>1. CASE k = j
    BY <1>4, <1>8, <1>9, <1>10, <2>1 DEF JobInv
  <2>2. CASE k # j
    BY <1>1, <1>4, <1>6, <2>2, JobInvSame DEF VectorizerInv
  <2> QED
    BY <2>1, <2>2
<1>12. TextsInv'
  <2>1. ASSUME NEW k \in Jobs, NEW i \in DOMAIN todo'[k]
        PROVE  todo'[k][i][2] = text'[todo'[k][i][1]] \/ todo'[k][i][1] \in overtaken'
    <3>1. CASE k = j
      BY <1>4, <1>8, <2>1, <3>1
    <3>2. CASE k # j
      BY <1>4, <1>6, <2>1, <3>2 DEF VectorizerInv, TextsInv
    <3> QED
      BY <3>1, <3>2
  <2> QED
    BY <1>4, <2>1 DEF VectorizerInv, TextsInv
<1>13. DriversClosed'
  BY <1>4, <1>6 DEF VectorizerInv, DriversClosed, Running
<1> QED
  BY <1>4, <1>7, <1>11, <1>12, <1>13 DEF VectorizerInv

LEMMA EmbedBatchKeeps ==
  ASSUME NEW j \in Jobs, VectorizerInv, EmbedBatch(j)
  PROVE  VectorizerInv'
<1>1. PICK made \in SUBSET BatchTables(j) :
        /\ vectors' = [vectors EXCEPT ![j] = made]
        /\ settled' = [settled EXCEPT ![j] = @ \cup (BatchTables(j) \ made)]
  BY DEF EmbedBatch
<1>2. /\ job \in [Jobs -> Places] /\ todo \in [Jobs -> Seq(Tables \X Nat)]
      /\ vectors \in [Jobs -> SUBSET Tables] /\ fetched \in [Jobs -> SUBSET Tables]
      /\ settled \in [Jobs -> SUBSET Tables]
      /\ job[j] = "embedding" /\ job' = [job EXCEPT ![j] = "writing"]
      /\ UNCHANGED <<text, vector, todo, drivers, fetched, overtaken>>
  BY DEF VectorizerInv, VectorizerTypeOK, EmbedBatch, Moves, graphVars
<1>3. /\ Held(j) = BatchTables(j) \cup LaterTables(j) /\ BatchTables(j) \subseteq Tables
      /\ fetched[j] = settled[j] \cup Held(j)
  BY <1>2, HeldIsBatchAndLater DEF VectorizerInv, JobInv
<1>4. VectorizerTypeOK'
  BY <1>1, <1>2, <1>3 DEF VectorizerInv, VectorizerTypeOK, Places
<1>5. Batch(j)' = Batch(j)
  BY <1>2 DEF Batch, Upto
<1>6. BatchTables(j)' = BatchTables(j) /\ LaterTables(j)' = LaterTables(j)
  BY <1>2, <1>5 DEF BatchTables, LaterTables
<1>7. ASSUME NEW k \in Jobs PROVE JobInv(k)'
  <2>1. CASE k = j
    BY <1>1, <1>2, <1>3, <1>6, <2>1 DEF JobInv
  <2>2. CASE k # j
    BY <1>1, <1>2, <2>2, JobInvSame DEF VectorizerInv
  <2> QED
    BY <2>1, <2>2
<1>8. DriversClosed'
  BY <1>2 DEF VectorizerInv, DriversClosed, Running
<1> QED
  BY <1>2, <1>4, <1>7, <1>8 DEF VectorizerInv, TextsInv

(* What is stored belongs to the text of its table, or was overtaken.      *)
LEMMA StoredIsFetched ==
  ASSUME NEW j \in Jobs, VectorizerInv, NEW t \in vectors[j]
  PROVE  Stored(j)[t] \in Nat /\ (Stored(j)[t] = text[t] \/ t \in overtaken)
<1>1. /\ todo[j] \in Seq(Tables \X Nat) /\ t \in BatchTables(j) /\ t \in Tables
  BY DEF VectorizerInv, VectorizerTypeOK, JobInv
<1> DEFINE entries == {Batch(j)[i] : i \in DOMAIN Batch(j)}
           p == CHOOSE e \in entries : e[1] = t
<1>2. \E e \in entries : e[1] = t
  BY <1>1 DEF BatchTables
<1>3. p \in entries /\ p[1] = t
  BY <1>2
<1>4. Stored(j)[t] = p[2]
  BY <1>1 DEF Stored
<1> HIDE DEF p
<1>5. PICK i \in DOMAIN Batch(j) : p = Batch(j)[i]
  BY <1>3
<1>6. i \in DOMAIN todo[j] /\ p = todo[j][i]
  BY <1>1, <1>5, BatchAndRest
<1>7. p \in Tables \X Nat
  BY <1>1, <1>6
<1>8. p[2] = text[t] \/ t \in overtaken
  BY <1>3, <1>6 DEF VectorizerInv, TextsInv
<1> QED
  BY <1>4, <1>7, <1>8

LEMMA WriteBatchKeeps ==
  ASSUME NEW j \in Jobs, VectorizerInv, WriteBatch(j)
  PROVE  VectorizerInv'
<1>1. /\ job \in [Jobs -> Places] /\ todo \in [Jobs -> Seq(Tables \X Nat)]
      /\ vectors \in [Jobs -> SUBSET Tables] /\ fetched \in [Jobs -> SUBSET Tables]
      /\ settled \in [Jobs -> SUBSET Tables] /\ vector \in [Tables -> Nat]
      /\ job[j] = "writing" /\ vector' = Stored(j)
      /\ UNCHANGED <<text, drivers, fetched, overtaken>>
  BY DEF VectorizerInv, VectorizerTypeOK, WriteBatch
<1>2. /\ job' = [job EXCEPT ![j] = IF Rest(j) # <<>> THEN "embedding" ELSE "index"]
      /\ todo' = [todo EXCEPT ![j] = Rest(j)]
      /\ vectors' = [vectors EXCEPT ![j] = {}]
      /\ settled' = [settled EXCEPT ![j] = @ \cup vectors[j]]
  BY DEF WriteBatch, Moves
<1>3. /\ Rest(j) \in Seq(Tables \X Nat)
      /\ LaterTables(j) = {Rest(j)[i][1] : i \in DOMAIN Rest(j)}
      /\ \A i \in DOMAIN Rest(j) : i + BatchSize \in DOMAIN todo[j]
                                    /\ Rest(j)[i] = todo[j][i + BatchSize]
  BY <1>1, HeldIsBatchAndLater, BatchAndRest
<1>4. fetched[j] = settled[j] \cup vectors[j] \cup LaterTables(j)
  BY <1>1 DEF VectorizerInv, JobInv
<1>5. /\ job'[j] = (IF Rest(j) # <<>> THEN "embedding" ELSE "index")
      /\ todo'[j] = Rest(j) /\ vectors'[j] = {} /\ settled'[j] = settled[j] \cup vectors[j]
      /\ fetched'[j] = fetched[j]
  BY <1>1, <1>2
<1>6. Held(j)' = LaterTables(j)
  BY <1>3, <1>5 DEF Held
<1>7. Rest(j) = <<>> => LaterTables(j) = {}
  BY <1>3
<1>8. ASSUME NEW k \in Jobs PROVE JobInv(k)'
  <2>1. CASE k = j
    BY <1>4, <1>5, <1>6, <1>7, <2>1 DEF JobInv
  <2>2. CASE k # j
    BY <1>1, <1>2, <2>2, JobInvSame DEF VectorizerInv
  <2> QED
    BY <2>1, <2>2
<1>9. VectorizerTypeOK'
  <2>1. job' \in [Jobs -> Places]
    BY <1>1, <1>2 DEF Places
  <2>2. todo' \in [Jobs -> Seq(Tables \X Nat)]
    BY <1>1, <1>2, <1>3
  <2>3. vectors' \in [Jobs -> SUBSET Tables] /\ settled' \in [Jobs -> SUBSET Tables]
    BY <1>1, <1>2
  <2> QED
    BY <1>1, <2>1, <2>2, <2>3 DEF VectorizerInv, VectorizerTypeOK
<1>10. ASSUME NEW t \in Tables
       PROVE  /\ vector'[t] \in Nat
              /\ vector'[t] \notin {0, text[t]} => t \in overtaken
  <2>1. CASE t \in vectors[j]
    BY <1>1, <2>1, StoredIsFetched
  <2>2. CASE t \notin vectors[j]
    <3>1. vector'[t] = vector[t]
      BY <1>1, <2>2 DEF Stored
    <3> QED
      BY <1>1, <3>1 DEF VectorizerInv, TextsInv
  <2> QED
    BY <2>1, <2>2
<1>11. vector' \in [Tables -> Nat]
  <2>1. vector' = [t \in Tables |-> vector'[t]]
    BY <1>1 DEF Stored
  <2> QED
    BY <1>10, <2>1
<1>12. ASSUME NEW k \in Jobs, NEW i \in DOMAIN todo'[k]
       PROVE  todo'[k][i][2] = text[todo'[k][i][1]] \/ todo'[k][i][1] \in overtaken
  <2>1. CASE k = j
    <3>1. i \in DOMAIN Rest(j) /\ todo'[k][i] = Rest(j)[i]
      BY <1>5, <1>12, <2>1
    <3>2. i + BatchSize \in DOMAIN todo[j] /\ Rest(j)[i] = todo[j][i + BatchSize]
      BY <1>3, <3>1
    <3> QED
      BY <3>1, <3>2 DEF VectorizerInv, TextsInv
  <2>2. CASE k # j
    BY <1>1, <1>2, <1>12, <2>2 DEF VectorizerInv, TextsInv
  <2> QED
    BY <2>1, <2>2
<1>13. TextsInv'
  BY <1>1, <1>10, <1>12 DEF TextsInv
<1>14. DriversClosed'
  BY <1>1, <1>2 DEF VectorizerInv, DriversClosed, Running
<1> QED
  BY <1>1, <1>8, <1>9, <1>11, <1>13, <1>14 DEF VectorizerInv

LEMMA JobEndsKeeps ==
  ASSUME NEW j \in Jobs, VectorizerInv, EnsureIndex(j) \/ JobFails(j)
  PROVE  VectorizerInv'
<1>1. /\ job \in [Jobs -> Places] /\ todo \in [Jobs -> Seq(Tables \X Nat)]
      /\ vectors \in [Jobs -> SUBSET Tables] /\ fetched \in [Jobs -> SUBSET Tables]
      /\ settled \in [Jobs -> SUBSET Tables]
      /\ UNCHANGED <<text, vector, fetched, settled, overtaken>>
  BY DEF VectorizerInv, VectorizerTypeOK, EnsureIndex, JobFails, graphVars
<1>2. CASE EnsureIndex(j)
  <2>1. /\ job[j] = "index" /\ job' = [job EXCEPT ![j] = "done"] /\ drivers' = drivers \ {j}
        /\ UNCHANGED <<todo, vectors>>
    BY <1>2 DEF EnsureIndex, Moves
  <2>2. VectorizerTypeOK'
    BY <1>1, <2>1 DEF VectorizerInv, VectorizerTypeOK, Places
  <2>3. ASSUME NEW k \in Jobs PROVE JobInv(k)'
    <3>1. CASE k = j
      BY <1>1, <2>1, <3>1 DEF VectorizerInv, JobInv
    <3>2. CASE k # j
      BY <1>1, <2>1, <3>2, JobInvSame DEF VectorizerInv
    <3> QED
      BY <3>1, <3>2
  <2>4. DriversClosed'
    BY <1>1, <2>1 DEF VectorizerInv, DriversClosed, Running
  <2> QED
    BY <1>1, <2>1, <2>2, <2>3, <2>4 DEF VectorizerInv, TextsInv
<1>3. CASE JobFails(j)
  <2>1. /\ job[j] \in {"fetching", "embedding", "writing"}
        /\ job' = [job EXCEPT ![j] = "failed"] /\ drivers' = drivers
        /\ todo' = [todo EXCEPT ![j] = <<>>] /\ vectors' = [vectors EXCEPT ![j] = {}]
    BY <1>3 DEF JobFails, Moves
  <2>2. VectorizerTypeOK'
    BY <1>1, <2>1 DEF VectorizerInv, VectorizerTypeOK, Places
  <2>3. ASSUME NEW k \in Jobs PROVE JobInv(k)'
    <3>1. CASE k = j
      BY <1>1, <2>1, <3>1, JobInvEmpty
    <3>2. CASE k # j
      BY <1>1, <2>1, <3>2, JobInvSame DEF VectorizerInv
    <3> QED
      BY <3>1, <3>2
  <2>4. DriversClosed'
    BY <1>1, <2>1 DEF VectorizerInv, DriversClosed, Running
  <2>5. ASSUME NEW k \in Jobs, NEW i \in DOMAIN todo'[k]
        PROVE  k # j /\ todo'[k] = todo[k]
    BY <1>1, <2>1, <2>5
  <2>6. TextsInv'
    BY <1>1, <2>5 DEF VectorizerInv, TextsInv
  <2> QED
    BY <1>1, <2>1, <2>2, <2>3, <2>4, <2>6 DEF VectorizerInv
<1> QED
  BY <1>2, <1>3

LEMMA IngestKeeps ==
  ASSUME NEW t \in Tables, VectorizerInv, Ingest(t)
  PROVE  VectorizerInv'
<1>1. CASE ToggleTable(t) /\ UNCHANGED vectorizerVars
  <2>1. UNCHANGED <<text, vector, job, todo, vectors, drivers, fetched, settled, overtaken>>
    BY <1>1 DEF ToggleTable, vectorizerVars
  <2>2. \A k \in Jobs : JobInv(k)'
    BY <2>1, JobInvSame DEF VectorizerInv
  <2> QED
    BY <2>1, <2>2 DEF VectorizerInv, VectorizerTypeOK, TextsInv, DriversClosed, Running
<1>2. CASE RewriteText(t) /\ UNCHANGED <<job, todo, vectors, drivers, fetched, settled>>
           /\ overtaken' = IF \E j \in Jobs : t \in Held(j) THEN overtaken \cup {t}
                                                            ELSE overtaken
  <2>1. /\ text' = [text EXCEPT ![t] = @ + 1] /\ vector' = [vector EXCEPT ![t] = 0]
        /\ text \in [Tables -> Nat] /\ vector \in [Tables -> Nat]
    BY <1>2 DEF RewriteText, VectorizerInv
  <2>2. text' \in [Tables -> Nat] /\ vector' \in [Tables -> Nat]
    BY <2>1
  <2>3. VectorizerTypeOK'
    BY <1>2 DEF VectorizerInv, VectorizerTypeOK
  <2>4. \A k \in Jobs : JobInv(k)'
    BY <1>2, JobInvSame DEF VectorizerInv
  <2>5. DriversClosed'
    BY <1>2 DEF VectorizerInv, DriversClosed, Running
  <2>6. ASSUME NEW k \in Jobs, NEW i \in DOMAIN todo[k]
        PROVE  todo[k][i][2] = text'[todo[k][i][1]] \/ todo[k][i][1] \in overtaken'
    <3>1. CASE todo[k][i][1] = t
      BY <1>2, <3>1 DEF Held
    <3>2. CASE todo[k][i][1] # t
      <4>1. todo[k] \in Seq(Tables \X Nat)
        BY DEF VectorizerInv, VectorizerTypeOK
      <4>2. todo[k][i][1] \in Tables
        BY <4>1
      <4> QED
        BY <1>2, <2>1, <3>2, <4>2 DEF VectorizerInv, TextsInv
    <3> QED
      BY <3>1, <3>2
  <2>7. ASSUME NEW u \in Tables, vector'[u] \notin {0, text'[u]} PROVE u \in overtaken'
    <3>1. u # t
      BY <2>1, <2>7
    <3> QED
      BY <1>2, <2>1, <2>7, <3>1 DEF VectorizerInv, TextsInv
  <2>8. TextsInv'
    BY <1>2, <2>6, <2>7 DEF TextsInv
  <2> QED
    BY <2>2, <2>3, <2>4, <2>5, <2>8 DEF VectorizerInv
<1> QED
  BY <1>1, <1>2 DEF Ingest

----------------------------------------------------------------------------
(* The composition: what the other components do leaves these as they are. *)

GraphInv == live \in SUBSET Tables /\ indexed \in BOOLEAN /\ changes \in 0..MaxChanges

ServingInv ==
  /\ workload \in Workloads
  /\ GraphInv /\ DecisionInv /\ EntityInv /\ VectorizerInv /\ PoolInv

LEMMA PoolUntouched ==
  ASSUME PoolInv, UNCHANGED poolVars
  PROVE  PoolInv'
<1>1. UNCHANGED <<app, caller, current, openPools, raced>>
  BY DEF poolVars
<1>2. Asked' = Asked /\ Creating' = Creating
  BY <1>1 DEF Asked, Creating
<1> QED
  BY <1>1, <1>2 DEF PoolInv, PoolTypeOK

LEMMA VectorizerUntouched ==
  ASSUME VectorizerInv, UNCHANGED <<graphVars, vectorizerVars>>
  PROVE  VectorizerInv'
<1>1. UNCHANGED <<text, vector, job, todo, vectors, drivers, fetched, settled, overtaken>>
  BY DEF graphVars, vectorizerVars
<1>2. \A k \in Jobs : JobInv(k)'
  BY <1>1, JobInvSame DEF VectorizerInv
<1> QED
  BY <1>1, <1>2 DEF VectorizerInv, VectorizerTypeOK, TextsInv, DriversClosed, Running

(* A job changes the index at most, the ingest the tables that are live    *)
(* and the number of its changes.                                          *)
LEMMA GraphKeeps ==
  ASSUME GraphInv,
         \/ UNCHANGED graphVars
         \/ \E j \in Jobs : JobStep(j)
         \/ \E t \in Tables : Ingest(t)
  PROVE  GraphInv'
<1>1. CASE UNCHANGED graphVars
  BY <1>1 DEF GraphInv, graphVars
<1>2. ASSUME NEW j \in Jobs, JobStep(j) PROVE GraphInv'
  BY <1>2 DEF JobStep, StartJob, FetchMissing, EmbedBatch, WriteBatch, EnsureIndex, JobFails,
              graphVars, GraphInv
<1>3. ASSUME NEW t \in Tables, Ingest(t) PROVE GraphInv'
  <2>1. changes' = changes + 1 /\ changes < MaxChanges /\ indexed' = indexed
    BY <1>3 DEF Ingest, ToggleTable, RewriteText, Change
  <2>2. live' \in SUBSET Tables
    BY <1>3 DEF Ingest, ToggleTable, RewriteText, GraphInv
  <2> QED
    BY <2>1, <2>2, GraphAssumption DEF GraphInv
<1> QED
  BY <1>1, <1>2, <1>3

LEMMA ServingInvariant == Spec => []ServingInv
<1>1. Init => ServingInv
  <2> SUFFICES ASSUME Init PROVE ServingInv
    OBVIOUS
  <2>1. /\ workload \in Workloads /\ workload.vectorised \in SUBSET Tables
        /\ IsAsk(workload.ask) /\ IsEntity(workload.entity)
    BY WorkloadAssumption DEF Init
  <2>2. GraphInv
    BY GraphAssumption DEF Init, GraphInit, GraphInv
  <2>3. DecisionInv
    BY <2>1, DecisionInvInit DEF Init
  <2>4. EntityInv
    BY <2>1, EntityInvInit DEF Init
  <2> QED
    BY <2>1, <2>2, <2>3, <2>4, PoolInvInit, VectorizerInvInit DEF Init, ServingInv
<1>2. ServingInv /\ [Next]_vars => ServingInv'
  <2> SUFFICES ASSUME ServingInv, [Next]_vars PROVE ServingInv'
    OBVIOUS
  <2>1. workload' = workload
    BY DEF Next, Decision, Resolution, Vectorizing, Ingesting, Lifecycle, vars
  <2>2. workload.jobs \subseteq Jobs /\ workload.callers \in SUBSET Callers
        /\ workload.changing \subseteq Tables
    BY WorkloadAssumption DEF ServingInv
  <2>3. CASE UNCHANGED vars
    BY <2>1, <2>3, GraphKeeps, DecisionUntouched, EntityUntouched, VectorizerUntouched,
       PoolUntouched DEF vars, ServingInv
  <2>4. CASE Decision
    <3>1. live \in SUBSET Tables /\ DecisionNext
      BY <2>4 DEF Decision, ServingInv, GraphInv
    <3> QED
      BY <2>1, <2>4, <3>1, DecisionStepKeeps, GraphKeeps, EntityUntouched,
         VectorizerUntouched, PoolUntouched DEF Decision, ServingInv
  <2>5. CASE Resolution
    BY <2>1, <2>5, EntityStepKeeps, GraphKeeps, DecisionUntouched, VectorizerUntouched,
       PoolUntouched DEF Resolution, ServingInv
  <2>6. CASE Vectorizing
    <3>1. PICK j \in workload.jobs : JobStep(j)
      BY <2>6 DEF Vectorizing
    <3>2. VectorizerInv'
      BY <2>2, <3>1, StartJobKeeps, FetchMissingKeeps, EmbedBatchKeeps, WriteBatchKeeps,
         JobEndsKeeps DEF JobStep, ServingInv
    <3>3. GraphInv'
      BY <2>2, <3>1, GraphKeeps DEF ServingInv
    <3> QED
      BY <2>1, <2>6, <3>2, <3>3, DecisionUntouched, EntityUntouched, PoolUntouched
         DEF Vectorizing, ServingInv
  <2>7. CASE Ingesting
    <3>1. PICK t \in workload.changing : Ingest(t)
      BY <2>7 DEF Ingesting
    <3>2. VectorizerInv' /\ GraphInv'
      BY <2>2, <3>1, IngestKeeps, GraphKeeps DEF ServingInv
    <3> QED
      BY <2>1, <2>7, <3>2, DecisionUntouched, EntityUntouched, PoolUntouched
         DEF Ingesting, ServingInv
  <2>8. CASE Lifecycle
    BY <2>1, <2>2, <2>8, PoolStepKeeps, GraphKeeps, DecisionUntouched, EntityUntouched,
       VectorizerUntouched DEF Lifecycle, ServingInv
  <2> QED
    BY <2>3, <2>4, <2>5, <2>6, <2>7, <2>8 DEF Next
<1> QED
  BY <1>1, <1>2, PTL DEF Spec

(* Every variable keeps its type.                                          *)
THEOREM TypeCorrect == Spec => []TypeOK
<1>1. ServingInv => TypeOK
  <2> SUFFICES ASSUME ServingInv PROVE TypeOK
    OBVIOUS
  <2>1. GraphTypeOK
    BY DEF ServingInv, GraphInv, VectorizerInv, GraphTypeOK
  <2>2. DecisionTypeOK /\ EntityTypeOK
    BY DecisionInvImplies, EntityInvImplies DEF ServingInv
  <2>3. VectorizerTypeOK /\ PoolTypeOK
    BY DEF ServingInv, VectorizerInv, PoolInv
  <2> QED
    BY <2>1, <2>2, <2>3 DEF TypeOK
<1> QED
  BY <1>1, ServingInvariant, PTL

(* What a join brings in is pruned away again: as long as the pool holds   *)
(* no two tables of one name, the scores of the answer are those it would  *)
(* have without any join, for every pool, every limit and every setting of *)
(* the ratio, the step and the radius (decision_service.py:146-222).       *)
THEOREM ExpansionIsPruned == Spec => []ExpansionAddsNothing
<1>1. ServingInv => ExpansionAddsNothing
  BY DecisionInvImplies DEF ServingInv
<1> QED
  BY <1>1, ServingInvariant, PTL

(* A bridge between two tables of the answer is in exactly one group, a    *)
(* group holds both tables of each of its bridges, and no table is in two  *)
(* groups, although the classes are built before the answer is cut         *)
(* (decision_service.py:567-577, :779-801).                                *)
THEOREM GroupsHoldBridges == Spec => []GroupsKeepBridges
<1>1. ServingInv => GroupsKeepBridges
  BY DecisionInvImplies DEF ServingInv
<1> QED
  BY <1>1, ServingInvariant, PTL

(* A bridge found by ontology or by convention never touches a table that  *)
(* a stronger source joined to another one, however many edges there are   *)
(* (decision_service.py:610-702).                                          *)
THEOREM WeakerFillGaps == Spec => []WeakerSourcesFillGaps
<1>1. ServingInv => WeakerSourcesFillGaps
  BY DecisionInvImplies DEF ServingInv
<1> QED
  BY <1>1, ServingInvariant, PTL

(* No table outside the allowlist of schemas comes into the pool but by    *)
(* the keyword fallback, whatever the ingest changes between the searches  *)
(* (vector_search.py:36-117, decision_service.py:319-354).                 *)
THEOREM ScopeHolds == Spec => []OutOfScopeOnlyByFallback
<1>1. ServingInv => OutOfScopeOnlyByFallback
  BY DecisionInvImplies DEF ServingInv
<1> QED
  BY <1>1, ServingInvariant, PTL

(* Under the status "complete" a mention is left out of a column only when *)
(* nothing matches there or a query of theirs failed, and what is given is *)
(* exactly the one code there is, whatever the limits of the probes, of    *)
(* the look-ups and of the values returned, unless labels are padded with  *)
(* blanks or rows repeat a code (entity_resolution.py:208-364,             *)
(* db_probe.py:93-143).                                                    *)
THEOREM CompleteMeansExact == Spec => []CompleteIsExact
<1>1. ServingInv => CompleteIsExact
  BY EntityInvImplies DEF ServingInv
<1> QED
  BY <1>1, ServingInvariant, PTL

(* A vector belongs to the text of its table, or its text was rewritten    *)
(* while a job held it; and a job that ends well has dealt with every      *)
(* table it fetched (vectorizer.py:18-44, :98-113).                        *)
THEOREM VectorsFollow == Spec => []VectorsFollowTexts
<1>1. ServingInv => VectorsFollowTexts
  BY VectorizerInvImplies DEF ServingInv
<1> QED
  BY <1>1, ServingInvariant, PTL

(* The pools and drivers that are left open are those of calls that raced  *)
(* and of jobs that failed (db_probe.py:25-60, vectorizer.py:78-120).      *)
THEOREM OnlyRacesAndFailures == Spec => []OnlyRacesAndFailuresLeak
<1>1. ServingInv => OnlyRacesAndFailuresLeak
  BY VectorizerInvImplies, PoolInvImplies DEF ServingInv, OnlyRacesAndFailuresLeak
<1> QED
  BY <1>1, ServingInvariant, PTL
=============================================================================
