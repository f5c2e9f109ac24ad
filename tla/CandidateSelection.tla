------------------------- MODULE CandidateSelection -------------------------
(***************************************************************************)
(* The pure part of services/decision_service.py: how two searches become  *)
(* one ranking, which head of a ranking is kept, what the joins add to it, *)
(* how tables fall into join groups and which target class results.        *)
(* A candidate is [table, key, score]; similarities are in percent,        *)
(* merged scores in permille.                                              *)
(***************************************************************************)
EXTENDS Naturals, FiniteSets, Sequences, FiniteSetsExt, SequencesExt, Ordering

CONSTANTS
  TopK,          \* DECISION_VECTOR_TOPK
  TableMax,      \* DECISION_TABLE_MAX, 0 for no limit
  HardLimit,     \* 50 in the code
  GapRatio,      \* DECISION_SCORE_GAP_RATIO clamped to 0..1, in percent
  MinStep,       \* DECISION_SCORE_MIN_STEP, in permille, 0 for none
  TopRadius,     \* DECISION_SCORE_TOP_RADIUS, in permille, 0 for none
  HydeWeight,    \* HYDE_WEIGHT, in tenths
  QuestionWeight,\* QUESTION_WEIGHT, in tenths
  JoinExpand,    \* DECISION_JOIN_EXPAND
  ExpandVia,     \* DECISION_JOIN_EXPAND_VIA
  AnalyticFrom,  \* DECISION_ANALYTIC_THRESHOLD, in permille
  SourceFrom     \* DECISION_SOURCE_THRESHOLD, in permille

NoLimit == 0     \* a request without table_limit

ASSUME SelectionAssumption ==
  /\ {TopK, TableMax, MinStep, TopRadius} \subseteq Nat /\ GapRatio \in 0..100
  /\ HardLimit \in Nat \ {0} /\ {HydeWeight, QuestionWeight} \subseteq Nat
  /\ JoinExpand \in BOOLEAN /\ {AnalyticFrom, SourceFrom} \subseteq Nat

Between(low, n, high) == IF n < low THEN low ELSE IF n > high THEN high ELSE n

(* _resolve_decision_policy: table_limit sets both the search and the cut. *)
SearchLimit(limit) ==
  Between(1, IF limit = NoLimit THEN TopK ELSE limit, HardLimit)

FinalLimit(limit) ==
  IF limit = NoLimit THEN Between(0, TableMax, HardLimit) ELSE SearchLimit(limit)

FallbackLimit == TopK

Cut(s, n) == SubSeq(s, 1, IF n < Len(s) THEN n ELSE Len(s))

Descending(s) == \A i, j \in DOMAIN s : i < j => s[i].score >= s[j].score

(* sorted(..., key=score, reverse=True) is stable.                         *)
Ranked(s) ==
  LET places == DOMAIN s
      order  == SortedBy(places, {p \in places \X places :
                  \/ s[p[1]].score > s[p[2]].score
                  \/ s[p[1]].score = s[p[2]].score /\ p[1] < p[2]})
  IN  [i \in places |-> s[order[i]]]

(* Mutation: the question counts in full beside a hyde result too.         *)
MergedScoreInFull(t, h, q, sim) ==
  (IF t \in ToSet(h) THEN HydeWeight * sim.hyde[t] ELSE 0) +
  (IF t \in ToSet(q) THEN 10 * sim.question[t] ELSE 0)

(* _merge_candidates: without a hyde result the question counts in full.   *)
MergedScore(t, h, q, sim) ==
  (IF t \in ToSet(h) THEN HydeWeight * sim.hyde[t] ELSE 0) +
  (IF t \in ToSet(q) THEN (IF h = <<>> THEN 10 ELSE QuestionWeight) * sim.question[t]
                     ELSE 0)

(* The best merged score, when every similarity is 100 percent.            *)
TopScore == 100 * (IF HydeWeight + QuestionWeight > 10 THEN HydeWeight + QuestionWeight
                                                       ELSE 10)

Merge(h, q, sim, key, k) ==
  LET rows == h \o Filtered(q, ToSet(q) \ ToSet(h))
  IN  Cut(Ranked([i \in DOMAIN rows |->
              [table |-> rows[i], key |-> key[rows[i]],
               score |-> MergedScore(rows[i], h, q, sim)]]), k)

----------------------------------------------------------------------------
(* _prune_by_score_gap.  A candidate of a ranking stays close when it is   *)
(* near enough to the top and to the candidate before it.                  *)
Close(s, i) ==
  /\ 100 * s[i].score >= GapRatio * s[1].score
  /\ TopRadius = 0 \/ s[i].score + TopRadius >= s[1].score
  /\ MinStep = 0 \/ s[i].score + MinStep >= s[i - 1].score

KeptLengths(s, k) ==
  {n \in 1..Len(s) : n <= (IF k > 1 THEN k ELSE 1) /\ \A i \in 2..n : Close(s, i)}

PruneRanked(s, k) ==
  IF s = <<>> THEN <<>>
  ELSE IF s[1].score = 0 THEN SubSeq(s, 1, 1)
  ELSE SubSeq(s, 1, Max(KeptLengths(s, k)))

Prune(s, k) == PruneRanked(Ranked(s), k)

----------------------------------------------------------------------------
(* _select_final_candidates.  Tables are found again by key, where the     *)
(* last of the pool wins; the set of keys comes back in any order, so      *)
(* equal scores may swap.                                                  *)
Keys(s) == {s[i].key : i \in DOMAIN s}

ByKey(pool, k) ==
  pool[CHOOSE i \in DOMAIN pool :
         pool[i].key = k /\ \A j \in DOMAIN pool : pool[j].key = k => j <= i]

Neighbours(pool, anchor, bridges) ==
  {k \in Keys(pool) : \E b \in bridges :
     /\ b.via \in ExpandVia
     /\ {b.from, b.to} = {anchor, k}}

Expanded(pool, pruned, bridges) ==
  {ByKey(pool, k) :
     k \in (Keys(pruned) \cap Keys(pool)) \cup Neighbours(pool, pruned[1].key, bridges)}

(* Mutation: what the joins add is not pruned again.                       *)
FinalsUnpruned(pool, pruned, bridges, k) ==
  IF pruned = <<>> THEN {<<>>}
  ELSE IF ~JoinExpand \/ bridges = {} THEN {Prune(pruned, k)}
  ELSE {s \in SetToSeqs(Expanded(pool, pruned, bridges)) : Descending(s)}

Finals(pool, pruned, bridges, k) ==
  IF pruned = <<>> THEN {<<>>}
  ELSE IF ~JoinExpand \/ bridges = {} THEN {Prune(pruned, k)}
  ELSE {Prune(s, k) : s \in {r \in SetToSeqs(Expanded(pool, pruned, bridges)) :
                               Descending(r)}}

CutFinal(s, limit) == IF FinalLimit(limit) > 0 THEN Cut(s, FinalLimit(limit)) ELSE s

----------------------------------------------------------------------------
(* The union-find over the keys of the pool: the class of a key is the     *)
(* least set with it that no bridge leaves.                                *)
Closed(C, bridges) == \A b \in bridges : b.from \in C <=> b.to \in C

Classes(keys, bridges) ==
  [k \in keys |-> {l \in keys : \A C \in SUBSET keys :
                                  k \in C /\ Closed(C, bridges) => l \in C}]

(* _component_size(...) < 2                                                *)
Isolated(keys, bridges) ==
  {k \in keys : Cardinality(Classes(keys, bridges)[k]) < 2}

(* Mutation: a bridge needs only one end among the members.                *)
GroupHalfBridges(members, bridges) ==
  [members |-> members,
   bridges |-> {b \in bridges : b.from \in members \/ b.to \in members}]

Group(members, bridges) ==
  [members |-> members,
   bridges |-> {b \in bridges : b.from \in members /\ b.to \in members}]

(* join_groups of decide: final tables of one class, if a bridge is left.  *)
JoinGroups(final, keys, bridges) ==
  LET class == Classes(keys, bridges)
      all == {Group({k \in Keys(final) : class[k] = class[l]}, bridges) : l \in Keys(final)}
  IN  {g \in all : Cardinality(g.members) >= 2 /\ g.bridges # {}}

----------------------------------------------------------------------------
(* _subject_area_to_target_class                                           *)
TargetClass(area) ==
  CASE area = "agg" -> "analytic"
    [] area \in {"raw", "master", "code"} -> "source"
    [] area \in {"hist", "link"} -> "collect"
    [] OTHER -> "unknown"

(* _classify_target: an area anywhere in the list, the score of the first. *)
Target(final, area) ==
  LET reached(class, from) ==
        /\ final[1].score >= from
        /\ \E i \in DOMAIN final : TargetClass(area[final[i].table]) = class
  IN  IF final = <<>> THEN "none"
      ELSE IF reached("analytic", AnalyticFrom) THEN "analytic"
      ELSE IF reached("source", SourceFrom) THEN "source"
      ELSE "collect"

(* _collect_secondary                                                      *)
Secondary(final, area) ==
  {TargetClass(area[final[i].table]) : i \in DOMAIN final}
    \ {"unknown", Target(final, area)}

============================================================================
