-------------------------- MODULE EntityResolution --------------------------
(***************************************************************************)
(* services/entity_resolution.py: resolve_entities, the last part of a     *)
(* table decision.  Each word of the question is looked for in each label  *)
(* column of the probe registry (neo4j_client/db_probe.py), then the codes *)
(* of the labels found are looked up.  A query that fails counts as one    *)
(* that finds nothing.  The call's inputs are the constant record          *)
(* `entity', chosen at the start: whether resolution is enabled, whether   *)
(* the registry can be loaded, its label columns in order, the words that  *)
(* the question and the hypothetical schema give, and the rows of the code *)
(* tables, [column, code, text, padded, copy]: `text' is the label without *)
(* the blanks around it, `padded' says that it has some, `copy' tells rows *)
(* with the same code and label apart.                                     *)
(***************************************************************************)
EXTENDS Naturals, FiniteSets, Sequences, SequencesExt, Ordering

CONSTANTS
  Texts,        \* labels
  LabelsWith,   \* [word -> labels that contain it]
  StopWords,    \* words _entity_keywords leaves out
  MaxMentions,  \* 12
  ValueLimit,   \* db_probe_value_limit, 5
  LookupLimit,  \* 10
  MaxValues     \* _MAX_RESOLVED_VALUES, 5

VARIABLES
  entity,     \* the inputs
  stage,      \* what resolve_entities awaits
  pairs,      \* mentions and columns not dealt with yet
  found,      \* probe_results: [pairs -> labels], pairs without any left out
  resolved,   \* resolved_entities, [mention, column, values]
  suggested,  \* suggested_probes, [mention, column]
  status,     \* resolution_status
  swallowed   \* pairs with a query that failed (history)

entityVars == <<entity, stage, pairs, found, resolved, suggested, status, swallowed>>

ASSUME ResolutionAssumption ==
  /\ \A word \in DOMAIN LabelsWith : LabelsWith[word] \subseteq Texts
  /\ MaxMentions \in Nat
  /\ {ValueLimit, LookupLimit, MaxValues} \subseteq Nat \ {0, 1}

(* The inputs: LabelsWith knows every word that is looked for.             *)
IsEntity(e) ==
  /\ e.enabled \in BOOLEAN /\ e.registry \in BOOLEAN
  /\ e.words \in Seq((DOMAIN LabelsWith) \cup StopWords) /\ e.columns \in Seq(STRING)
  /\ IsFiniteSet(e.rows)
  /\ e.rows \subseteq
       [column : STRING, code : Nat, text : Texts, padded : BOOLEAN, copy : Nat]

Stages == {"idle", "pool", "probing", "lookup", "done"}

EntityTypeOK ==
  /\ stage \in Stages
  /\ \A p \in DOMAIN found : found[p] \subseteq Texts /\ found[p] # {}
  /\ \A e \in resolved : e.values # {} /\ Cardinality(e.values) <= MaxValues
  /\ status \in {"none", "skipped", "failed", "partial", "complete"}

EntityInit(inputs) ==
  /\ entity \in inputs
  /\ stage = "idle" /\ pairs = <<>> /\ found = <<>>
  /\ resolved = {} /\ suggested = {} /\ status = "none" /\ swallowed = {}

----------------------------------------------------------------------------
(* _entity_keywords: the words without the stop words, each once, in the   *)
(* order they come, the first MaxMentions of them.                         *)
Mentions ==
  LET s      == entity.words
      firsts == {i \in DOMAIN s : s[i] \notin StopWords /\ \A j \in 1..(i - 1) : s[j] # s[i]}
      order  == SortedBy(firsts, Rising(firsts))
      n      == IF Cardinality(firsts) < MaxMentions THEN Cardinality(firsts) ELSE MaxMentions
  IN  [i \in 1..n |-> s[order[i]]]

(* Every mention with every column, the columns of one mention together.   *)
Pairs ==
  LET n == Len(entity.columns)
  IN  [i \in 1..(Len(Mentions) * n) |->
         [mention |-> Mentions[((i - 1) \div n) + 1],
          column  |-> entity.columns[((i - 1) % n) + 1]]]

Matching(p) == {r \in entity.rows : r.column = p.column /\ r.text \in LabelsWith[p.mention]}

Subsets(S, n) ==
  {T \in SUBSET S : Cardinality(T) = IF Cardinality(S) < n THEN Cardinality(S) ELSE n}

(* ORDER BY code LIMIT n; rows of one code come in any order.              *)
Lowest(S, n) == {T \in Subsets(S, n) : \A r \in T, s \in S \ T : r.code <= s.code}

(* limited_db_probe: DISTINCT labels without an order, stripped afterwards. *)
ProbeValues(p) ==
  {{v[1] : v \in V} : V \in Subsets({<<r.text, r.padded>> : r \in Matching(p)}, ValueLimit)}

(* _lookup_code_label_pairs_for_values: the stripped labels are compared   *)
(* with the stored ones.                                                   *)
ByValues(p, texts) ==
  Lowest({r \in entity.rows : r.column = p.column /\ r.text \in texts /\ ~r.padded},
         LookupLimit)

(* _lookup_code_label_pairs                                                *)
ByKeyword(p) == Lowest(Matching(p), LookupLimit)

CodeValues(rows) == {[code |-> r.code, text |-> r.text] : r \in rows}

----------------------------------------------------------------------------
Ends(how) == stage' = "done" /\ status' = how

Resolve ==
  /\ stage = "idle"
  /\ IF ~entity.enabled \/ Mentions = <<>>
     THEN Ends("skipped")
     ELSE stage' = "pool" /\ UNCHANGED status
  /\ UNCHANGED <<entity, pairs, found, resolved, suggested, swallowed>>

(* get_pg_pool, then the registry                                          *)
OpenPool(connected) ==
  /\ stage = "pool"
  /\ IF ~connected \/ ~entity.registry THEN Ends("failed") /\ UNCHANGED pairs
     ELSE IF entity.columns = <<>> THEN Ends("skipped") /\ UNCHANGED pairs
     ELSE stage' = "probing" /\ pairs' = Pairs /\ UNCHANGED status
  /\ UNCHANGED <<entity, found, resolved, suggested, swallowed>>

(* One turn of batch_db_probe; after the last one the pairs with a value   *)
(* are looked up in the same order.                                        *)
Probe ==
  /\ stage = "probing" /\ pairs # <<>>
  /\ \/ \E texts \in ProbeValues(Head(pairs)) :
          /\ found' = IF texts = {} THEN found
                      ELSE [p \in DOMAIN found \cup {Head(pairs)} |->
                              IF p = Head(pairs) THEN texts ELSE found[p]]
          /\ UNCHANGED swallowed
     \/ swallowed' = swallowed \cup {Head(pairs)} /\ UNCHANGED found
  /\ pairs' = Tail(pairs)
  /\ UNCHANGED <<entity, stage, resolved, suggested, status>>

ProbesDone ==
  /\ stage = "probing" /\ pairs = <<>>
  /\ stage' = "lookup"
  /\ pairs' = Filtered(Pairs, DOMAIN found)
  /\ UNCHANGED <<entity, found, resolved, suggested, status, swallowed>>

(* Mutation: a probe is suggested only for more values than are returned.  *)
AmbiguousAboveMax(values) == Cardinality(values) > MaxValues

(* _append_resolution: more than one value needs a probe of the caller.    *)
Ambiguous(values) == Cardinality(values) > 1

AppendResolution(p, rows) ==
  \E first \in Lowest(rows, MaxValues) :
    LET values == CodeValues(first)
    IN  /\ resolved' = resolved \cup {[mention |-> p.mention, column |-> p.column,
                                        values |-> values]}
        /\ suggested' = IF Ambiguous(values) THEN suggested \cup {p} ELSE suggested

(* The labels' codes; when there are none, or that query fails, the codes  *)
(* of the labels that contain the word.                                    *)
LookUp ==
  /\ stage = "lookup" /\ pairs # <<>>
  /\ LET p == Head(pairs)
         Failed == swallowed' = swallowed \cup {p}
     IN  \/ \E rows \in ByValues(p, found[p]) \ {{}} :
              AppendResolution(p, rows) /\ UNCHANGED swallowed
         \/ /\ {} \in ByValues(p, found[p])
            /\ \E rows \in ByKeyword(p) : AppendResolution(p, rows)
            /\ UNCHANGED swallowed
         \/ Failed /\ \E rows \in ByKeyword(p) : AppendResolution(p, rows)
         \/ Failed /\ UNCHANGED <<resolved, suggested>>
  /\ pairs' = Tail(pairs)
  /\ UNCHANGED <<entity, stage, found, status>>

Conclude ==
  /\ stage = "lookup" /\ pairs = <<>>
  /\ Ends(IF resolved # {} /\ suggested = {} THEN "complete"
          ELSE IF resolved # {} \/ suggested # {} THEN "partial"
          ELSE "failed")
  /\ UNCHANGED <<entity, pairs, found, resolved, suggested, swallowed>>

EntityNext(connected) ==
  \/ Resolve \/ OpenPool(connected) \/ Probe \/ ProbesDone \/ LookUp \/ Conclude

----------------------------------------------------------------------------
(* What the answer has for a mention and a column.                         *)
Answers(p) ==
  {e.values : e \in {f \in resolved : f.mention = p.mention /\ f.column = p.column}}

(* Labels without blanks around them, each row there once.                 *)
Plain(p) ==
  /\ \A r \in Matching(p) : ~r.padded
  /\ \A r, s \in Matching(p) : r.code = s.code /\ r.text = s.text => r = s

(* entity_resolution.py:208-364, db_probe.py:93-143: under the status      *)
(* "complete" a mention is left out of a column only when nothing matches  *)
(* there or a query of theirs failed; and what is given is exactly the one *)
(* code and label there are.  Neither a failure, which is swallowed, nor a *)
(* cut, of the values probed, of the codes looked up and of those          *)
(* returned, ever leaves a part of the codes.  Two cases are out of reach: *)
(* a label with blanks around it, which is stripped and then not found     *)
(* again, and rows that repeat a code, which fill a LIMIT with one value.  *)
CompleteIsExact ==
  status = "complete" =>
    \A p \in ToSet(Pairs) :
      /\ Answers(p) = {} => Matching(p) = {} \/ p \in swallowed
      /\ Answers(p) # {} /\ Plain(p) =>
           /\ Answers(p) = {CodeValues(Matching(p))}
           /\ Cardinality(CodeValues(Matching(p))) = 1

(* docs/api_spec_v0.7.md:183, `complete` | 모든 mention 코드 해소: under   *)
(* that status there is a code for every mention, at least when no query   *)
(* failed.                                                                 *)
EveryMentionResolved ==
  status = "complete" /\ swallowed = {} =>
    \A i \in DOMAIN Mentions : \E e \in resolved : e.mention = Mentions[i]

============================================================================
