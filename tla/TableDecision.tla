--------------------------- MODULE TableDecision ---------------------------
(***************************************************************************)
(* services/decision_service.py: decide, one call.  Each await is the end  *)
(* of an action: the LLM, the embeddings, two vector searches, the keyword *)
(* fallback, the three sources of joins, the labels, the columns.  The     *)
(* question and what the models make of it is the constant record `ask',   *)
(* chosen at the start: table_limit, whether OPENAI_API_KEY is set, the    *)
(* similarity of each table to the hypothetical schema and to the          *)
(* question, the share of tokens each table contains, and the edges of the *)
(* graph between table keys.                                               *)
(***************************************************************************)
EXTENDS MetaGraph, CandidateSelection

CONSTANTS
  Area,           \* [Tables -> subject area]
  WithColumns,    \* tables with a column that contains a keyword
  JoinOntology,   \* JOIN_ONTOLOGY_ENABLED
  JoinConvention  \* JOIN_CONVENTION_ENABLED

VARIABLES
  ask,       \* the request, and what the models make of it
  place,     \* what decide awaits
  hyde,      \* hyde_out is not None
  embedded,  \* embeddings there are, of "hyde" and "question"
  hits,      \* tables_hyde and tables_question
  pool,      \* merged_full
  pruned,    \* merged
  fallback,  \* the keyword query was used
  bridges,   \* bridges_all
  final,     \* final_merged
  response   \* DecisionResponse, before the entities

decisionVars == <<ask, place, hyde, embedded, hits, pool, pruned, fallback,
                  bridges, final, response>>

NoResponse == [target |-> "none", secondary |-> {}, groups |-> {},
               labels |-> <<>>, matched |-> {}]

DecisionPlaces == {"idle", "hyde", "embed", "search_hyde", "search_question",
                   "keyword", "fk", "ontology", "convention", "labels",
                   "columns", "answered", "raised"}

Candidates(s) == \A i \in DOMAIN s :
  s[i].table \in Tables /\ s[i].key = Key[s[i].table] /\ s[i].score \in 0..TopScore

(* A request: similarities in percent, the share of tokens in permille.    *)
IsAsk(a) ==
  /\ a.limit \in Nat /\ a.openai \in BOOLEAN
  /\ a.sim.hyde \in [Tables -> 0..100] /\ a.sim.question \in [Tables -> 0..100]
  /\ a.words \in [Tables -> 0..1000]

DecisionTypeOK ==
  /\ place \in DecisionPlaces
  /\ hyde \in BOOLEAN /\ fallback \in BOOLEAN
  /\ embedded \in SUBSET {"hyde", "question"}
  /\ DOMAIN hits = {"hyde", "question"}
  /\ Candidates(pool) /\ Candidates(pruned) /\ Candidates(final)
  /\ bridges \in SUBSET ask.edges

DecisionInit(asks) ==
  /\ ask \in asks
  /\ place = "idle" /\ hyde = FALSE /\ embedded = {}
  /\ hits = [hyde |-> <<>>, question |-> <<>>]
  /\ pool = <<>> /\ pruned = <<>> /\ fallback = FALSE
  /\ bridges = {} /\ final = <<>> /\ response = NoResponse

Goes(p) == place' = p

(* settings.openai_enabled                                                 *)
Receive ==
  /\ place = "idle"
  /\ IF ask.openai
     THEN Goes("hyde") /\ UNCHANGED <<pool, pruned, fallback>>
     ELSE Goes("keyword") /\ fallback' = TRUE /\ UNCHANGED <<pool, pruned>>
  /\ UNCHANGED <<ask, hyde, embedded, hits, bridges, final, response>>

(* HydeSchemaGenerator.generate: the call may fail, the reply may not be   *)
(* JSON of the schema, or make a text shorter than 20 characters.          *)
HydeReplies == {"error", "unparsable", "thin", "usable"}

GenerateHyde ==
  /\ place = "hyde" /\ Goes("embed")
  /\ \E reply \in HydeReplies : hyde' = (reply = "usable")
  /\ UNCHANGED <<ask, embedded, hits, pool, pruned, fallback, bridges, final, response>>

(* embed_batch gives a vector for each text, or raises and there is none.  *)
Embed ==
  /\ place = "embed"
  /\ \/ /\ embedded' = (IF hyde THEN {"hyde", "question"} ELSE {"question"})
        /\ Goes(IF hyde THEN "search_hyde" ELSE "search_question")
        /\ UNCHANGED fallback
     \/ embedded' = {} /\ fallback' = TRUE /\ Goes("keyword")
  /\ UNCHANGED <<ask, hyde, hits, pool, pruned, bridges, final, response>>

Limit == SearchLimit(ask.limit)

(* search_tables_by_vector: the index, or the scan when the query of the   *)
(* index fails for whatever reason.                                        *)
Searches(score) ==
  {ScanSearch(score, Limit)} \cup
  (IF indexed THEN {IndexSearch(score, Limit)} ELSE {})

SearchHyde ==
  /\ place = "search_hyde" /\ Goes("search_question")
  /\ \E found \in Searches(ask.sim.hyde) : hits' = [hits EXCEPT !.hyde = found]
  /\ UNCHANGED <<ask, hyde, embedded, pool, pruned, fallback, bridges, final, response>>

(* The second search, the merge and the first pruning.                     *)
SearchQuestion ==
  /\ place = "search_question"
  /\ \E found \in Searches(ask.sim.question) :
       /\ hits' = [hits EXCEPT !.question = found]
       /\ pool' = Merge(hits.hyde, found, ask.sim, Key, Limit)
  /\ pruned' = Prune(pool', Limit)
  /\ fallback' = (pruned' = <<>>)
  /\ Goes(IF pruned' = <<>> THEN "keyword" ELSE "fk")
  /\ UNCHANGED <<ask, hyde, embedded, bridges, final, response>>

(* _decide_keyword cuts at DECISION_VECTOR_TOPK, not at table_limit.       *)
SearchKeywords ==
  LET found == KeywordSearch(ask.words, FallbackLimit)
  IN  /\ place = "keyword"
      /\ pool' = [i \in DOMAIN found |-> [table |-> found[i], key |-> Key[found[i]],
                                          score |-> ask.words[found[i]]]]
      /\ pruned' = Prune(pool', Limit)
      /\ Goes(IF pruned' = <<>> THEN "labels" ELSE "fk")
      /\ UNCHANGED <<ask, hyde, embedded, hits, fallback, bridges, final, response>>

(* After the last query for joins, the final tables are chosen.            *)
Choose(bs) ==
  /\ \E s \in Finals(pool, pruned, bs, Limit) : final' = CutFinal(s, ask.limit)
  /\ Goes("labels")

(* Each source is asked for the candidates no earlier source joined, if    *)
(* there are at least two.                                                 *)
NeedsMore(bs) ==
  Cardinality({i \in DOMAIN pool : pool[i].key \in Isolated(Keys(pool), bs)}) >= 2

AfterOntology(bs) ==
  IF JoinConvention /\ NeedsMore(bs) THEN Goes("convention") /\ UNCHANGED final
                                     ELSE Choose(bs)

JoinFk ==
  /\ place = "fk"
  /\ bridges' = FkRows(ask.edges, Keys(pool))
  /\ IF JoinOntology /\ NeedsMore(bridges')
     THEN Goes("ontology") /\ UNCHANGED final
     ELSE AfterOntology(bridges')
  /\ UNCHANGED <<ask, hyde, embedded, hits, pool, pruned, fallback, response>>

(* Mutation: the second source is asked for every table.                   *)
OntologyKeysAll == Keys(pool)

OntologyKeys == Isolated(Keys(pool), bridges)

ConventionKeys == Isolated(Keys(pool), bridges)

JoinByOntology ==
  /\ place = "ontology"
  /\ \E rows \in OntologyRows(ask.edges, OntologyKeys) :
       /\ bridges' = bridges \cup rows
       /\ AfterOntology(bridges')
  /\ UNCHANGED <<ask, hyde, embedded, hits, pool, pruned, fallback, response>>

JoinByConvention ==
  /\ place = "convention"
  /\ \E rows \in ConventionRows(ask.edges, ConventionKeys) :
       /\ bridges' = bridges \cup rows
       /\ Choose(bridges')
  /\ UNCHANGED <<ask, hyde, embedded, hits, pool, pruned, fallback, response>>

(* _resolve_db_label for each final table; classification needs no await.  *)
ReadLabels ==
  /\ place = "labels" /\ Goes("columns")
  /\ \E labels \in [DOMAIN final -> UNION {DbLabels(t) : t \in Tables}] :
       /\ \A i \in DOMAIN final : labels[i] \in DbLabels(final[i].table)
       /\ response' = [response EXCEPT !.labels = labels]
  /\ UNCHANGED <<ask, hyde, embedded, hits, pool, pruned, fallback, bridges, final>>

(* _attach_matched_columns goes by schema and name; then target, secondary *)
(* targets and join groups.                                                *)
Respond ==
  /\ place = "columns" /\ Goes("answered")
  /\ response' = [response EXCEPT
       !.matched = {final[i].table : i \in {j \in DOMAIN final :
                      \E t \in WithColumns : Key[t] = final[j].key}},
       !.target = Target(final, Area),
       !.secondary = Secondary(final, Area),
       !.groups = JoinGroups(final, Keys(pool), bridges)]
  /\ UNCHANGED <<ask, hyde, embedded, hits, pool, pruned, fallback, bridges, final>>

(* No query of decide but the one of the index is guarded; without a final *)
(* table none is made for labels and columns.                              *)
QueryRaises ==
  /\ \/ place \in {"search_hyde", "search_question", "keyword", "fk", "ontology", "convention"}
     \/ place \in {"labels", "columns"} /\ final # <<>>
  /\ Goes("raised")
  /\ UNCHANGED <<ask, hyde, embedded, hits, pool, pruned, fallback, bridges, final, response>>

DecisionNext ==
  \/ Receive \/ GenerateHyde \/ Embed \/ SearchHyde \/ SearchQuestion
  \/ SearchKeywords \/ JoinFk \/ JoinByOntology \/ JoinByConvention
  \/ ReadLabels \/ Respond \/ QueryRaises

----------------------------------------------------------------------------
Chosen == place \in {"labels", "columns", "answered"}

Scores(s) == [i \in DOMAIN s |-> s[i].score]

Distinct(s) == \A i, j \in DOMAIN s : s[i].key = s[j].key => i = j

(* Pruning after the join expansion takes away whatever the expansion      *)
(* added, and nothing else: a neighbour of the first table was below the   *)
(* tables pruned before, so it falls at the same cutoff, step or limit.    *)
(* Only tables of the same score may be exchanged, and only when the pool  *)
(* holds two tables of one name does the first table itself get lost       *)
(* (decision_service.py:146-222).                                          *)
ExpansionAddsNothing ==
  Chosen /\ Distinct(pool) => Scores(final) = Scores(CutFinal(pruned, ask.limit))

(* Every bridge between two tables of the answer is in exactly one group,  *)
(* and with it both its tables, although classes are built over the whole  *)
(* pool before the answer is cut (decision_service.py:567-577, :779-801).  *)
GroupsKeepBridges ==
  place = "answered" =>
    /\ \A b \in bridges : b.from # b.to /\ {b.from, b.to} \subseteq Keys(final) =>
         Cardinality({g \in response.groups : b \in g.bridges}) = 1
    /\ \A g \in response.groups :
         /\ g.members \subseteq Keys(final)
         /\ \A b \in g.bridges : {b.from, b.to} \subseteq g.members
         /\ \A h \in response.groups : g # h => g.members \cap h.members = {}

(* A bridge of a weaker source never touches a table that a stronger       *)
(* source joined to another one: names never override keys.  A key from a  *)
(* table to itself does not count (decision_service.py:610-702).           *)
WeakerSourcesFillGaps ==
  \A b, c \in bridges :
    \/ b.via = "fk" /\ c.via # "fk" /\ b.from # b.to
    \/ b.via = "ontology" /\ c.via = "convention"
    => {b.from, b.to} \cap {c.from, c.to} = {}

(* The allowlist of schemas is what every vector search obeys, with the    *)
(* index or without; a table outside it can only come from the keyword     *)
(* fallback, which has no such filter (vector_search.py:36-117,            *)
(* decision_service.py:319-354).                                           *)
OutOfScopeOnlyByFallback ==
  \A i \in DOMAIN pool : pool[i].table \notin InScope => fallback

============================================================================
