-------------------------- MODULE DecisionPostgres --------------------------
(***************************************************************************)
(* POST /data_decision: one call of decision_postgres.decide through its   *)
(* awaits, against a catalogue that is being loaded.  Every query is a     *)
(* statement of its own on a connection of its own, so each sees another   *)
(* state.  Two calls share nothing they write.                             *)
(*                                                                         *)
(* A query for an empty set of ids returns at once without a connection;   *)
(* the code between two awaits, up to the next query that is really made,  *)
(* is one action.                                                          *)
(***************************************************************************)
EXTENDS Catalogue, Ordering, Integers, Sequences, FiniteSetsExt, SequencesExt

CONSTANTS
  LimitArgs,     \* values of table_limit a request may carry
  Unset,         \* table_limit is absent
  DefaultTopK    \* decision.table_top_k

ASSUME DecideAssumption ==
  /\ LimitArgs \subseteq 1..50 \cup {Unset}
  /\ Unset \notin Nat
  /\ DefaultTopK \in Nat \ {0}

VARIABLES
  pc,         \* the await the handler is in
  topK,       \* effective_top_k
  columns,    \* include_matched_columns
  resolve,    \* auto_resolve_entities
  pool,       \* the list `tables' of decide, [id, score] with percent scores
  named,      \* value mappings read
  mapped,     \* mapped_table_ids
  linked,     \* neighbor_ids
  matched,    \* tables search_columns returned columns for
  bridges,    \* join bridges
  code,       \* status code of the response, 0 before it
  touched     \* history: rows written since the call began

requestVars == <<topK, columns, resolve>>
readVars    == <<named, mapped, linked, matched, bridges>>

vars == <<catalogueVars, pc, requestVars, pool, readVars, code, touched>>

Waits == {"embedding", "searching", "mappings", "mapped tables", "neighbours",
          "neighbour tables", "columns", "fk bridges", "convention bridges"}

Candidate == [id : Tables, score : 0..100]

TypeOK ==
  /\ CatalogueTypeOK
  /\ pc \in {"idle", "done"} \cup Waits
  /\ topK \in Nat \ {0} /\ columns \in BOOLEAN /\ resolve \in BOOLEAN
  /\ pool \in Seq(Candidate)
  /\ named \in SUBSET Mappings
  /\ mapped \in SUBSET Tables /\ linked \in SUBSET Tables
  /\ matched \in SUBSET Tables
  /\ \A b \in bridges : b.from \in Columns /\ b.to \in Columns
  /\ code \in {0, 200, 500}
  /\ touched \in [tables : SUBSET Tables, fks : SUBSET Fks, mappings : SUBSET Mappings]

Nothing == [tables |-> {}, fks |-> {}, mappings |-> {}]

Init ==
  /\ CatalogueInit
  /\ pc = "idle"
  /\ topK = DefaultTopK /\ columns = TRUE /\ resolve = TRUE
  /\ pool = <<>>
  /\ named = {} /\ mapped = {} /\ linked = {} /\ matched = {} /\ bridges = {}
  /\ code = 0
  /\ touched = Nothing

----------------------------------------------------------------------------
(* max(1, min(50, table_limit)), or the configured default                 *)
EffectiveTopK(limit) ==
  IF limit = Unset THEN DefaultTopK ELSE Max({1, Min({50, limit})})

IdsOf(list) == {list[i].id : i \in DOMAIN list}

(* Rows in whatever order the database returns them.                       *)
Listed(ids, score) ==
  {[i \in DOMAIN s |-> [id |-> s[i], score |-> score]] : s \in SetToSeqs(ids)}

(* One entry per id, at its first place and with its best score.           *)
Deduplicated(list) ==
  LET Best(t) == Max({list[j].score : j \in {k \in DOMAIN list : list[k].id = t}})
      firsts  == {i \in DOMAIN list : \A j \in 1..(i - 1) : list[j].id # list[i].id}
      kept    == SortedBy(firsts, {pair \in firsts \X firsts : pair[1] < pair[2]})
  IN  [n \in DOMAIN kept |-> [id |-> list[kept[n]].id, score |-> Best(list[kept[n]].id)]]

(* sorted(..., key=score, reverse=True): equal scores keep their order.    *)
Precedes(list, i, j) ==
  \/ list[i].score > list[j].score
  \/ list[i].score = list[j].score /\ i < j

Sorted(list) ==
  LET places == DOMAIN list
      order  == SortedBy(places, {pair \in places \X places :
                                   Precedes(list, pair[1], pair[2])})
  IN  [i \in places |-> list[order[i]]]

Ranked(list) ==
  LET all == Sorted(Deduplicated(list)) IN SubSeq(all, 1, Min({topK, Len(all)}))

(* The bridges are looked for from two tables on; with fewer both queries  *)
(* return at once and the response is complete.                            *)
ToBridges(list) ==
  IF Len(list) >= 2 THEN pc' = "fk bridges" /\ UNCHANGED code
  ELSE pc' = "done" /\ code' = 200

(* All tables are there: rank them, then go for their columns.             *)
Rank(list) ==
  /\ pool' = Ranked(list)
  /\ IF columns /\ list # <<>> THEN pc' = "columns" /\ UNCHANGED code
     ELSE ToBridges(pool')

(* fk_neighbor_table_ids makes a query only when some table is mapped.     *)
ToNeighbours(list, ids) ==
  IF ids = {} THEN Rank(list)
  ELSE pc' = "neighbours" /\ pool' = list /\ UNCHANGED code

Still == UNCHANGED <<catalogueVars, requestVars, touched>>

----------------------------------------------------------------------------
Receive ==
  /\ pc = "idle"
  /\ \E limit \in LimitArgs : topK' = EffectiveTopK(limit)
  /\ columns' \in BOOLEAN /\ resolve' \in BOOLEAN
  /\ pc' = "embedding"
  /\ touched' = Nothing
  /\ UNCHANGED <<catalogueVars, pool, readVars, code>>

Embed ==
  /\ pc = "embedding"
  /\ pc' = "searching"
  /\ UNCHANGED <<pool, readVars, code>>
  /\ Still

Nearer == {pair \in Tables \X Tables : Similarity[pair[1]] > Similarity[pair[2]]}

(* The nearest top_k, nearest first                                        *)
SearchTables ==
  LET near == SortedBy(Near, Nearer)
  IN  /\ pc = "searching"
      /\ pool' = [i \in 1..Min({topK, Len(near)}) |->
                    [id |-> near[i], score |-> Similarity[near[i]]]]
      /\ pc' = "mappings"
      /\ UNCHANGED <<readVars, code>>
      /\ Still

FindMappings ==
  /\ pc = "mappings"
  /\ named' = mappings
  /\ mapped' = MappedTables(mappings)
  /\ IF mapped' \subseteq IdsOf(pool) THEN ToNeighbours(pool, mapped')
     ELSE pc' = "mapped tables" /\ UNCHANGED <<pool, code>>
  /\ UNCHANGED <<linked, matched, bridges>>
  /\ Still

(* Mutation: mapped tables are appended like search results.               *)
FetchMappedLast ==
  /\ pc = "mapped tables"
  /\ \E found \in Listed(FetchTables(mapped \ IdsOf(pool)), 50) :
       ToNeighbours(pool \o found, mapped)
  /\ UNCHANGED readVars
  /\ Still

(* score 1.0, insert(0, ...)                                               *)
FetchMapped ==
  /\ pc = "mapped tables"
  /\ \E found \in Listed(FetchTables(mapped \ IdsOf(pool)), 100) :
       ToNeighbours(found \o pool, mapped)
  /\ UNCHANGED readVars
  /\ Still

FindNeighbours ==
  /\ pc = "neighbours"
  /\ linked' = FkNeighbours(mapped)
  /\ IF linked' \subseteq IdsOf(pool) THEN Rank(pool)
     ELSE pc' = "neighbour tables" /\ UNCHANGED <<pool, code>>
  /\ UNCHANGED <<named, mapped, matched, bridges>>
  /\ Still

(* score 0.99, insert(1, ...): after the first table, if there is one      *)
FetchNeighbours ==
  /\ pc = "neighbour tables"
  /\ \E found \in Listed(FetchTables(linked \ IdsOf(pool)), 99) :
       Rank(SubSeq(pool, 1, 1) \o found \o SubSeq(pool, 2, Len(pool)))
  /\ UNCHANGED readVars
  /\ Still

SearchColumns ==
  /\ pc = "columns"
  /\ matched' = {t \in FetchTables(IdsOf(pool)) : \E c \in Columns : c[1] = t}
  /\ ToBridges(pool)
  /\ UNCHANGED <<pool, named, mapped, linked, bridges>>
  /\ Still

FindFkBridges ==
  /\ pc = "fk bridges"
  /\ bridges' = FkBridges(IdsOf(pool))
  /\ pc' = "convention bridges"
  /\ UNCHANGED <<pool, named, mapped, linked, matched, code>>
  /\ Still

(* Mutation: the ends of the keys are not taken out of the conventions.    *)
AddAllConventions ==
  /\ pc = "convention bridges"
  /\ bridges' = bridges \cup ConventionBridges(IdsOf(pool))
  /\ pc' = "done" /\ code' = 200
  /\ UNCHANGED <<pool, named, mapped, linked, matched>>
  /\ Still

(* A convention bridge is left out when a key has the same two ends.       *)
FindConventionBridges ==
  LET ends == {EndsOf(b) : b \in bridges}
  IN  /\ pc = "convention bridges"
      /\ bridges' = bridges \cup {b \in ConventionBridges(IdsOf(pool)) :
                                    EndsOf(b) \notin ends}
      /\ pc' = "done" /\ code' = 200
      /\ UNCHANGED <<pool, named, mapped, linked, matched>>
      /\ Still

(* The provider or a query raises; decide catches nothing.                 *)
Fails ==
  /\ pc \in Waits
  /\ pc' = "done" /\ code' = 500
  /\ UNCHANGED <<pool, readVars>>
  /\ Still

Loader ==
  /\ pc # "done"
  /\ \/ \E t \in Tables :
          LoadTable(t) /\ touched' = [touched EXCEPT !.tables = @ \cup {t}]
     \/ \E f \in Fks :
          LoadFk(f) /\ touched' = [touched EXCEPT !.fks = @ \cup {f}]
     \/ \E m \in Mappings :
          LoadMapping(m) /\ touched' = [touched EXCEPT !.mappings = @ \cup {m}]
  /\ UNCHANGED <<pc, requestVars, pool, readVars, code>>

Next ==
  \/ Receive
  \/ Embed \/ SearchTables \/ FindMappings \/ FetchMapped
  \/ FindNeighbours \/ FetchNeighbours \/ SearchColumns
  \/ FindFkBridges \/ FindConventionBridges \/ Fails
  \/ Loader

Spec == Init /\ [][Next]_vars

----------------------------------------------------------------------------
Answered == pc = "done" /\ code = 200

(* "complete" if entities else "partial"                                   *)
ResolutionStatus == IF resolve /\ named # {} THEN "complete" ELSE "partial"

(* What a call should find in a catalogue that stands still: the nearest   *)
(* top_k tables, those a mapping names and those a key links to these.     *)
Nearest == {t \in Near : Cardinality({u \in Near : Similarity[u] > Similarity[t]}) < topK}

Wanted ==
  LET direct == MappedTables(mappings)
      links  == UNION {{f.from[1], f.to[1]} : f \in JoinedFks}
      next   == {t \in links : \E f \in JoinedFks :
                   {f.from[1], f.to[1]} \cap direct # {} /\ t \in {f.from[1], f.to[1]}}
      Score(t) == IF t \in Nearest THEN Similarity[t]
                  ELSE IF t \in direct THEN 100 ELSE 99
  IN  {[id |-> t, score |-> Score(t)] : t \in Nearest \cup direct \cup next}

(* decision_postgres.py:111-155, six queries.  In a catalogue nobody       *)
(* writes to while the call runs, the candidates are the best top_k of the *)
(* tables a single reading of it would give, with the same scores.         *)
QuietCallIsAtomic ==
  Answered /\ touched = Nothing =>
    /\ Range(pool) \subseteq Wanted
    /\ Len(pool) = Min({topK, Cardinality(Wanted)})
    /\ \A w \in Wanted \ Range(pool) :
         \A i \in DOMAIN pool : pool[i].score >= w.score

(* decision_postgres.py:123-145: a table the vector search missed but a    *)
(* verified mapping names is not crowded out by neighbours or by search    *)
(* results, whatever is loaded meanwhile; only by other such tables, or by *)
(* being dropped.                                                          *)
MappedNotCrowdedOut ==
  Answered =>
    \A t \in mapped \ (IdsOf(pool) \cup touched.tables) :
      \/ t \in Near /\ (t \in Nearest \/ touched.tables # {})
      \/ /\ Len(pool) = topK
         /\ \A i \in DOMAIN pool : pool[i].id \in mapped /\ pool[i].score = 100

(* decision_postgres.py:172-208: every bridge joins two candidates.  No    *)
(* convention repeats, by the ends the response names, what a key says.    *)
(* And of the candidates that were not dropped meanwhile no join is lost:  *)
(* every key nobody wrote is a bridge of its own, and every convention is  *)
(* a bridge unless one with the same ends stands for it.                   *)
BridgesJoinCandidates ==
  Answered =>
    /\ \A b \in bridges : {b.from[1], b.to[1]} \subseteq IdsOf(pool)
    /\ \A b, c \in bridges : EndsOf(b) = EndsOf(c) => b.via = c.via
    /\ Len(pool) >= 2 =>
         /\ \A f \in fks \ touched.fks :
              {f.from[1], f.to[1]} \subseteq IdsOf(pool) \ touched.tables
                => FkBridge(f) \in bridges
         /\ \A b \in ConventionBridges(IdsOf(pool) \ touched.tables) :
              \E c \in bridges : EndsOf(c) = EndsOf(b)

(* docs/api_spec_v0.7.md:185: without auto_resolve_entities, or without a  *)
(* keyword, the status is "skipped".                                       *)
SkippedWhenNotAsked ==
  Answered /\ ~resolve => ResolutionStatus = "skipped"

============================================================================
