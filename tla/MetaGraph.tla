------------------------------ MODULE MetaGraph ------------------------------
(***************************************************************************)
(* The Neo4j metadata graph as the legacy table pipeline reads it          *)
(* (services/neo4j_client/vector_search.py and the queries in              *)
(* services/decision_service.py), and the ingest that changes it           *)
(* (external).  Tables are numbered in the order of schema and name, which *)
(* here is also that of the names alone.  The text a vector is made from   *)
(* is a version number; version 0 of a vector is no vector.                *)
(***************************************************************************)
EXTENDS Naturals, FiniteSets, Sequences, SequencesExt, Ordering

CONSTANTS
  Tables,      \* :Table nodes
  Key,         \* [Tables -> Nat], lower-case schema.name: datasources may share it
  InScope,     \* tables whose schema DECISION_SCHEMA_ALLOWLIST admits
  Mart,        \* keys of tables named fct_...
  DbLabel,     \* [Tables -> label], Schema.db or DataSource.engine or the default
  Anonymous,   \* tables without a datasource
  JoinLimit,   \* JOIN_FK_LIMIT, JOIN_ONTOLOGY_LIMIT, JOIN_CONVENTION_LIMIT
  MaxChanges   \* bound: number of changes the ingest makes

VARIABLES
  live,        \* tables whose text_to_sql_db_exists is not false
  text,        \* [Tables -> Nat], version of text_to_sql_embedding_text
  vector,      \* [Tables -> Nat], version text_to_sql_vector was made from
  indexed,     \* text_to_sql_table_vec_index exists
  changes      \* number of changes made so far (bounds the ingest)

graphVars == <<live, text, vector, indexed, changes>>

ASSUME GraphAssumption ==
  /\ Tables \subseteq Nat /\ IsFiniteSet(Tables)
  /\ Key \in [Tables -> Nat]
  /\ InScope \subseteq Tables /\ Anonymous \subseteq Tables
  /\ JoinLimit \in Nat /\ MaxChanges \in Nat

GraphTypeOK ==
  /\ live \in SUBSET Tables
  /\ text \in [Tables -> Nat] /\ vector \in [Tables -> Nat]
  /\ indexed \in BOOLEAN
  /\ changes \in 0..MaxChanges

GraphInit(vectorised) ==
  /\ live = Tables
  /\ text = [t \in Tables |-> 1]
  /\ vector = [t \in Tables |-> IF t \in vectorised THEN 1 ELSE 0]
  /\ indexed \in BOOLEAN
  /\ changes = 0

----------------------------------------------------------------------------
Upto(s, n) == SubSeq(s, 1, IF n < Len(s) THEN n ELSE Len(s))

(* ORDER BY score DESC, schema ASC, name ASC                               *)
Nearest(S, score) ==
  SortedBy(S, {p \in S \X S : \/ score[p[1]] > score[p[2]]
                              \/ score[p[1]] = score[p[2]] /\ p[1] < p[2]})

Vectorised == {t \in Tables : vector[t] # 0}

(* The index yields its k nearest nodes; the WHERE comes after that.       *)
IndexSearch(score, k) ==
  Filtered(Upto(Nearest(Vectorised, score), k), live \cap InScope)

(* Mutation: the scan forgets the schema filter.                           *)
ScanAnySchema(score, k) == Upto(Nearest(Vectorised \cap live, score), k)

(* Without an index, or when its query fails, every vector is compared.    *)
ScanSearch(score, k) == Upto(Nearest(Vectorised \cap live \cap InScope, score), k)

(* _decide_keyword: any live table that contains a token.                  *)
KeywordSearch(score, k) == Upto(Nearest({t \in live : score[t] > 0}, score), k)

Within(edges, keys, via) ==
  {e \in edges : e.via = via /\ e.from \in keys /\ e.to \in keys}

EarlierEdge(e, f) ==
  \/ e.from < f.from
  \/ e.from = f.from /\ e.to < f.to

(* fetch_fk_relationships: ordered, so LIMIT keeps the first rows.         *)
FkRows(edges, keys) ==
  LET rows == Within(edges, keys, "fk")
  IN  {e \in rows : Cardinality({f \in rows : EarlierEdge(f, e)}) < JoinLimit}

(* LIMIT without an order: any rows.                                       *)
AnyRows(rows) ==
  {R \in SUBSET rows :
     Cardinality(R) = IF Cardinality(rows) < JoinLimit THEN Cardinality(rows)
                                                       ELSE JoinLimit}

(* fetch_ontology_relationships: fqn1 < fqn2                               *)
OntologyRows(edges, keys) ==
  AnyRows({e \in Within(edges, keys, "ontology") : e.from < e.to})

(* fetch_convention_joins: pairs of two marts are dropped after the LIMIT. *)
ConventionRows(edges, keys) ==
  {{e \in R : ~(e.from \in Mart /\ e.to \in Mart)} :
     R \in AnyRows({e \in Within(edges, keys, "convention") : e.from < e.to})}

(* _resolve_db_label: by datasource when the candidate has one, else by    *)
(* name alone, and then any table of that name may give the label.         *)
DbLabels(t) ==
  {DbLabel[u] : u \in {v \in Tables : Key[v] = Key[t] /\ (v = t \/ t \in Anonymous)}}

----------------------------------------------------------------------------
(* The ingest: a table appears in or leaves the source database, or its    *)
(* text is written anew, which takes its vector away.                      *)
Change == changes < MaxChanges /\ changes' = changes + 1

ToggleTable(t) ==
  /\ Change
  /\ live' = IF t \in live THEN live \ {t} ELSE live \cup {t}
  /\ UNCHANGED <<text, vector, indexed>>

RewriteText(t) ==
  /\ Change
  /\ text' = [text EXCEPT ![t] = @ + 1]
  /\ vector' = [vector EXCEPT ![t] = 0]
  /\ UNCHANGED <<live, indexed>>

============================================================================
