----------------------------- MODULE Vectorizer -----------------------------
(***************************************************************************)
(* services/neo4j_client/vectorizer.py: run_vectorizer, started by         *)
(* POST /vectorize of neo4j_client/api.py, possibly twice at a time.  A    *)
(* job reads the tables without a vector once, then embeds and stores them *)
(* batch by batch.                                                         *)
(***************************************************************************)
EXTENDS MetaGraph

CONSTANTS
  Jobs,       \* calls of POST /vectorize
  BatchSize   \* batch_size, 100 in the code

VARIABLES
  job,        \* [Jobs -> place of the call]
  todo,       \* [Jobs -> tables fetched and not stored yet, with their text]
  vectors,    \* [Jobs -> tables of the batch the provider made a vector for]
  drivers,    \* jobs whose Neo4j driver is open
  fetched,    \* [Jobs -> tables the job found without a vector] (history)
  settled,    \* [Jobs -> tables it stored or got no vector for] (history)
  overtaken   \* tables whose text changed while a job held it (history)

vectorizerVars == <<job, todo, vectors, drivers, fetched, settled, overtaken>>

ASSUME BatchAssumption == BatchSize \in Nat \ {0}

Places == {"idle", "fetching", "embedding", "writing", "index", "done", "failed"}

VectorizerTypeOK ==
  /\ job \in [Jobs -> Places]
  /\ todo \in [Jobs -> Seq(Tables \X Nat)]
  /\ vectors \in [Jobs -> SUBSET Tables]
  /\ fetched \in [Jobs -> SUBSET Tables] /\ settled \in [Jobs -> SUBSET Tables]
  /\ drivers \in SUBSET Jobs /\ overtaken \in SUBSET Tables

VectorizerInit ==
  /\ job = [j \in Jobs |-> "idle"]
  /\ todo = [j \in Jobs |-> <<>>]
  /\ vectors = [j \in Jobs |-> {}]
  /\ fetched = [j \in Jobs |-> {}] /\ settled = [j \in Jobs |-> {}]
  /\ drivers = {} /\ overtaken = {}

Moves(j, place) == job' = [job EXCEPT ![j] = place]

Held(j) == {todo[j][i][1] : i \in DOMAIN todo[j]}

Batch(j) == Upto(todo[j], BatchSize)

BatchTables(j) == {Batch(j)[i][1] : i \in DOMAIN Batch(j)}

StartJob(j) ==
  /\ job[j] = "idle" /\ Moves(j, "fetching")
  /\ drivers' = drivers \cup {j}
  /\ UNCHANGED <<graphVars, todo, vectors, fetched, settled, overtaken>>

InOrder(S) == {s \in SetToSeqs(S) : \A m, n \in DOMAIN s : m < n => s[m] < s[n]}

(* _fetch_tables_missing_vector, by schema and name; every table has a     *)
(* text here.                                                              *)
FetchMissing(j) ==
  /\ job[j] = "fetching"
  /\ \E missing \in InOrder(Tables \ Vectorised) :
       /\ todo' = [todo EXCEPT ![j] = [i \in DOMAIN missing |->
                                         <<missing[i], text[missing[i]]>>]]
       /\ fetched' = [fetched EXCEPT ![j] = Tables \ Vectorised]
       /\ Moves(j, IF missing = <<>> THEN "index" ELSE "embedding")
  /\ UNCHANGED <<graphVars, vectors, drivers, settled, overtaken>>

(* embed_batch returns one vector for each text, possibly an empty one.    *)
EmbedBatch(j) ==
  /\ job[j] = "embedding" /\ Moves(j, "writing")
  /\ \E made \in SUBSET BatchTables(j) :
       /\ vectors' = [vectors EXCEPT ![j] = made]
       /\ settled' = [settled EXCEPT ![j] = @ \cup (BatchTables(j) \ made)]
  /\ UNCHANGED <<graphVars, todo, drivers, fetched, overtaken>>

(* _write_vectors: the vector of the text that was fetched, whatever the   *)
(* node holds by now.                                                      *)
Stored(j) ==
  [t \in Tables |->
     IF t \in vectors[j]
     THEN (CHOOSE p \in {Batch(j)[i] : i \in DOMAIN Batch(j)} : p[1] = t)[2]
     ELSE vector[t]]

(* Mutation: the first table of the next batch is lost between batches.    *)
RestSkipsOne(j) == SubSeq(todo[j], BatchSize + 2, Len(todo[j]))

Rest(j) == SubSeq(todo[j], BatchSize + 1, Len(todo[j]))

WriteBatch(j) ==
  /\ job[j] = "writing"
  /\ vector' = Stored(j)
  /\ todo' = [todo EXCEPT ![j] = Rest(j)]
  /\ vectors' = [vectors EXCEPT ![j] = {}]
  /\ settled' = [settled EXCEPT ![j] = @ \cup vectors[j]]
  /\ Moves(j, IF Rest(j) # <<>> THEN "embedding" ELSE "index")
  /\ UNCHANGED <<live, text, indexed, changes, drivers, fetched, overtaken>>

(* _ensure_vector_index swallows every error; then the driver is closed.   *)
EnsureIndex(j) ==
  /\ job[j] = "index" /\ Moves(j, "done")
  /\ indexed' \in {indexed, TRUE}
  /\ drivers' = drivers \ {j}
  /\ UNCHANGED <<live, text, vector, changes, todo, vectors, fetched, settled, overtaken>>

(* Any query or the provider raises: 500, and the driver stays open.  A    *)
(* batch without a vector is not written.                                  *)
JobFails(j) ==
  /\ job[j] \in {"fetching", "embedding", "writing"} /\ Moves(j, "failed")
  /\ job[j] = "writing" => vectors[j] # {}
  /\ todo' = [todo EXCEPT ![j] = <<>>] /\ vectors' = [vectors EXCEPT ![j] = {}]
  /\ UNCHANGED <<graphVars, drivers, fetched, settled, overtaken>>

(* The ingest, with the history of what it overtakes.                      *)
Ingest(t) ==
  \/ /\ RewriteText(t)
     /\ overtaken' = IF \E j \in Jobs : t \in Held(j) THEN overtaken \cup {t}
                                                      ELSE overtaken
     /\ UNCHANGED <<job, todo, vectors, drivers, fetched, settled>>
  \/ ToggleTable(t) /\ UNCHANGED vectorizerVars

Running == {j \in Jobs : job[j] \in {"fetching", "embedding", "writing", "index"}}

JobStep(j) ==
  \/ StartJob(j) \/ FetchMissing(j) \/ EmbedBatch(j)
  \/ WriteBatch(j) \/ EnsureIndex(j) \/ JobFails(j)

----------------------------------------------------------------------------
(* A vector that does not belong to the text of its table was stored by a  *)
(* job that had read the text before it was rewritten; it then stays,      *)
(* because only tables without a vector are fetched.  Nothing else makes   *)
(* vectors stale: not the batches, not two jobs at a time, not a job that  *)
(* fails half way.  And a job that ends well has stored a vector for every *)
(* table it fetched, or was given an empty one (vectorizer.py:18-44,       *)
(* :98-113).                                                               *)
VectorsFollowTexts ==
  /\ \A t \in Tables : vector[t] \notin {0, text[t]} => t \in overtaken
  /\ \A j \in Jobs : job[j] = "done" => settled[j] = fetched[j]

(* The driver of a job is open as long as it runs, and for good when it    *)
(* failed (vectorizer.py:78, :120).                                        *)
DriversClosed == drivers = Running \cup {j \in Jobs : job[j] = "failed"}

============================================================================
