---------------------------- MODULE MetaService ----------------------------
(***************************************************************************)
(* The process of app/main.py: its lifespan with the two pools             *)
(* (app/db.py), and calls of the /meta routes (routers/meta.py,            *)
(* services/meta_postgres.py, services/metadata_repository.py) that share  *)
(* the connections of the metadata pool, while the catalogue is loaded.    *)
(* A query may hang: the pool has no command_timeout.                      *)
(***************************************************************************)
EXTENDS Catalogue, Sequences

CONSTANTS
  Calls,       \* requests to /meta/batch, /meta/table, /meta/column, /meta/ref
  Starts,      \* [settings, request]: contents of the settings file and its
               \* environment, and what each call asks, [route, db, name,
               \* column], names lower-case
  AnyDb,       \* db is null
  Db,          \* [Tables -> database]; it and Name are lower-case here
  PoolSize,    \* max_size of a pool, 4 in the code
  MaxHung      \* bound: queries that never return

VARIABLES
  settings,   \* what the settings file and the environment hold
  app,        \* place of the lifespan
  pools,      \* pools that are open
  status,     \* [Calls -> place of the request]
  step,       \* [Calls -> the query it is at or waits for]
  holders,    \* calls that hold a connection
  queue,      \* calls that wait for one, in order
  hung,       \* calls whose query does not return
  request,    \* [Calls -> what each asks]
  answer,     \* [Calls -> [table, columns, flagged, refs, code]]
  disturbed   \* calls during which a row was written (history)

lifeVars == <<settings, app, pools>>
leaseVars == <<holders, queue>>
vars == <<catalogueVars, lifeVars, leaseVars, status, step, hung, request, answer, disturbed>>

ASSUME ServiceAssumption ==
  /\ 0 \notin Tables /\ PoolSize \in Nat \ {0} /\ MaxHung \in Nat
  /\ \A t \in Tables : Db[t] # AnyDb
  /\ \A s \in Starts : \A c \in Calls : s.request[c].route \in {"batch", "table", "column", "ref"}

Steps == {"none", "list", "detail", "columns", "refs"}

NoTable == 0

Answer ==
  [table : Tables \cup {NoTable}, columns : SUBSET Columns, flagged : SUBSET Columns,
   refs : SUBSET Fks, code : {0, 200, 404, 500}]

NoAnswer == [table |-> NoTable, columns |-> {}, flagged |-> {}, refs |-> {}, code |-> 0]

LeasesOK ==
  /\ holders \in SUBSET Calls /\ hung \in SUBSET holders /\ queue \in Seq(Calls)
  /\ IsFiniteSet(holders) /\ Cardinality(holders) <= PoolSize

CallsOK ==
  /\ status \in [Calls -> {"idle", "running", "done"}] /\ step \in [Calls -> Steps]
  /\ answer \in [Calls -> Answer]
  /\ \A c \in Calls : answer[c].flagged \subseteq answer[c].columns
  /\ disturbed \in SUBSET Calls

TypeOK ==
  /\ CatalogueTypeOK /\ LeasesOK /\ CallsOK
  /\ app \in {"down", "repository", "v2", "serving", "draining", "closing v2",
              "closing", "stopped", "failed", "aborted"}
  /\ pools \in SUBSET {"metadata", "v2"}

Init ==
  /\ CatalogueInit
  /\ \E s \in Starts : settings = s.settings /\ request = s.request
  /\ app = "down" /\ pools = {}
  /\ status = [c \in Calls |-> "idle"] /\ step = [c \in Calls |-> "none"]
  /\ holders = {} /\ queue = <<>> /\ hung = {}
  /\ answer = [c \in Calls |-> NoAnswer]
  /\ disturbed = {}

----------------------------------------------------------------------------
(* load_runtime: the file is named and is a mapping, every setting is      *)
(* there and not empty (that of the key only for bearer), the secrets are  *)
(* in the environment, and the backends are the ones supported.            *)
Loads(s) ==
  /\ s.file /\ s.missing \subseteq (IF s.auth = "bearer" THEN {} ELSE {"api_key_ref"})
  /\ "password" \in s.secrets
  /\ s.auth \in {"none", "bearer"} /\ (s.auth = "bearer" => "api_key" \in s.secrets)
  /\ s.metadata = "postgres" /\ s.execution = "mindsdb"

Enters(place) == app' = place

Quiet == UNCHANGED <<catalogueVars, leaseVars, status, step, hung, request, answer, disturbed>>

(* init_runtime                                                            *)
LoadSettings ==
  /\ app = "down" /\ Enters(IF Loads(settings) THEN "repository" ELSE "failed")
  /\ UNCHANGED <<settings, pools>> /\ Quiet

(* init_metadata_repository                                                *)
OpenMetadataPool ==
  /\ app = "repository"
  /\ \/ pools' = {"metadata"} /\ Enters(IF settings.v2 THEN "v2" ELSE "serving")
     \/ Enters("failed") /\ UNCHANGED pools
  /\ UNCHANGED settings /\ Quiet

(* create_pool and _build_v2_deps may raise: lifespan has no `finally'.    *)
OpenV2Pool ==
  /\ app = "v2"
  /\ \/ pools' = pools \cup {"v2"} /\ app' \in {"serving", "failed"}
     \/ Enters("failed") /\ UNCHANGED pools
  /\ UNCHANGED settings /\ Quiet

(* The server takes no more requests, and awaits those it has.             *)
Stop == app = "serving" /\ Enters("draining") /\ UNCHANGED <<settings, pools>> /\ Quiet

(* Mutation: the lifespan goes on while requests run.                      *)
DrainedAtOnce ==
  /\ app = "draining" /\ Enters(IF "v2" \in pools THEN "closing v2" ELSE "closing")
  /\ UNCHANGED <<settings, pools>> /\ Quiet

Drained ==
  /\ app = "draining" /\ \A c \in Calls : status[c] # "running"
  /\ Enters(IF "v2" \in pools THEN "closing v2" ELSE "closing")
  /\ UNCHANGED <<settings, pools>> /\ Quiet

(* Pool.close() ends, or raises: lifespan has no `finally', so what comes  *)
(* after it is skipped.  One that raises may have closed the pool or not.  *)
Closes(pool, next) ==
  /\ \/ Enters(next) /\ pools' = pools \ {pool}
     \/ Enters("aborted") /\ pools' \in {pools, pools \ {pool}}
  /\ UNCHANGED settings /\ Quiet

CloseV2Pool == app = "closing v2" /\ Closes("v2", "closing")

(* close_metadata_repository                                               *)
CloseMetadataPool == app = "closing" /\ Closes("metadata", "stopped")

----------------------------------------------------------------------------
(* Mutation: one connection too many is lent.                              *)
AcquireOneMore(c) ==
  IF Cardinality(holders) <= PoolSize /\ queue = <<>>
  THEN holders' = holders \cup {c} /\ UNCHANGED queue
  ELSE queue' = Append(queue, c) /\ UNCHANGED holders

(* pool.acquire(): waiters are served in the order they came.              *)
Acquire(c) ==
  IF Cardinality(holders) < PoolSize /\ queue = <<>>
  THEN holders' = holders \cup {c} /\ UNCHANGED queue
  ELSE queue' = Append(queue, c) /\ UNCHANGED holders

(* The end of `async with pool.acquire()': the first waiter is next.       *)
Release(c) ==
  IF queue = <<>> THEN holders' = holders \ {c} /\ UNCHANGED queue
  ELSE holders' = (holders \ {c}) \cup {Head(queue)} /\ queue' = Tail(queue)

(* Mutation: the connection is not given back when there is no table.      *)
ReleaseMissingKeeps(c) == UNCHANGED leaseVars

ReleaseMissing(c) == Release(c)

(* The connection is given back, and one asked for again.                  *)
AcquireAgain(c) ==
  IF queue = <<>> THEN UNCHANGED leaseVars
  ELSE holders' = (holders \ {c}) \cup {Head(queue)} /\ queue' = Append(Tail(queue), c)

Names(r, t) == r.db \in {AnyDb, Db[t]} /\ Name[t] = r.name

(* fetch_table_detail, table_query: the smallest id of that name, if any.  *)
TableNamed(r) == {t \in tables : Names(r, t) /\ \A u \in tables : Names(r, u) => t <= u}

(* is_foreign_key asks for any key of the column, wherever it leads.       *)
FkColumns(t) == {f.from : f \in {g \in fks : g.from[1] = t}}

(* fetch_refs, by name                                                     *)
Refs(r) == {f \in JoinedFks : Names(r, f.from[1])}

(* fetch_table_detail asks for the references of the table it found.       *)
Found(c) == [db |-> Db[answer[c].table], name |-> Name[answer[c].table]]

Answers(c, code) == /\ status' = [status EXCEPT ![c] = "done"]
                    /\ step' = [step EXCEPT ![c] = "none"]
                    /\ answer' = [answer EXCEPT ![c].code = code]

Ready(c, s) == status[c] = "running" /\ step[c] = s /\ c \in holders \ hung

Same == UNCHANGED <<catalogueVars, lifeVars, hung, request, disturbed>>

Receive(c) ==
  /\ app = "serving" /\ status[c] = "idle"
  /\ status' = [status EXCEPT ![c] = "running"]
  /\ step' = [step EXCEPT ![c] = CASE request[c].route = "batch" -> "list"
                                   [] request[c].route = "ref" -> "refs"
                                   [] OTHER -> "detail"]
  /\ Acquire(c)
  /\ UNCHANGED answer /\ Same

(* list_tables, for /meta/batch                                            *)
ListTables(c) == Ready(c, "list") /\ Release(c) /\ Answers(c, 200) /\ Same

(* fetch_table_detail: the table, then its columns on the same connection. *)
ReadTable(c) ==
  /\ Ready(c, "detail")
  /\ \/ \E t \in TableNamed(request[c]) :
          /\ answer' = [answer EXCEPT ![c].table = t]
          /\ step' = [step EXCEPT ![c] = "columns"]
          /\ UNCHANGED <<status, leaseVars>>
     \/ TableNamed(request[c]) = {} /\ Answers(c, 404) /\ ReleaseMissing(c)
  /\ Same

ReadColumns(c) ==
  LET t == answer[c].table
      there == {k \in Columns : k[1] = t /\ t \in tables}
  IN  /\ Ready(c, "columns")
      /\ answer' = [answer EXCEPT ![c].columns = there,
                                  ![c].flagged = there \cap FkColumns(t)]
      /\ step' = [step EXCEPT ![c] = "refs"]
      /\ AcquireAgain(c)
      /\ UNCHANGED status /\ Same

(* Mutation: the references are asked for as the request named the table.  *)
RefsAskedFor(c) == Refs(request[c])

RefsOf(c) == IF request[c].route = "ref" THEN Refs(request[c]) ELSE Refs(Found(c))

(* The last query; /meta/column answers from the columns it has.           *)
ReadRefs(c) ==
  /\ Ready(c, "refs") /\ Release(c)
  /\ status' = [status EXCEPT ![c] = "done"] /\ step' = [step EXCEPT ![c] = "none"]
  /\ answer' = [answer EXCEPT ![c].refs = RefsOf(c),
                  ![c].code = IF /\ request[c].route = "column"
                                 /\ request[c].column \notin {k[2] : k \in answer[c].columns}
                              THEN 404 ELSE 200]
  /\ Same

QueryRaises(c) ==
  /\ \E s \in Steps : Ready(c, s)
  /\ Release(c) /\ Answers(c, 500) /\ Same

(* The server of the database stops answering one connection.              *)
QueryHangs(c) ==
  /\ \E s \in Steps : Ready(c, s)
  /\ Cardinality(hung) < MaxHung /\ hung' = hung \cup {c}
  /\ UNCHANGED <<catalogueVars, lifeVars, leaseVars, status, step, request, answer, disturbed>>

(* The loader writes tables and keys (bound: while a request runs and the  *)
(* service still takes some).                                              *)
Loader ==
  /\ app = "serving" /\ \E c \in Calls : status[c] = "running"
  /\ \/ \E t \in Tables : LoadTable(t)
     \/ \E f \in Fks : LoadFk(f)
  /\ disturbed' = disturbed \cup {c \in Calls : status[c] = "running"}
  /\ UNCHANGED <<lifeVars, leaseVars, status, step, hung, request, answer>>

Query(c) == ListTables(c) \/ ReadTable(c) \/ ReadColumns(c) \/ ReadRefs(c)

Lifespan ==
  \/ LoadSettings \/ OpenMetadataPool \/ OpenV2Pool
  \/ Drained \/ CloseV2Pool \/ CloseMetadataPool

Next ==
  \/ Lifespan \/ Stop \/ Loader
  \/ \E c \in Calls : Receive(c) \/ Query(c) \/ QueryRaises(c) \/ QueryHangs(c)

(* The process runs its lifespan, and a query that does not hang returns.  *)
Fairness == WF_vars(Lifespan) /\ \A c \in Calls : WF_vars(Query(c))

Spec == Init /\ [][Next]_vars /\ Fairness

----------------------------------------------------------------------------
(* A pool is open whenever a request runs, also while the server shuts     *)
(* down.  A pool is left open in two ways only: by a start that failed     *)
(* after the first pool, so never with bad settings or without a second    *)
(* pool, and by a shutdown one of whose closes raised; the second pool is  *)
(* then never left without the first, whose close was skipped              *)
(* (main.py:77-97, db.py:97-118).                                          *)
PoolsCoverCalls ==
  /\ (\E c \in Calls : status[c] = "running") => "metadata" \in pools
  /\ app = "stopped" => pools = {}
  /\ app = "failed" /\ pools # {} => settings.v2 /\ Loads(settings)
  /\ app = "aborted" /\ "v2" \in pools => "metadata" \in pools

Homonym(t) == \E u \in Tables \ {t} : Db[u] = Db[t] /\ Name[u] = Name[t]

(* Columns whose key leads to a table that is not there.                   *)
Dangling(t) == {f.from : f \in {g \in fks : g.from[1] = t /\ g.to[1] \notin tables}}

(* The columns and the references of a table are read on two connections.  *)
(* If nobody wrote meanwhile they agree when the call ends: the columns    *)
(* marked FK are those that have a reference, and those whose key leads    *)
(* nowhere, also when the request names no db and several have a table of  *)
(* that name; only tables whose names differ in case alone are mixed up    *)
(* (metadata_repository.py:198-243, :265-290).                             *)
DetailAgreesIfUndisturbed ==
  [][\A c \in Calls :
       LET a == answer'[c]
       IN  /\ status[c] = "running" /\ status'[c] = "done"
           /\ a.code = 200 /\ a.table # NoTable
           /\ c \notin disturbed /\ ~Homonym(a.table)
           => a.flagged = {f.from : f \in a.refs} \cup Dangling(a.table)]_vars

(* As long as fewer queries hang than the pool has connections, every      *)
(* other request ends, and without a hanging query the shutdown is over    *)
(* too, one way or the other:                                              *)
(* no request waits for a connection while it holds one, and every path    *)
(* gives its connection back (db.py:103, metadata_repository.py:225-243).  *)
HungQueriesSpareOthers ==
  /\ \A c \in Calls : status[c] = "running" ~> (status[c] = "done" \/ c \in hung)
  /\ app = "draining" ~> (app \in {"stopped", "aborted"} \/ hung # {})

============================================================================
