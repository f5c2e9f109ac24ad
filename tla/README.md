# A TLA+ model of robo-meta-api

robo-meta-api v4 is a FastAPI service between a natural-language-to-SQL
consumer, a metadata database (PostgreSQL with pgvector, filled by other
services) and a SQL backend (MindsDB). It answers which tables or Semantic
Views fit a question, and it runs read-only statements under guards and an
audit log. This directory holds TLA+ specifications of that code, the TLC
configurations that check them and TLAPS proofs of the main results.

Paths below are relative to the repository; `services/` stands for
`app/services/`.

## 1. The system

All handlers run on one asyncio event loop. Handlers interleave only at an
`await`: a metadata query, the embedding call, or the post to MindsDB. There is
no retry, no cache and no lock; what is shared is the metadata database
(written by others while requests run), the audit file, the connection pools
and the wiring made at startup. The legacy pipeline, tested but reached by no
route, works the same way over a Neo4j graph, with a search application of its
own (`neo4j_client/api.py`).

| component | state it keeps | operations | interacts with | hard part | correct when |
|---|---|---|---|---|---|
| Query execution (`routers/query_exec.py`, `services/query_runner_mindsdb.py`) | the audit file; per request: artifact payload, rows, caps | resolve the artifact, guard, post, copy rows, append audit | V2 store, guards, MindsDB, file system | kills and write failures around the audit entry; per-operation timeouts; artifact read before an await and used after it | one truthful entry per request, response within its caps, statement sent only under an artifact that allows it |
| SQL guards (`sql_guard.py`, `artifact_sql_guard.py`, `_validate_namespaces`) | none | check, validate, enforce | called by query execution | aliases, scopes, CTEs, mandatory filters; exceptions that are not `GuardError` | the verdict depends on what the statement means, not on how it is aliased, and is monotone |
| Semantic View bundle (`routers/decision_v2.py`, `artifact_selector.py`, `bundle_assembler.py`) | per request: the rows read | embed, six reads, hard filter, rank, assemble | V2 store, embedding provider, tokens | reads of one answer at different moments, validity against a clock | only eligible artifacts, the best of them, with their schema; otherwise every refusal is explained |
| V2 store (`v2_store.py`) | the database | list, snapshots, payloads, glossary | external publisher | no transaction spans two queries | each query sees one state |
| Table decision v1 (`routers/decision.py`, `decision_postgres.py`, `metadata_repository.py`) | per request: the growing list of tables | embed, search, mappings, neighbours, columns, bridges | metadata repository, embedding provider | up to eight queries make one answer | ranked, no doubles, mapped tables kept, bridges join candidates |
| Embedding provider (`embedding_provider.py`) | a global provider | embed | HTTP | failures of different classes | no answer without a vector |
| Tokens (`security/auth_context.py`) | the JWKS read at startup | verify_token | the v2 routes | claims and clocks | tenant and roles come only from a verified token |
| Lifespan and pools (`main.py`, `db.py`, `runtime_config.py`) | global runtime, pools of 1 to 4 connections, `app.state.v2_deps` | start, stop, acquire, release | everything | a failure between two opened pools; no command timeout | a pool is open while a request runs, what was opened is closed, hung queries spare the rest |
| Table metadata (`routers/meta.py`, `meta_postgres.py`, `metadata_repository.py`) | per request: the table found, its columns | batch, table, column, references | metadata pool | columns and references of one table come over two connections; names without a database | the references belong to the table that was read |
| Legacy table decision (`decision_service.py`) | per request: the pool of candidates, the pruned list, joins | embed, search, prune, join, expand, group | graph, OpenAI | the list is ranked and pruned twice, three sources of joins | expansion adds nothing the cut dropped, weaker sources only fill gaps, scope |
| Legacy entity resolution (`entity_resolution.py`, `entity_probe_registry.py`, `neo4j_client/db_probe.py`) | per request: mentions, values found | probe, look up | PostgreSQL | every failure becomes an empty list, every list is cut | `complete` means every mention has its codes |
| Neo4j search application (`neo4j_client/api.py`, `vector_search.py`, `hyde.py`) | driver, a pool made on demand | start, stop, search | Neo4j, PostgreSQL | two first callers at once | only a race can lose a pool |
| Vectorizer (`neo4j_client/vectorizer.py`) | vectors in Neo4j, one driver per job | fetch, embed, write, index | Neo4j, OpenAI, the ingest | batches, failures half way, a text rewritten meanwhile | a vector is that of the text, except for such texts |
| Legacy metadata and SQL runner (`meta_service.py`, `query_runner.py`) | none | - | Neo4j | none: no route or test of a live path calls them | - |

## 2. Modules

| module | models | lines of the source it stands for |
|---|---|---|
| `V2Store` | the tables behind the v2 routes, the queries of `PostgresV2Store`, the publisher that edits them (external) | `v2_store.py:60-159` |
| `QueryGuards` | the three guards as operators over parsed statements | `sql_guard.py:108-168`, `artifact_sql_guard.py`, `query_runner_mindsdb.py:37-86` |
| `GuardLaws` | what the guards promise of two related inputs: other aliases, a narrower statement, a richer artifact; EXTENDS `QueryGuards` | none but the guard block of `execute`: it states the laws |
| `BackendCall` | the httpx exchange and the row loop of one call | `query_runner_mindsdb.py:99-158` |
| `QueryExec` | `/query/execute` for several requests; EXTENDS `V2Store` and `QueryGuards` | `query_exec.py`, `query_runner_mindsdb.py` |
| `AuditTrail` | abstract: what the route promises about its log | none: it is the promise |
| `DecisionV2` | `/v2/data_decision`; EXTENDS `V2Store` | `decision_v2.py`, `artifact_selector.py`, `bundle_assembler.py`, `embedding_provider.py` |
| `Catalogue` | the tables, keys and mappings behind v1, the queries of `PostgresMetadataRepository`, the loader (external) | `metadata_repository.py:19-186` |
| `DecisionPostgres` | `/data_decision`; EXTENDS `Catalogue` | `decision_postgres.py` |
| `Ordering` | `SortedBy`: a finite set laid out by a strict order, each element at the place that counts its predecessors; `Filtered`: the entries of a list that are in a set, in their order. All rankings and filters of lists use them | the `sorted` call of `artifact_selector.py` |
| `MetaService` | the lifespan, the pools and the `/meta` routes; EXTENDS `Catalogue` | `main.py`, `db.py`, `runtime_config.py`, `routers/meta.py`, `meta_postgres.py`, `metadata_repository.py` |
| `MetaGraph` | the tables, joins and vectors in Neo4j, the searches over them, the ingest (external) | `vector_search.py`, the join queries of `decision_service.py` |
| `CandidateSelection` | merging, pruning, join expansion, groups and roles, as operators; the union-find by what it computes, the least sets that no bridge leaves | `decision_service.py` |
| `TableDecision` | the legacy `decide`, await by await; EXTENDS `MetaGraph`, `CandidateSelection` | `decision_service.py`, `hyde.py` |
| `EntityResolution` | mentions, probes and look-ups | `entity_resolution.py`, `db_probe.py` |
| `ProbePool` | the pool made on demand and the lifespan that closes it | `db_probe.py`, `api.py` |
| `Vectorizer` | `run_vectorizer` by several jobs; EXTENDS `MetaGraph` | `vectorizer.py`, `api.py` |
| `GraphServing` | the composition of the four modules above | `api.py`, `decision_service.py` |
| `MC*` | the small instances TLC checks | - |
| `BackendCall_proofs`, `QueryExec_proofs`, `DecisionV2_proofs`, `DecisionPostgres_proofs`, `MetaService_proofs`, `GraphServing_proofs`, `GuardLaws_proofs`, `Ordering_proofs` | theorems and proofs | - |

`PROJECT.json` gives the lines of every single definition.

### How code becomes actions

An action is the code between two awaits, with every call it makes. In
`QueryExec` a request is `idle`, then `listing` (the query is under way), `listed`
(the rows are there, the handler has not resumed), `posting` (the connection is
being made), `awaiting` (the statement is on the wire), `replying` (the response
is made but not sent), `done`; or `lost` with the process. `listing` and
`listed` are apart because the publisher can act between them, and `posting`
and `awaiting` because only in the second the backend has the statement. The
audit append opens, writes and closes the file without an await, so it is part
of the action that answers; it may fail, with or without a fragment left in the
file.

`BackendCall` opens up the step `CallReturns` of `QueryExec`. Time is counted in
seconds inside the network operation in progress (`idle`) and since `started`
(`elapsed`). A row is its size in bytes; `BadRow` is a row the serializer raises
on. Each iteration of the loop over the answer is a step.

In `DecisionV2` and `DecisionPostgres` each query is an action of its own and
sees the store as it is at that moment. The code after a query up to the next
one belongs to the action of that query; `decision_postgres.py` skips queries
for empty id sets, and so do the actions. `touched` and `seen` are history
variables: they record what others wrote while the call ran, so that a property
can say "unless somebody wrote to it".

`MetaService` puts the application around its requests. The lifespan loads the
settings, opens one or two pools, serves, drains and closes; a bad setting or a
pool that cannot be opened ends it in `failed`, with what was open left open,
because `lifespan` has no `finally`. Closing a pool may raise too: the lifespan
is then `aborted`, and the pools whose close was still to come stay open.
A request asks for a connection (`Acquire`),
runs its queries on it and gives it back (`Release`); a request for a table asks
twice, once for the table with its columns and once for the references. A pool
is the set of its `holders` and the `queue` of those who wait, first come first
served. A query may return, raise or hang; the loader writes in between.

`GuardLaws` has no await to model: a behaviour picks a statement and an artifact
and judges them in one step, and each law compares the verdict with the one on
a related input.

`GraphServing` composes what meets in the graph: the table decision, the entity
resolution that ends it, the vectorizer jobs, the ingest and the lifespan with
its pool. The modules keep disjoint variables except for the graph itself, so a
step of one leaves those of the others unchanged. The constant `Workloads` says
what is asked of the system in one behaviour (a decision alone, two jobs and
the ingest, a decision beside a job, a resolution, the pool): it bounds the
instance and changes no action. Scores are in thousandths, with the weights and
class thresholds of the code; the two steps of the pruning have values of their
own (section 5).

Statements, names and predicates are values of small sets: a statement is the
record of what the lexer and the SQL parser make of the text, a predicate its
shape and the columns in it. Scores are in percent or tenths, with the weights
of the code. Definitions commented "Mutation" are wrong variants of the
definition that follows them; no specification uses them. They exist to show
that each property notices a bug of its kind.

## 3. What is checked

| run | instance | what it shows |
|---|---|---|
| `query_exec` | 2 requests, 5 kinds of arguments, 2 artifacts of 2 tenants, 1 edit, 1 failed write, 1 kill | `AuditTellsTruth`, `UnauditedOnlyByFault`, `SentUnderPublishedArtifact`, `DamageBounded`, the refinement `KeepsAuditPromise` (of `AuditTrail`) |
| `backend_call` | answers of up to 4 rows of 2 or 5 bytes or bad, caps 1 to 3 rows and 9 bytes, timeouts 1 to 3 s, 2 counted partial reads and any number after them | `RowsWithinCaps`, `ResponseBytesWithinCap`, `TruncationExact`, `ResultHonest`, `ElapsedPerOperation`, `SilenceEndsCall` |
| `query_guards` | every statement with one SELECT over 2 tables, up to 2 aliases (one of them a table's own name), with or without a CTE, a join and filters (a plain one, an OR, an OR in parentheses), and subqueries that use an alias of the outer SELECT; 2 renamings, 9 conjuncts of which 3 are an OR, 9 grants, 50 artifacts | `AliasesDoNotMatter`, `NarrowingIsSafe`, `GrantsAreMonotone` |
| `decision_v2` | 5 artifacts of 2 tenants, 3 snapshots, 2 terms, 2 synonyms, top 2, 2 edits, 4 half-second ticks | `ReadyBundleEligible`, `NothingBetterLeftOut`, `ScoredOnOwnVectors`, `BlockedExplained`, `ContextCompleteIfUntouched`, `GlossaryTornOnlyByEdit` |
| `decision_v1` | 4 tables of which 2 share schema and name, 3 keys of which 2 join the same columns, 3 mappings, limits 1, 2 and 4, 3 writes | `QuietCallIsAtomic`, `MappedNotCrowdedOut`, `BridgesJoinCandidates` |
| `meta_service` | good, sparse and 8 bad settings, pools that fail to open or to close, 3 mixes of 3 requests, 4 tables of which 2 share a name, 2 connections, 1 hanging query, 1 write | `PoolsCoverCalls`, `DetailAgreesIfUndisturbed`, `HungQueriesSpareOthers` |
| `graph_serving` | 6 tables of which 2 share a name, every subset of 7 joins, 3 rankings, with and without a limit; 2 jobs of batch size 1 and 2 ingest changes; every subset of 6 rows of code tables; 2 callers of the pool beside the lifespan | `ExpansionAddsNothing`, `GroupsKeepBridges`, `WeakerSourcesFillGaps`, `OutOfScopeOnlyByFallback`, `CompleteIsExact`, `VectorsFollowTexts`, `OnlyRacesAndFailuresLeak` |

Each passing run also checks the module's type invariant, except
`query_guards`: its variables are the inputs and the verdict, and
`VerdictIsGuard` proves what little there is to say of them.

Five runs show where the code does something else than the repository says:

| run | the repository says | the code |
|---|---|---|
| `backend_timeout` | `timeout_s` is the statement timeout of the server (`app/schemas.py:374-377`) | it ends the wait of the client alone: the call is reported as timed out and the statement runs on (`TimeoutStopsStatement`) |
| `v2_ready_context` | a missing snapshot blocks (`tests/test_decision_v2.py:198`, `README.md:23`) | dropped between two reads it is skipped and the bundle is ready without its tables (`ReadyMeansContext`) |
| `v2_provider_failure` | a provider failure is answered 503 (`routers/decision_v2.py:7`) | a malformed body escapes as 500 (`ProviderFailureIs503`) |
| `v1_resolution_status` | `skipped` when resolution is off (`docs/api_spec_v0.7.md:185`) | `partial` (`SkippedWhenNotAsked`) |
| `legacy_complete` | `complete` when the code of every mention was resolved (`docs/api_spec_v0.7.md:183`) | a mention that matches nothing is passed over, and the rest is called complete (`EveryMentionResolved`) |

### Bounds

Named bounds: `MaxEdits` (writes by others), `MaxFaults` (failed audit writes),
`MaxCrashes`, `MaxAnswer` (rows), `MaxChunks` (partial reads that are counted), `MaxClock`,
`MaxHung` (queries that never return), `MaxChanges` (writes of the ingest) and
`Workloads`.

- Two requests suffice for `query_exec`: requests share only the file and the
  store; every property relates one request to the log, or two of them through
  a torn line. The theorems hold for any number.
- Two edits let a row go and come back, or two related rows (a term and its
  synonym, a table and a key) change, between any two reads. `decision_v1` has
  three: three related rows may change during its eight queries.
- The clock has two ticks per second because timestamps are cut to seconds: an
  artifact can be past its `valid_to` and still pass, within one second.
- After `MaxChunks` partial reads a chunk and the wait before it are no longer
  counted: an answer that trickles for ever is a cycle of states and not cut
  away. `ElapsedPerOperation` speaks of what is counted.
- Four rows exceed the largest row cap by one, and two rows of five bytes exceed
  the byte cap before the row cap.
- `TopK = 2` of four artifacts, and limits 1, 2 and 4 of four tables, put the cut
  both inside the list and beyond it.
- Two connections for three requests make one wait, and one hanging query
  (`MaxHung < PoolSize`) leaves one connection to serve the rest; the code has
  four connections. The loader writes once per behaviour, between any two
  queries of a request.
- Two jobs with a batch size of 1 over at least two tables meet between batches;
  two changes of the ingest can hit the table held by either. Two callers are
  what the race for the pool takes.
- Three rankings of six tables: one with a gap that cuts, one of near ties, and
  one in which the two searches disagree. Every subset of the joins is tried
  with each.

All configurations have `CHECK_DEADLOCK FALSE`: the modelled calls end, and the
environment's budgets run out.

### Fairness

- `BackendCall`: weak fairness of the event loop only: time passes, httpx raises
  its timeouts, the synchronous loop runs. The network and the backend may do
  nothing for ever. `SilenceEndsCall` says that the call ends all the same,
  unless chunks keep coming for ever: each one restarts the read timeout, and
  the code bounds neither their number nor the whole call.
- `QueryExec` and `DecisionV2` state no fairness and no liveness: a metadata
  query, a post and the embedding call have no bound on their whole time, so
  that a request ends is not something this code can promise.
- `MetaService`: the lifespan goes on when it can, and a query that does not hang
  returns. Opening and closing a pool is assumed to end, with or without an
  error. A query that hangs has no fairness, a request may never arrive and
  the server need never be stopped.
- `GraphServing` states no fairness and no liveness: nothing in the code waits
  there but on services that may stay silent.

That most metadata queries answer is an assumption of `MetaService` on the
environment: the pools have no `command_timeout`, so a database that accepts a query and never answers
keeps the handler for ever, and its connection with it.
`HungQueriesSpareOthers` says what such a query can and cannot do: while fewer
hang than the pool has connections, every other request ends, because no
request waits for a connection while it holds one and every path gives its
connection back; and the shutdown, which waits for running requests, then waits
for the hanging ones alone. With as many hanging queries as connections every
later request waits. Neither a kill nor a write failure has any fairness.

## 4. What is proved

The proofs hold for every value of the constants that satisfies the named
assumptions, all of which TLC evaluates in the runs:

| assumption | module | says |
|---|---|---|
| `StatementsAssumption`, `ConjunctsAssumption` | `GuardLaws` | statements and conjuncts have the form the parser returns; a table in the FROM of a SELECT is one of the tables of the statement; an OR without parentheses is a WHERE of its own |
| `GrantsAssumption`, `RenamingsAssumption` | `GuardLaws` | a grant demands no filter; a renaming maps different names to different names |
| `LimitsAssumption`, `AnswerAssumption` | `BackendCall` | limits are natural numbers, maxima positive; a row takes at least one byte |
| `StoreAssumption` | `V2Store` | rows and snapshots have a tenant, a synonym has a term |
| `ArgsAssumption`, `FaultsAssumption` | `QueryExec` | request arguments come from the declared sets |
| `DecisionAssumption` | `DecisionV2` | finitely many artifacts and words; ids are ordered without ties, as the primary key of the table is |
| `CatalogueAssumption` | `Catalogue` | finitely many tables; two tables that the search can return differ in similarity (ties would be the database's choice); columns and keys are of tables |
| `DecideAssumption` | `DecisionPostgres` | limits in the range the schema enforces |
| `ServiceAssumption` | `MetaService` | a pool has a connection; routes are those of the router |
| `GraphAssumption`, `SelectionAssumption`, `BatchAssumption`, `ResolutionAssumption`, `CallerAssumption`, `WorkloadAssumption` | `GraphServing` and its parts | types of the constants; a batch is not empty; lists are cut at two or more; questions and entities of a workload are well formed (`IsAsk`, `IsEntity`: similarities are percentages, the code rows are finitely many, the labels a word matches are known) |

`BackendCall_proofs`. The inductive invariant is

    CallInv == TypeOK /\ Shape /\ Budget /\ RowsWithinCaps /\ TruncationExact /\ ResultHonest

`ResultHonest` and `TruncationExact` are not inductive alone: `Shape` says what
the rows, the flag and the status can be in each phase (nothing is copied
before the answer is there, a result is decided exactly at the end), and
`Budget` strengthens `ElapsedPerOperation`: the finished operations took at most
`timeout` each, and the one in progress has taken `idle` so far (a chunk that is
not counted takes the wait before it along). `CallInvStep` has one
case per action; `ClampRange`, `PrefixGrows` and `BudgetOnLeaving` carry the
arithmetic. `CallResponseBytes` weighs the rows one by one with a recursive
function, while the code tests a running total: `Counted` says the two agree.
That the function is defined at all, and by its equation alone, takes an
induction; the least counterexample replaces it (`LeastOf`, from the
well-foundedness of the natural numbers). Where a running total would first fail
to exist it extends the one before (`TotalExists`), and two of them agree where
they would first differ (`BytesAre`). Results: `CallTypes`, `CallRowsWithinCaps`,
`CallResponseBytes`, `CallTruncationExact`, `CallResultHonest`, `CallElapsed`.

`GuardLaws_proofs`. The laws of the guards, for every statement, artifact,
renaming and grant. Each splits the verdict into what it depends on: the tables, the
columns, the joins and the filters of every SELECT.

- `AliasesAreFree`: a renaming turns the alias map into the map of the renamed
  SELECT (`NewAliasMap`), and qualifiers resolve to the same tables
  (`NewResolution`); so bad columns, joins and filters of a SELECT stay what
  they were (`SameColumns`, `SameJoins`, `SameFilters`). A filter of the artifact is
  the canonical form of a conjunct before the renaming exactly if it is after
  (`SameConjunct`): a qualifier that resolves to nothing keeps its name or has
  no meaning to the artifact.
- `NarrowingStaysAllowed`: one more conjunct on columns already referred to adds no
  column to check, and a filter found among the conjuncts is found still
  (`FilterStays`), with one exception, for which the theorem is an equivalence:
  beside an AND an OR needs parentheses, the guard compares texts, so a filter
  that is an OR without them is met only by a WHERE that says nothing else.
- `GrantsOnlyAdd`: the allowlist grows with the bindings (`AllowlistGrows`), but that is
  not enough: a qualifier that meant nothing begins to be checked when its name
  becomes an allowed table. The hypothesis on `Unresolved` excludes just that, and
  `ColumnStays` shows that nothing else can go wrong.

`QueryExec_proofs`. `StepKinds` first classifies every step by what it does to
the audit trail (a handler moves on, dismisses, records, fails to record; the
statement is delivered; a response is sent; the process is killed; anything
else). `AuditInv` then relates the place of each handler to the log: nothing
logged before the last await, sent exactly while awaiting, answered 200 or 400
only with the entry of that kind. From it follow `ExecAuditTellsTruth`,
`ExecUnauditedOnlyByFault` and the refinement `ExecKeepsAuditPromise`, in which
recording maps to `Record`, sending the response to `Answer`, and everything
else to a stutter. Building the response may raise after the entry is written
(`query_exec.py:61`: a number JSON has no form for, a lone surrogate): `AuditTrail`
allows a 500 beside an entry only for the statuses whose response carries what
the backend sent (`WithData`). `ExecDamageBounded` needs only that the set of damaged
entries is finite and counts its growth. `ExecSentUnderPublishedArtifact` goes
along the path of one request: an artifact found by the query was published at
that moment and is in `seen`, and it stays found, judged and sent with the same
arguments. `ExecTypes` proves the type invariant.

`Ordering_proofs`. `SortedByOrders`: laid out by a strict order, every element
of a finite set stands at exactly one place, and the places follow the order.
Each element goes to the place that counts its predecessors; transitivity makes
that count strictly monotone, totality makes it injective. `FilteredKeeps`:
filtering a list keeps exactly the entries in the set. The rankings of all three
decisions rest on these.

`DecisionV2_proofs`. The inductive invariant is

    DecisionInv == TypeOK /\ Shape /\ Chosen /\ Reads /\ ContextCompleteIfUntouched

`Shape` says what is known at each await, `Chosen` that the selection is the one
the rows read determine, and `Reads` ties every read to the store: as long as
nothing was written to a row, what was read of it is what is there.
`ContextCompleteIfUntouched` is not inductive without `Reads`, since the snapshot
ids and their payloads come from two queries; and it follows from `Reads` that the
vectors asked for by id belong to the artifacts listed before (`ScoresAreOwn`).
`ReasonIsFirst` says that the code a blocker gives is the first test the
artifact fails. `SelectionRanks` reduces the
ranking to `SortedByOrders`; `WithinASecond` carries the arithmetic of the cut
timestamp. Results: `TypeCorrect`, `ReadyIsEligible`, `NothingBetterOut`,
`ScoresAreOwn`, `BlockedSaysWhy`, `ContextIsComplete`, `GlossaryHolds`.

`DecisionPostgres_proofs`. `Shape` is the type invariant with the part of the
state that is still as it began and the ids known to be tables. Three
invariants stand on it.

- `MappedPlaced`, for `MappedIsNotCrowdedOut`: until the mapped tables
  are read every table listed is `Excused` (the search hit it, or it was dropped);
  then a mapped table is excused or stands before everything else that has the
  top score (`Ahead`); ranking turns that into `CrowdedByMapped`. `InsertsMerge`
  describes the two insertions (at the front, at the second place) as merges of
  two lists, `RankedBest` the deduplication, stable sort and cut.
- `Bridged`, for `BridgesAreComplete`: once the keys were read, each key between
  candidates that nobody wrote is a bridge, and adding the conventions keeps that.
  `ConventionsGrow`: a convention that is not added has the ends of a bridge that
  is there already.
- `Undisturbed`, for `QuietCallsAreAtomic`: while nothing is written the list is
  the hits (`NearRows`), then the hits and the mapped (`DirectRows`), then also the
  neighbours (`LinkedRows`), in whatever order the database returned them;
  `RankedIsBest` says that the ranking forgets that order.

`MetaService_proofs`. `TypeCorrect` includes that no more connections are lent
than there are: `HandOver` shows that giving one to the first waiter keeps
their number. `LifeInv` ties the open pools to the place of the lifespan and to
the settings, and no request runs outside `serving` and `draining`; `PoolsCover`
follows, with the two ways in which a pool stays open: a start that failed, and
a close that raised. `ReadInv(c)` follows one request: while nothing is
written the table it found is there, and the flagged columns are those with a key;
`EndsInAgreement` compares them with the references when it ends, which gives
`DetailAgrees`.

`GraphServing_proofs`. The inductive invariant is

    ServingInv == workload \in Workloads
                  /\ GraphInv /\ DecisionInv /\ EntityInv /\ VectorizerInv /\ PoolInv

and each part is kept by its own steps and left alone by those of the others
(`DecisionUntouched`, `EntityUntouched`, `VectorizerUntouched`, `PoolUntouched`).

- `DecisionInv` has three parts beside the well-formed question. `RankingInv`:
  the pool is a ranking, in scope unless the keyword fallback made it, and what
  is pruned is `Prune` of that pool. `JoinsInv`: bridges join tables of the
  pool and come from the sources asked so far; only with these two is
  `WeakerSourcesFillGaps` inductive, since a later source asks for the tables
  that are still isolated (`IsolatedIsUntouched`). `AnswerInv`: what is answered
  is one of the `Finals` of that pool, cut, and its groups are `JoinGroups` of
  it.
- `ExpansionIsPruned` compares two rankings, the pool as pruned and the
  candidates the joins lead to, pruned in their turn. The second contains the
  first and is contained in the pool, so its best entries cannot score better
  (`NoBetterScores`, by the pigeonhole `TwoMeet`) nor worse, and the pruning,
  which looks at scores alone, cuts both at the same length (`SameHeadKept`).
- `GroupsHoldBridges` uses that the classes are the least closed sets: two that
  meet are equal, and both ends of a bridge are in one (`ClassesJoin`,
  `GroupsHold`).
- `EntityInv` goes pair by pair: labels found are labels of rows that match, and
  a pair that matches is still to be probed, found or resolved unless one of its
  own queries failed. What is resolved is `Sound`, exactly the one code and label
  there is, as long as nothing is suggested and no label of the pair has blanks
  around it or a second row. `CompleteIsExact` depends on the cuts too: a list
  cut at two or more and still of one entry was not cut (`SubsetsCut`), so one
  value found is all there is.
- `VectorizerInv` says of every job that what it fetched is what it settled and
  what it still holds, and that a text it holds is the one of the graph unless
  overtaken. Two jobs do not disturb each other's part.
- `PoolInv`: a pool that is open and not the current one was made by a caller
  that raced, and one of the racing callers has the current one or none.

Results: `TypeCorrect`, `ExpansionIsPruned`, `GroupsHoldBridges`, `WeakerFillGaps`,
`ScopeHolds`, `CompleteMeansExact`, `VectorsFollow`, `OnlyRacesAndFailures`.

Only model-checked: the liveness properties (`SilenceEndsCall`,
`HungQueriesSpareOthers`), because fairness and ENABLED are out of the prover's
reach. Every other property of the passing runs is a theorem.
Induction over data is out of reach as such, since no theorem with an operator
parameter can be instantiated; the proofs that need it argue from a least
counterexample (`LeastOf`, `RisingIsIdentity`) or by counting (`TwoMeet`), and
lists are laid out by rank rather than by recursion so that such arguments
suffice.

## 5. What the models leave out

- Texts, wording and layout; the lexer of `sql_guard` and sqlglot's parser, whose
  results are the statements of `QueryGuards`.
- The client going away in the middle of a request: whether the server then
  cancels the handler is not in the repository. If it does, the audit append is
  skipped, because `CancelledError` is not an `Exception`.
- A CTE reference that borrows the name of an allowed table: the guard then
  checks its columns against that table. `AliasesDoNotMatter` and
  `GrantsAreMonotone` exclude, by `Unresolved`, the qualifiers that are in no alias map
  (aliases of CTEs, of an enclosing SELECT) and carry a name of the artifact.
- An artifact whose payload is null: `query_exec.py` then skips the artifact
  guard. The models give every artifact a payload, as the publisher does.
- A kill in the middle of an append to the audit file; `DamageBounded` counts the
  fragments of failed writes.
- The session TimeZone of the metadata database: `to_char(... '"Z"')` formats
  local time, the models assume UTC.
- In `/data_decision` a mapped table that the vector search did return keeps its
  similarity and can be pushed out by its own neighbours at 0.99;
  `MappedNotCrowdedOut` states the guarantee without it. A key and a convention
  with the same ends in opposite directions are both bridges, and so are two keys
  with equal ends. Ends are texts without the database, so a key may stand for a
  convention between other tables of the same schema and name.
- The pydantic schemas (`app/schemas.py`, 396 lines): declarations whose ranges are
  the input sets of the models.
- `meta_service.py` and `query_runner.py`: predecessors of `meta_postgres.py` and
  `query_runner_mindsdb.py` that no route calls.
- `/rwis/resolve-question` and the read-only listings of `neo4j_client/api.py`:
  sequences of the searches modelled in `MetaGraph`, without state of their own.
- The psycopg source pool and the Neo4j driver of `db.py`, which no route opens.
- The wording of a bundle: matched terms, relationships, metric catalogue and
  provenance are functions of the reads that `DecisionV2` models.
- Tokens are modelled by the result of `verify_token`; the resolution of keys and
  the claims are not.

Observations that have no run of their own:

- `LIKE '%[_]CODE'` (`metadata_repository.py:179`): brackets mean nothing to LIKE in
  PostgreSQL, so a column whose name ends in `_CODE` makes a convention bridge only
  when one of the two columns is a primary key. `LikeIdentifier` says so.
- A mandatory filter with an OR at its top and no parentheses is met only by a
  WHERE that says nothing else (`artifact_sql_guard.py:71-76`): any narrower
  statement is rejected, with or without parentheses. `NarrowingIsSafe` has it as
  its one exception.
- Nothing bounds a call to MindsDB as a whole: an answer that trickles keeps it for
  ever, since httpx counts its timeout from each chunk on.
- Probes and look-ups that fail are swallowed (`entity_resolution.py:115`), and the
  look-ups have no DISTINCT (`entity_resolution.py:104-106`), so rows that repeat a
  code fill their LIMIT. A probe strips labels of blanks, and the look-up by label
  then does not find them. `CompleteIsExact` states what holds nevertheless.
- `docs/api_spec_v0.7.md:80` describes the schema allowlist; the keyword fallback
  of the legacy decision does not apply it. `OutOfScopeOnlyByFallback` says that
  nothing else escapes it.
- The docstring at `decision_service.py:192` has join expansion add neighbours over
  keys; the pruning that follows removes what it added (`ExpansionAddsNothing`).
- With its default settings the smallest step of the pruning (0.012) never binds,
  because the radius around the top (0.01) is smaller; the models use other
  values, so that both cut.
- The `ambiguous` branch of `_append_resolution` is never reached.
- `db_probe.py` acquires without a timeout, as `db.py` does.

## 6. Plan

Done, in order of importance: query execution with its guards and audit trail
(1), the Semantic View route (2), the table decision (3), the first proofs (4),
lifespan, pools and metadata routes (5), the legacy decision with entity
resolution, vectorizer and search application (6), the proofs about both
decisions, the pools and the vectors (7), and those about the guards, the legacy
pipeline and the response bytes (11), after which every safety property of the runs is a
theorem.

Left, should the code around it change:

8. `ServingPlane`: `DecisionV2` and `QueryExec` over one store. What a bundle
   offered may be retired before the statement comes; each module already
   allows every such store, so the composition would add an end-to-end property
   and no new behaviour.
9. `AuthContext`: key resolution and claims as operators, checked over all tokens
   of a small world.
10. The rest of a bundle: matched terms, relationships, metric catalogue.

## 7. Running

    tlc -config QueryExec.cfg MCQueryExec
    tlapm QueryExec_proofs.tla
    tlapm GraphServing_proofs.tla

`PROJECT.json` lists the runs with their modules and configurations, the source
lines each definition models, the hazards with the properties that cover them,
and the theorems.
