----------------------------- MODULE DecisionV2 ----------------------------
(***************************************************************************)
(* POST /v2/data_decision: one call of data_decision_v2 through its        *)
(* awaits, against a store that the publisher changes and a clock that     *)
(* moves between them.  Two calls share nothing they write, so one call    *)
(* against an arbitrary publisher is the general case.                     *)
(*                                                                         *)
(* A row of t2s_semantic_artifacts has, besides its tenant, the fields     *)
(*   snapshot    the snapshot it was compiled against                      *)
(*   ready       readiness.state = "ready"                                 *)
(*   from, to    validity in clock ticks, or NoTime                        *)
(*   roles       allowed_roles of its SECURITY policy, {} without one      *)
(*   own         its labels, with weight 8, and binding names, with 6      *)
(*   similarity  best cosine of its vectors with the question, in tenths   *)
(*   tables      object names its bindings mention                         *)
(***************************************************************************)
EXTENDS V2Store, Ordering, Integers, Sequences, FiniteSetsExt, SequencesExt

CONSTANTS
  Callers,         \* [tenant, roles] of the tokens that verify
  DefaultTenant,   \* V2Deps.default_tenant_id
  Question,        \* surface forms that occur in the question
  SnapshotTables,  \* [Snapshots -> object names in the snapshot]
  IdRank,          \* [Artifacts -> Nat], the order of artifact_id strings
  TopK,            \* top_k of select_artifacts
  NoTime,          \* valid_from or valid_to is NULL
  TicksPerSecond,  \* the clock is finer than the timestamps compared
  MaxClock         \* bound: last tick of the clock

ASSUME DecisionAssumption ==
  /\ TopK \in Nat \ {0} /\ TicksPerSecond \in Nat \ {0} /\ MaxClock \in Nat
  /\ DOMAIN SnapshotTables = Snapshots
  /\ IsFiniteSet(Artifacts) /\ IsFiniteSet(Question)
  /\ IdRank \in [Artifacts -> Nat]
  /\ \A a, b \in Artifacts : IdRank[a] = IdRank[b] => a = b
  /\ \A a \in Artifacts : Row[a].similarity \in Int
  /\ \A a \in Artifacts : {Row[a].from, Row[a].to} \subseteq Nat \cup {NoTime}
  /\ DefaultTenant \in Tenants
  /\ \A c \in Callers : c.tenant \in Tenants

VARIABLES
  wired,      \* app.state.v2_deps is set
  authOn,     \* deps.auth_config is not None
  clock,      \* wall clock in ticks
  pc,         \* the await the handler is in
  caller,     \* the AuthContext of the call
  embedded,   \* what the provider returned: "none", "vector", "failed"
  found,      \* artifact rows listed, [id, status]
  vectors,    \* artifacts whose vectors were returned
  known,      \* snapshot ids listed
  gloss,      \* the glossary read, [terms, synonyms]
  picked,     \* artifact ids selected, best first
  rejected,   \* blockers, a set of [code, reference]
  tables,     \* schema_context.tables, pairs of snapshot and object name
  code,       \* status code of the response, 0 before it
  chosenAt,   \* history: clock when select_artifacts ran
  touched     \* history: rows written since the call began

readVars   == <<found, vectors, known, gloss>>
answerVars == <<picked, rejected, tables, code, chosenAt>>

vars == <<storeVars, wired, authOn, clock, pc, caller, embedded,
          readVars, answerVars, touched>>

Waits == {"embedding", "artifacts", "vectors", "snapshots", "terms", "synonyms",
          "selecting", "payloads"}

NoReference == "no reference"

TypeOK ==
  /\ StoreTypeOK
  /\ wired \in BOOLEAN /\ authOn \in BOOLEAN
  /\ clock \in 0..MaxClock /\ chosenAt \in 0..MaxClock
  /\ pc \in {"idle", "done"} \cup Waits
  /\ caller.tenant \in Tenants
  /\ embedded \in {"none", "vector", "failed"}
  /\ found \subseteq [id : Artifacts, status : {"PUBLISHED"}]
  /\ vectors \in SUBSET Artifacts
  /\ known \in SUBSET Snapshots
  /\ gloss \in [terms : SUBSET Terms, synonyms : SUBSET Synonyms]
  /\ picked \in Seq(Artifacts) /\ Len(picked) <= TopK
  /\ \A b \in rejected : b.reference \in Artifacts \cup {NoReference}
  /\ tables \subseteq {<<s, t>> : s \in Snapshots, t \in UNION Range(SnapshotTables)}
  /\ code \in {0, 200, 401, 500, 503}
  /\ touched \in SUBSET Rows

Internal == [tenant |-> DefaultTenant, roles |-> {"CONSUMER"}]

Init ==
  /\ StoreInit
  /\ wired \in BOOLEAN /\ authOn \in BOOLEAN /\ (authOn => wired)
  /\ clock = 0 /\ chosenAt = 0
  /\ pc = "idle"
  /\ caller = Internal
  /\ embedded = "none"
  /\ found = {} /\ vectors = {} /\ known = {}
  /\ gloss = [terms |-> {}, synonyms |-> {}]
  /\ picked = <<>> /\ rejected = {} /\ tables = {}
  /\ code = 0
  /\ touched = {}

----------------------------------------------------------------------------
(* select_artifacts.                                                       *)

(* Timestamps are compared as strings with a resolution of one second.     *)
Second(t) == t \div TicksPerSecond

NotYetValid(a, now) == Row[a].from # NoTime /\ Second(now) < Second(Row[a].from)

Expired(a, now) == Row[a].to # NoTime /\ Second(now) > Second(Row[a].to)

(* Mutation: any role is enough for an artifact that restricts roles.      *)
RoleMissing(a) == Row[a].roles # {} /\ caller.roles = {}

RoleDenied(a) == Row[a].roles # {} /\ Row[a].roles \cap caller.roles = {}

(* hard_filter: its tests, <<place, code, does it fail>>.                 *)
Tests(rec, now) ==
  LET a == rec.id
  IN  {<<1, "TENANT_DENIED",  Row[a].tenant # caller.tenant>>,
       <<2, "NOT_PUBLISHED",  rec.status # "PUBLISHED">>,
       <<3, "NOT_READY",      ~Row[a].ready>>,
       <<4, "NOT_YET_VALID",  NotYetValid(a, now)>>,
       <<5, "EXPIRED",        Expired(a, now)>>,
       <<6, "STALE_SNAPSHOT", Row[a].snapshot \notin known>>,
       <<7, "ROLE_DENIED",    RoleDenied(a)>>}

Failed(rec, now) == {test \in Tests(rec, now) : test[3]}

(* Mutation: every test that fails overwrites the reason.                  *)
ReasonLast(rec, now) ==
  (CHOOSE test \in Failed(rec, now) :
     \A other \in Failed(rec, now) : test[1] >= other[1])[2]

(* The code of the first test that fails.                                  *)
Reason(rec, now) ==
  (CHOOSE test \in Failed(rec, now) :
     \A other \in Failed(rec, now) : test[1] <= other[1])[2]

(* _lexical_terms: the artifact's own names and every glossary entry.      *)
Surfaces(a) == DOMAIN Row[a].own \cup gloss.terms \cup gloss.synonyms

Hits(a) == Surfaces(a) \cap Question

(* Weight of a surface form, in tenths; a glossary entry overrides a name. *)
Weight(a, surface) ==
  IF surface \in gloss.terms \cup gloss.synonyms THEN 10 ELSE Row[a].own[surface]

Weighing(a, weight) == Cardinality({surface \in Hits(a) : Weight(a, surface) = weight})

TermScore(a) == 10 * Weighing(a, 10) + 8 * Weighing(a, 8) + 6 * Weighing(a, 6)

(* The best cosine among the rows returned for the artifact, 0 without.    *)
Similarity(a) == IF a \in vectors THEN Max({Row[a].similarity, 0}) ELSE 0

(* min(term_score, 3) / 3 * 0.6 + max(similarity, 0) * 0.4, in hundredths. *)
Score(a) == 2 * Min({TermScore(a), 30}) + 4 * Similarity(a)

(* The sort key (-score, artifact_id).                                     *)
Before(a, b) ==
  \/ Score(a) > Score(b)
  \/ Score(a) = Score(b) /\ IdRank[a] < IdRank[b]

Order == {pair \in Artifacts \X Artifacts : Before(pair[1], pair[2])}

Eligible(now) == {rec \in found : Failed(rec, now) = {}}

Candidates(now) == {a \in {rec.id : rec \in Eligible(now)} : Hits(a) # {}}

Best(ranked) == SubSeq(ranked, 1, Min({TopK, Len(ranked)}))

(* Mutation: the cap is forgotten.                                         *)
SelectionUncapped(now) == SortedBy(Candidates(now), Order)

(* Mutation: the cap is applied to the artifacts in the store's order.     *)
SelectionUnranked(now) ==
  Best(SortedBy(Candidates(now),
                {pair \in Artifacts \X Artifacts : IdRank[pair[1]] < IdRank[pair[2]]}))

Selection(now) == Best(SortedBy(Candidates(now), Order))

Blocker(what, which) == [code |-> what, reference |-> which]

(* The blockers of an empty selection.                                     *)
Blockers(now) ==
  IF found = {} THEN {Blocker("NO_ARTIFACT", NoReference)}
  ELSE {Blocker(IF rec \in Eligible(now) THEN "NO_LEXICAL_SIGNAL" ELSE Reason(rec, now),
                rec.id) : rec \in found}

----------------------------------------------------------------------------
(* assemble_bundle: the tables of the snapshots that were returned, as far *)
(* as some selected artifact mentions their name.                          *)
Allowed(ids) == UNION {Row[a].tables : a \in ids}

(* Mutation: the loop is left after the first snapshot.                    *)
ContextTablesFirst(ids, returned) ==
  IF returned = {} THEN {}
  ELSE LET s == CHOOSE x \in returned : TRUE
       IN  {<<s, t>> : t \in Allowed(ids) \cap SnapshotTables[s]}

ContextTables(ids, returned) ==
  {at \in returned \X Allowed(ids) : at[2] \in SnapshotTables[at[1]]}

----------------------------------------------------------------------------
(* The handler.                                                            *)

Waiting(at) == pc = at

Static == UNCHANGED <<wired, authOn, clock>>

(* The response leaves the handler.                                        *)
Answer(c) == pc' = "done" /\ code' = c

Begin ==
  /\ Waiting("idle")
  /\ touched' = {}
  /\ UNCHANGED <<storeVars, embedded, readVars, picked, rejected, tables, chosenAt>>
  /\ Static

(* _get_deps and _get_auth refuse the call.                                *)
Refuse ==
  /\ Begin
  /\ \/ ~wired /\ Answer(503)
     \/ authOn /\ Answer(401)
  /\ UNCHANGED caller

(* They admit it: a verified token, or the internal consumer without one.  *)
Admit ==
  /\ Begin
  /\ wired
  /\ caller' \in IF authOn THEN Callers ELSE {Internal}
  /\ pc' = "embedding"
  /\ UNCHANGED code

Idle == UNCHANGED <<storeVars, caller, touched>> /\ Static

Embed ==
  /\ Waiting("embedding")
  /\ embedded' = "vector"
  /\ pc' = "artifacts"
  /\ UNCHANGED <<readVars, answerVars>>
  /\ Idle

(* HttpEmbeddingProvider.embed raises: an httpx error or a vector of the   *)
(* wrong length is an EmbeddingProviderError, hence 503; a body that is    *)
(* not JSON or lacks data[0].embedding is any other exception, hence 500.  *)
EmbedFails ==
  /\ Waiting("embedding")
  /\ embedded' = "failed"
  /\ Answer(503) \/ Answer(500)
  /\ UNCHANGED <<readVars, picked, rejected, tables, chosenAt>>
  /\ Idle

ReadArtifacts ==
  /\ Waiting("artifacts")
  /\ found' = {[id |-> a, status |-> status[a]] : a \in ListPublished(caller.tenant)}
  /\ pc' = "vectors"
  /\ UNCHANGED <<embedded, vectors, known, gloss, answerVars>>
  /\ Idle

ReadEmbeddings ==
  /\ Waiting("vectors")
  /\ vectors' = ArtifactEmbeddings(caller.tenant)
  /\ pc' = "snapshots"
  /\ UNCHANGED <<embedded, found, known, gloss, answerVars>>
  /\ Idle

ReadSnapshotIds ==
  /\ Waiting("snapshots")
  /\ known' = KnownSnapshotIds(caller.tenant)
  /\ pc' = "terms"
  /\ UNCHANGED <<embedded, found, vectors, gloss, answerVars>>
  /\ Idle

(* glossary is two queries on one connection, without a transaction.       *)
ReadTerms ==
  /\ Waiting("terms")
  /\ gloss' = [gloss EXCEPT !.terms = GlossaryTerms]
  /\ pc' = "synonyms"
  /\ UNCHANGED <<embedded, found, vectors, known, answerVars>>
  /\ Idle

ReadSynonyms ==
  /\ Waiting("synonyms")
  /\ gloss' = [gloss EXCEPT !.synonyms = GlossarySynonyms]
  /\ pc' = "selecting"
  /\ UNCHANGED <<embedded, found, vectors, known, answerVars>>
  /\ Idle

(* The handler resumes with the glossary and selects.  With nothing        *)
(* selected snapshot_payloads returns {} without a query and the blocked   *)
(* bundle follows at once.                                                 *)
Select ==
  /\ Waiting("selecting")
  /\ chosenAt' = clock
  /\ picked' = Selection(clock)
  /\ \/ /\ Candidates(clock) # {}
        /\ pc' = "payloads"
        /\ UNCHANGED <<rejected, code>>
     \/ /\ Candidates(clock) = {}
        /\ rejected' = Blockers(clock)
        /\ Answer(200)
  /\ UNCHANGED <<embedded, readVars, tables>>
  /\ Idle

ReadPayloads ==
  LET ids      == Range(picked)
      returned == SnapshotPayloads(caller.tenant, {Row[a].snapshot : a \in ids})
  IN  /\ Waiting("payloads")
      /\ tables' = ContextTables(ids, returned)
      /\ Answer(200)
      /\ UNCHANGED <<embedded, readVars, picked, rejected, chosenAt>>
      /\ Idle

(* Any query of the store raises; nothing catches it.                      *)
StoreFails ==
  /\ pc \in {"artifacts", "vectors", "snapshots", "terms", "synonyms", "payloads"}
  /\ Answer(500)
  /\ UNCHANGED <<embedded, readVars, picked, rejected, tables, chosenAt>>
  /\ Idle

Tick ==
  /\ clock < MaxClock
  /\ clock' = clock + 1
  /\ UNCHANGED <<storeVars, wired, authOn, pc, caller, embedded, readVars,
                 answerVars, touched>>

Publish ==
  /\ pc # "done"
  /\ \E row \in Rows : Publisher(row) /\ touched' = touched \cup {row}
  /\ UNCHANGED <<wired, authOn, clock, pc, caller, embedded, readVars, answerVars>>

Next ==
  \/ Refuse \/ Admit
  \/ Embed \/ EmbedFails \/ ReadArtifacts \/ ReadEmbeddings \/ ReadSnapshotIds
  \/ ReadTerms \/ ReadSynonyms \/ Select \/ ReadPayloads \/ StoreFails
  \/ Tick \/ Publish

(* No fairness: the provider's timeout is for each network operation and   *)
(* the store's queries have none, so that no await is bound to return.     *)
Spec == Init /\ [][Next]_vars

----------------------------------------------------------------------------
Ready   == pc = "done" /\ code = 200 /\ picked # <<>>
Blocked == pc = "done" /\ code = 200 /\ picked = <<>>

(* Was the artifact or snapshot row visible at some moment of the call?    *)
WasPublished(a)  == status[a] = "PUBLISHED" \/ a \in touched
WasRegistered(s) == s \in snapshots \/ s \in touched

(* artifact_selector.py:68-99 over reads made at different moments.        *)
(* Every artifact of a ready bundle belongs to the caller's tenant, admits *)
(* one of its roles, is ready, was published and had its snapshot          *)
(* registered at some moment of the call, and was valid, to within the     *)
(* second the timestamps are cut to, when it was selected.                 *)
ReadyBundleEligible ==
  Ready => \A a \in Range(picked) :
    /\ Row[a].tenant = caller.tenant /\ Row[a].ready
    /\ Row[a].roles = {} \/ Row[a].roles \cap caller.roles # {}
    /\ WasPublished(a) /\ WasRegistered(Row[a].snapshot)
    /\ Row[a].from # NoTime => chosenAt + TicksPerSecond > Row[a].from
    /\ Row[a].to # NoTime => chosenAt < Row[a].to + TicksPerSecond
    /\ Hits(a) # {}

(* artifact_selector.py:154-163.  Nothing better is left out: an eligible  *)
(* artifact missing from a ready bundle loses to each of the top_k kept,   *)
(* on score or, at equal score, on its id.                                 *)
NothingBetterLeftOut ==
  Ready =>
    /\ \A i, j \in DOMAIN picked : i < j => Before(picked[i], picked[j])
    /\ \A a \in Candidates(chosenAt) \ Range(picked) :
         Len(picked) = TopK /\ Before(Last(picked), a)

(* v2_store.py:96-103, a second query after that of the artifacts.  An     *)
(* artifact that is retired between the two is still scored with its       *)
(* vectors: no answer ranks a listed artifact on its words alone.          *)
ScoredOnOwnVectors ==
  code = 200 =>
    \A rec \in found : Similarity(rec.id) = Max({Row[rec.id].similarity, 0})

(* Is c what the selection has against a record: no word of it in the      *)
(* question, or the first of the tests that it failed?                     *)
Explains(c, rec) ==
  \/ c = "NO_LEXICAL_SIGNAL" /\ Failed(rec, chosenAt) = {} /\ Hits(rec.id) = {}
  \/ \E test \in Failed(rec, chosenAt) :
       c = test[2] /\ \A other \in Failed(rec, chosenAt) : test[1] <= other[1]

(* artifact_selector.py:77-99, 119-169 and bundle_assembler.py:119-134.  A *)
(* blocked bundle gives exactly one reason for every artifact the store    *)
(* returned, the first that applies, or says there was none, and carries   *)
(* no schema.                                                              *)
BlockedExplained ==
  Blocked =>
    /\ tables = {}
    /\ found = {} => {b.code : b \in rejected} = {"NO_ARTIFACT"}
    /\ found # {} =>
         /\ Cardinality(rejected) = Cardinality(found)
         /\ \A rec \in found :
              \E b \in rejected : b.reference = rec.id /\ Explains(b.code, rec)

(* bundle_assembler.py:149-157, for a call whose snapshots nobody touched: *)
(* every table a selected artifact mentions and its snapshot holds is in   *)
(* the schema context.                                                     *)
ContextComplete ==
  \A a \in Range(picked) :
    \A t \in Row[a].tables \cap SnapshotTables[Row[a].snapshot] :
      <<Row[a].snapshot, t>> \in tables

ContextCompleteIfUntouched ==
  Ready /\ touched \cap Snapshots = {} => ContextComplete

(* v2_store.py:153-155.  A synonym of the response whose standard term the *)
(* response lacks is a term without stable_id, or the glossary was edited  *)
(* while the call ran.                                                     *)
GlossaryTornOnlyByEdit ==
  pc \in {"selecting", "payloads", "done"} =>
    \A s \in gloss.synonyms :
      \/ SynonymOf[s] \in gloss.terms
      \/ SynonymOf[s] \notin Stable
      \/ SynonymOf[s] \in touched

(* test_decision_v2.py:194 expects an unregistered snapshot to block: a    *)
(* bundle declared ready has the schema of everything it selected.         *)
ReadyMeansContext == Ready => ContextComplete

(* decision_v2.py:7 says that a provider failure is answered 503.          *)
ProviderFailureIs503 == embedded = "failed" => code = 503

============================================================================
