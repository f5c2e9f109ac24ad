----------------------------- MODULE QueryExec -----------------------------
(***************************************************************************)
(* POST /query/execute (routers/query_exec.py) over                        *)
(* query_runner_mindsdb.execute, for several requests interleaved on one   *)
(* event loop, against a store that a publisher changes meanwhile, with an *)
(* audit file whose writes may fail and a process that may be killed.      *)
(*                                                                         *)
(* The loop switches requests only at an await: the query for the          *)
(* published artifacts and the HTTP post.  Everything between two awaits   *)
(* is one action.  What happens inside the post is BackendCall's subject;  *)
(* here it takes the statement to the backend, or not, and returns one of  *)
(* the statuses execute can end with.                                      *)
(***************************************************************************)
EXTENDS V2Store, QueryGuards, Sequences

CONSTANTS
  Requests,       \* requests; a request also stands for its audit_id
  Args,           \* request arguments [sql, artifact, token]
  Sql,            \* [statement texts -> statement records of QueryGuards]
  NoArtifact,     \* artifact_id absent (or empty)
  NoArg,          \* the request has not arrived yet
  DefaultTenant,  \* V2Deps.default_tenant_id
  MaxFaults,      \* bound: audit writes that fail
  MaxCrashes      \* bound: times the process is killed

ASSUME ArgsAssumption ==
  /\ NoArtifact \notin Artifacts /\ NoArg \notin Args
  /\ DefaultTenant \in Tenants
  /\ \A x \in Args : /\ x.sql \in DOMAIN Sql
                     /\ x.artifact \in Artifacts \cup {NoArtifact}
                     /\ x.token \in Tenants \cup {"missing", "invalid"}

ASSUME FaultsAssumption == MaxFaults \in Nat /\ MaxCrashes \in Nat

VARIABLES
  wired,     \* app.state.v2_deps is set
  authOn,    \* deps.auth_config is not None
  up,        \* the process is running
  pc,        \* [Requests -> where the handler is]
  arg,       \* [Requests -> arguments]
  found,     \* [Requests -> rows list_published_artifacts returned]
  reply,     \* [Requests -> status code of the response, 0 before it]
  log,       \* the audit file, a sequence of [id, status]
  torn,      \* the file ends in a fragment without its newline
  damaged,   \* requests whose entry shares a line with a fragment
  faults,    \* failed audit writes so far
  crashes,   \* crashes so far
  sent,      \* history: requests whose statement reached the backend
  hit,       \* history: requests that met a crash or a failed audit write
  seen       \* history: [Requests -> artifacts published while it ran]

handlerVars == <<pc, arg, found, reply>>
auditVars   == <<log, torn, damaged, faults>>
historyVars == <<sent, hit, seen>>
configVars  == <<wired, authOn>>

vars == <<storeVars, configVars, up, crashes, handlerVars, auditVars, historyVars>>

Awaiting == {"listing", "listed", "posting", "awaiting", "replying"}

RunStatus == {"ok", "timeout", "db_error", "error"}

(* Statuses of a result that can hold columns and rows of the backend:     *)
(* "error" also ends a row loop that raised after the columns were read.   *)
WithData == {"ok", "error"}

Codes == {200, 400, 401, 404, 500, 503}

TypeOK ==
  /\ StoreTypeOK
  /\ wired \in BOOLEAN /\ authOn \in BOOLEAN /\ up \in BOOLEAN
  /\ pc \in [Requests -> {"idle", "done", "lost"} \cup Awaiting]
  /\ arg \in [Requests -> Args \cup {NoArg}]
  /\ found \in [Requests -> SUBSET Artifacts]
  /\ reply \in [Requests -> {0} \cup Codes]
  /\ log \in Seq([id : Requests, status : RunStatus \cup {"rejected"}])
  /\ torn \in BOOLEAN
  /\ damaged \in SUBSET Requests
  /\ faults \in 0..MaxFaults
  /\ crashes \in 0..MaxCrashes
  /\ sent \in SUBSET Requests
  /\ hit \in SUBSET Requests
  /\ seen \in [Requests -> SUBSET Artifacts]

Init ==
  /\ StoreInit
  /\ wired \in BOOLEAN /\ authOn \in BOOLEAN /\ (authOn => wired)
  /\ up = TRUE
  /\ pc = [r \in Requests |-> "idle"]
  /\ arg = [r \in Requests |-> NoArg]
  /\ found = [r \in Requests |-> {}]
  /\ reply = [r \in Requests |-> 0]
  /\ log = <<>>
  /\ torn = FALSE
  /\ damaged = {}
  /\ faults = 0 /\ crashes = 0
  /\ sent = {} /\ hit = {}
  /\ seen = [r \in Requests |-> {}]

----------------------------------------------------------------------------
(* decision_v2._get_auth: without an auth_config everybody is the default  *)
(* tenant; otherwise the tenant comes from the verified token only.        *)
AuthFails(x) == authOn /\ x.token \in {"missing", "invalid"}

TenantOf(x) == IF authOn THEN x.token ELSE DefaultTenant

Published == {a \in Artifacts : status[a] = "PUBLISHED"}

(* The handler of r goes to a place where it waits.                        *)
GoTo(r, where) == pc' = [pc EXCEPT ![r] = where]

(* A response with this code is handed to the server for sending.          *)
Respond(r, code) ==
  /\ pc' = [pc EXCEPT ![r] = "replying"]
  /\ reply' = [reply EXCEPT ![r] = code]

(* Mutation: the fragment is not terminated by the next entry.             *)
AppendAfterFragment(r, s) ==
  /\ log' = Append(log, [id |-> r, status |-> s])
  /\ damaged' = IF torn THEN damaged \cup {r} ELSE damaged
  /\ UNCHANGED <<torn, faults, hit>>

(* _append_audit: one line appended and the file closed.  When an earlier  *)
(* write left a fragment the new entry continues its line.                 *)
AppendAudit(r, s) ==
  /\ log' = Append(log, [id |-> r, status |-> s])
  /\ damaged' = IF torn THEN damaged \cup {r} ELSE damaged
  /\ torn' = FALSE
  /\ UNCHANGED <<faults, hit>>

(* mkdir, open or write raises OSError, with or without a fragment left.   *)
AuditFails(r) ==
  /\ faults < MaxFaults
  /\ faults' = faults + 1
  /\ torn' \in {torn, TRUE}
  /\ hit' = hit \cup {r}
  /\ UNCHANGED <<log, damaged>>

(* Mutation: a failed audit write is swallowed.                            *)
AuditBestEffort(r, s, code) ==
  \/ AppendAudit(r, s) /\ Respond(r, code)
  \/ AuditFails(r) /\ Respond(r, code)

(* Write the entry, then answer; an OSError escapes as a 500 instead.      *)
AuditThenRespond(r, s, code) ==
  \/ AppendAudit(r, s) /\ Respond(r, code)
  \/ AuditFails(r) /\ Respond(r, 500)

(* Mutation: every exception is audited, with a status of its own.         *)
JudgeAuditRaise(r, sql, hasPayload, payload) ==
  LET verdict == Guard(Sql[sql], hasPayload, payload)
  IN  \/ /\ verdict = "pass"
         /\ GoTo(r, "posting")
         /\ UNCHANGED <<reply, auditVars, hit>>
      \/ verdict = "reject" /\ AuditThenRespond(r, "rejected", 400)
      \/ verdict = "raise" /\ AuditThenRespond(r, "raised", 500)

(* Mutation: the entry is written before the guards, whatever they say.    *)
JudgeAuditFirst(r, sql, hasPayload, payload) ==
  LET verdict == Guard(Sql[sql], hasPayload, payload)
  IN  \/ AppendAudit(r, "rejected") /\ GoTo(r, "posting") /\ UNCHANGED reply
      \/ verdict # "pass" /\ AuditThenRespond(r, "rejected", 400)

(* The guards of execute.  Only GuardError is audited and becomes a 400;   *)
(* any other exception escapes.                                            *)
Judge(r, sql, hasPayload, payload) ==
  LET verdict == Guard(Sql[sql], hasPayload, payload)
  IN  \/ /\ verdict = "pass"
         /\ GoTo(r, "posting")
         /\ UNCHANGED <<reply, auditVars, hit>>
      \/ /\ verdict = "reject"
         /\ AuditThenRespond(r, "rejected", 400)
      \/ /\ verdict = "raise"
         /\ Respond(r, 500)
         /\ UNCHANGED <<auditVars, hit>>

----------------------------------------------------------------------------
(* query_execute up to its first await.                                    *)

Unchanged == UNCHANGED <<storeVars, configVars, up, crashes, sent>>

Arrive(r, x) ==
  /\ up /\ pc[r] = "idle"
  /\ arg' = [arg EXCEPT ![r] = x]
  /\ seen' = [seen EXCEPT ![r] = Published]
  /\ UNCHANGED found
  /\ Unchanged

(* No artifact: straight to the guards.                                    *)
ReceivePlain(r, x) ==
  /\ x.artifact = NoArtifact
  /\ Arrive(r, x)
  /\ Judge(r, x.sql, FALSE, {})

(* An artifact, but no v2 wiring (503) or no valid token (401).            *)
ReceiveRefused(r, x) ==
  /\ x.artifact # NoArtifact
  /\ Arrive(r, x)
  /\ \/ ~wired /\ Respond(r, 503)
     \/ wired /\ AuthFails(x) /\ Respond(r, 401)
  /\ UNCHANGED <<auditVars, hit>>

(* An artifact to look up: the handler waits for the store.                *)
ReceiveArtifact(r, x) ==
  /\ x.artifact # NoArtifact
  /\ wired /\ ~AuthFails(x)
  /\ Arrive(r, x)
  /\ GoTo(r, "listing")
  /\ UNCHANGED <<reply, auditVars, hit>>

(* The store evaluates the query; the handler is not running.              *)
ListRows(r) ==
  /\ pc[r] = "listing"
  /\ found' = [found EXCEPT ![r] = ListPublished(TenantOf(arg[r]))]
  /\ GoTo(r, "listed")
  /\ Unchanged
  /\ UNCHANGED <<arg, reply, auditVars, hit, seen>>

(* The pool or the query raises.                                           *)
ListFails(r) ==
  /\ pc[r] = "listing"
  /\ Respond(r, 500)
  /\ Unchanged
  /\ UNCHANGED <<arg, found, auditVars, hit, seen>>

(* The handler resumes with the rows: 404, or on to the guards.            *)
Resolve(r) ==
  /\ pc[r] = "listed"
  /\ \/ /\ arg[r].artifact \notin found[r]
        /\ Respond(r, 404)
        /\ UNCHANGED <<auditVars, hit>>
     \/ /\ arg[r].artifact \in found[r]
        /\ Judge(r, arg[r].sql, TRUE, Row[arg[r].artifact].payload)
  /\ found' = [found EXCEPT ![r] = {}]
  /\ Unchanged
  /\ UNCHANGED <<arg, seen>>

----------------------------------------------------------------------------
(* The post, and the rest of execute once it returned.                     *)

Deliver(r) ==
  /\ pc[r] = "posting"
  /\ GoTo(r, "awaiting")
  /\ sent' = sent \cup {r}
  /\ UNCHANGED <<storeVars, configVars, up, crashes, arg, found, reply,
                 auditVars, hit, seen>>

(* The return of query_execute: the entry is in the log, and rendering     *)
(* what the backend sent may still raise (a column name that is no UTF-8,  *)
(* a value that json reads and the JSON response refuses).                 *)
AuditThenRender(r, s) ==
  \/ AuditThenRespond(r, s, 200)
  \/ s \in WithData /\ AppendAudit(r, s) /\ Respond(r, 500)

(* Mutation: only the answers of the backend are audited.                  *)
CallReturnsAudited(r) ==
  /\ \/ /\ pc[r] = "posting"
        /\ Respond(r, 200) /\ UNCHANGED <<auditVars, hit>>
     \/ /\ pc[r] = "awaiting"
        /\ \/ \E s \in {"ok", "db_error"} : AuditThenRender(r, s)
           \/ Respond(r, 200) /\ UNCHANGED <<auditVars, hit>>
  /\ Unchanged
  /\ UNCHANGED <<arg, found, seen>>

(* A statement that never reached the backend cannot end "ok", and its     *)
(* result holds nothing of the backend.                                    *)
CallReturns(r) ==
  /\ \/ /\ pc[r] = "posting"
        /\ \E s \in {"timeout", "error"} : AuditThenRespond(r, s, 200)
     \/ /\ pc[r] = "awaiting"
        /\ \E s \in RunStatus : AuditThenRender(r, s)
  /\ Unchanged
  /\ UNCHANGED <<arg, found, seen>>

(* The response leaves the process.                                        *)
Send(r) ==
  /\ pc[r] = "replying"
  /\ GoTo(r, "done")
  /\ Unchanged
  /\ UNCHANGED <<arg, found, reply, auditVars, hit, seen>>

----------------------------------------------------------------------------
(* The process is killed: every handler in progress is gone, the audit     *)
(* file and the backend stay as they are.                                  *)
Crash ==
  LET gone == {r \in Requests : pc[r] \in Awaiting}
  IN  /\ up /\ crashes < MaxCrashes
      /\ up' = FALSE
      /\ crashes' = crashes + 1
      /\ pc' = [r \in Requests |-> IF r \in gone THEN "lost" ELSE pc[r]]
      /\ hit' = hit \cup gone
      /\ UNCHANGED <<storeVars, configVars, arg, found, reply, auditVars,
                     sent, seen>>

Restart ==
  /\ ~up
  /\ up' = TRUE
  /\ UNCHANGED <<storeVars, configVars, crashes, handlerVars, auditVars,
                 historyVars>>

Publish ==
  /\ \E row \in Rows : Publisher(row)
  /\ seen' = [r \in Requests |->
                IF pc[r] \in Awaiting
                THEN seen[r] \cup {a \in Artifacts : status'[a] = "PUBLISHED"}
                ELSE seen[r]]
  /\ UNCHANGED <<configVars, up, crashes, handlerVars, auditVars, sent, hit>>

Next ==
  \/ \E r \in Requests :
       \/ \E x \in Args :
            ReceivePlain(r, x) \/ ReceiveRefused(r, x) \/ ReceiveArtifact(r, x)
       \/ ListRows(r) \/ ListFails(r) \/ Resolve(r)
       \/ Deliver(r) \/ CallReturns(r) \/ Send(r)
  \/ Crash \/ Restart \/ Publish

(* No fairness: nothing bounds the wait for the metadata database, and the *)
(* post lasts as long as the backend keeps sending.                        *)
Spec == Init /\ [][Next]_vars

----------------------------------------------------------------------------
Entries(r) == {i \in DOMAIN log : log[i].id = r}

(* query_runner_mindsdb.py:87 and :176, two append sites on different      *)
(* paths.  A request has at most one entry over all crashes and retries of *)
(* the file, an entry "rejected" means the backend never got the statement *)
(* and an entry that reports a backend answer means it did.                *)
AuditTellsTruth ==
  /\ \A r \in Requests : Cardinality(Entries(r)) <= 1
  /\ \A i \in DOMAIN log :
       /\ log[i].status = "rejected" => log[i].id \notin sent
       /\ log[i].status \in {"ok", "db_error"} => log[i].id \in sent

(* query_runner_mindsdb.py:160-176.  The audit entry is written after the  *)
(* statement ran.  A finished request whose statement ran unaudited was    *)
(* hit by a crash or a failed write, and its caller was never told 200.    *)
UnauditedOnlyByFault ==
  \A r \in sent :
    pc[r] \in {"replying", "done", "lost"} /\ Entries(r) = {}
      => r \in hit /\ reply[r] \notin {200, 400}

(* query_exec.py:36-38 and query_runner_mindsdb.py:77-85.  A statement     *)
(* that reached the backend for an artifact passed the allowlist of an     *)
(* artifact of the caller's tenant that was published at some moment while *)
(* the request ran, whatever the publisher did meanwhile.                  *)
SentUnderPublishedArtifact ==
  \A r \in sent : arg[r].artifact # NoArtifact =>
    /\ arg[r].artifact \in seen[r]
    /\ Row[arg[r].artifact].tenant = TenantOf(arg[r])
    /\ Guard(Sql[arg[r].sql], TRUE, Row[arg[r].artifact].payload) = "pass"

(* query_runner_mindsdb.py:33-34.  Every failed write costs at most one    *)
(* unreadable line: the log repairs itself with the next entry.            *)
DamageBounded ==
  /\ Cardinality(damaged) + (IF torn THEN 1 ELSE 0) <= faults
  /\ \A r \in damaged : Entries(r) # {}

(* The audit promise, with a response counted once it was sent.            *)
Trail == INSTANCE AuditTrail WITH
  entries <- log,
  answer  <- [r \in Requests |-> IF pc[r] = "done" THEN reply[r] ELSE 0]

(* query_runner_mindsdb.py:86-97, 176-189 and query_exec.py:61:            *)
(* /query/execute keeps the promise of AuditTrail in spite of              *)
(* interleaving, write faults, kills and results that cannot be rendered.  *)
KeepsAuditPromise == Trail!Spec

============================================================================
