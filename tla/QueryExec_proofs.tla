-------------------------- MODULE QueryExec_proofs -------------------------
(***************************************************************************)
(* The safety properties of QueryExec and its implementation of            *)
(* AuditTrail, for any number of requests, artifacts, edits, faults and    *)
(* crashes.                                                                *)
(***************************************************************************)
EXTENDS QueryExec, SequenceTheorems, FiniteSetTheorems, TLAPS

Entry == [id : Requests, status : RunStatus \cup {"rejected"}]

(* Places of a handler that has not reached its audit entry yet.           *)
Unsent == {"idle", "listing", "listed", "posting"}
Early  == Unsent \cup {"awaiting"}

Logged(r)      == \E i \in DOMAIN log : log[i].id = r
LoggedAs(r, S) == \E i \in DOMAIN log : log[i].id = r /\ log[i].status \in S

----------------------------------------------------------------------------
(* What one step of the handler of r does to its place, its reply and the  *)
(* audit trail.                                                            *)

(* It goes on without an answer.                                           *)
Moves(r) ==
  /\ pc[r] \in {"idle", "listing", "listed"}
  /\ \E where \in {"listing", "listed", "posting"} : GoTo(r, where)
  /\ UNCHANGED <<reply, auditVars, hit, sent>>

(* It answers without an entry.                                            *)
Dismisses(r) ==
  /\ pc[r] \in {"idle", "listing", "listed"}
  /\ \E code \in Codes \ {200, 400} : Respond(r, code)
  /\ UNCHANGED <<auditVars, hit, sent>>

(* It writes its entry and answers accordingly.                            *)
Records(r) ==
  /\ \/ /\ pc[r] \in {"idle", "listed"}
        /\ AppendAudit(r, "rejected") /\ Respond(r, 400)
     \/ /\ pc[r] \in {"posting", "awaiting"}
        /\ \E s \in RunStatus :
             /\ s \in {"ok", "db_error"} => pc[r] = "awaiting"
             /\ AppendAudit(r, s)
             /\ Respond(r, 200) \/ (s \in WithData /\ Respond(r, 500))
  /\ UNCHANGED sent

(* It fails to write its entry.                                            *)
Fails(r) ==
  /\ pc[r] \in {"idle", "listed", "posting", "awaiting"}
  /\ AuditFails(r) /\ Respond(r, 500)
  /\ UNCHANGED sent

(* Steps that are not about the audit trail.                               *)
Aside == UNCHANGED <<pc, reply, auditVars, hit, sent>>

(* The guards either dismiss the request, record a rejection or let it go  *)
(* on: no other kind of step comes out of them.                            *)
LEMMA JudgeKinds ==
  ASSUME NEW r \in Requests, pc[r] \in {"idle", "listed"}, UNCHANGED sent,
         \/ GoTo(r, "posting") /\ UNCHANGED <<reply, auditVars, hit>>
         \/ AuditThenRespond(r, "rejected", 400)
         \/ Respond(r, 500) /\ UNCHANGED <<auditVars, hit>>
  PROVE  Moves(r) \/ Dismisses(r) \/ Records(r) \/ Fails(r)
<1>1. CASE GoTo(r, "posting") /\ UNCHANGED <<reply, auditVars, hit>>
  BY <1>1 DEF Moves
<1>2. CASE AuditThenRespond(r, "rejected", 400)
  BY <1>2 DEF AuditThenRespond, Records, Fails
<1>3. CASE Respond(r, 500) /\ UNCHANGED <<auditVars, hit>>
  BY <1>3 DEF Dismisses, Codes
<1> QED
  BY <1>1, <1>2, <1>3

(* Every step of the specification is of one of these kinds.               *)
LEMMA StepKinds ==
  ASSUME TypeOK, [Next]_vars
  PROVE  \/ \E r \in Requests :
              \/ Moves(r) \/ Dismisses(r) \/ Records(r) \/ Fails(r)
              \/ Deliver(r) \/ Send(r)
         \/ Crash
         \/ Aside
<1>1. ASSUME NEW r \in Requests, NEW x \in Args, ReceivePlain(r, x)
      PROVE  Moves(r) \/ Dismisses(r) \/ Records(r) \/ Fails(r)
  BY <1>1, JudgeKinds DEF ReceivePlain, Arrive, Unchanged, Judge
<1>2. ASSUME NEW r \in Requests, NEW x \in Args, ReceiveRefused(r, x)
      PROVE  Dismisses(r)
  BY <1>2 DEF ReceiveRefused, Arrive, Unchanged, Dismisses, Codes
<1>3. ASSUME NEW r \in Requests, NEW x \in Args, ReceiveArtifact(r, x)
      PROVE  Moves(r)
  BY <1>3 DEF ReceiveArtifact, Arrive, Unchanged, Moves
<1>4. ASSUME NEW r \in Requests, ListRows(r) PROVE Moves(r)
  BY <1>4 DEF ListRows, Unchanged, Moves
<1>5. ASSUME NEW r \in Requests, ListFails(r) PROVE Dismisses(r)
  BY <1>5 DEF ListFails, Unchanged, Dismisses, Codes
<1>6. ASSUME NEW r \in Requests, Resolve(r)
      PROVE  Moves(r) \/ Dismisses(r) \/ Records(r) \/ Fails(r)
  <2>1. CASE Respond(r, 404) /\ UNCHANGED <<auditVars, hit>>
    BY <1>6, <2>1 DEF Resolve, Unchanged, Dismisses, Codes
  <2>2. CASE /\ arg[r].artifact \in found[r]
             /\ Judge(r, arg[r].sql, TRUE, Row[arg[r].artifact].payload)
    BY <1>6, <2>2, JudgeKinds DEF Resolve, Unchanged, Judge
  <2> QED
    BY <1>6, <2>1, <2>2 DEF Resolve
<1>7. ASSUME NEW r \in Requests, CallReturns(r) PROVE Records(r) \/ Fails(r)
  BY <1>7
  DEF CallReturns, Unchanged, AuditThenRender, AuditThenRespond, Records, Fails, RunStatus
<1>8. ASSUME Restart \/ Publish \/ UNCHANGED vars PROVE Aside
  BY <1>8 DEF Restart, Publish, vars, handlerVars, auditVars, historyVars, Aside
<1> QED
  BY <1>1, <1>2, <1>3, <1>4, <1>5, <1>6, <1>7, <1>8 DEF Next

----------------------------------------------------------------------------
(* The audit invariant.                                                    *)

(* What the place and the reply of a request say about its entry.          *)
HandlerInv(r) ==
  /\ pc[r] \in Early => ~Logged(r) /\ reply[r] = 0
  /\ pc[r] \in Unsent => r \notin sent
  /\ pc[r] \in {"replying", "done"} => reply[r] # 0
  /\ reply[r] = 200 => LoggedAs(r, RunStatus)
  /\ reply[r] = 400 => LoggedAs(r, {"rejected"})
  /\ reply[r] = 500 /\ Logged(r) => LoggedAs(r, WithData)
  /\ reply[r] \notin {0, 200, 400, 500} => ~Logged(r)
  /\ r \in sent /\ ~Logged(r) /\ pc[r] # "awaiting" => r \in hit

(* What an entry says about its request.                                   *)
EntryInv ==
  /\ \A i, j \in DOMAIN log : log[i].id = log[j].id => i = j
  /\ \A i \in DOMAIN log :
       /\ log[i].status = "rejected" => log[i].id \notin sent
       /\ log[i].status \in {"ok", "db_error"} => log[i].id \in sent

(* A handler waits for the backend's answer only after the delivery.       *)
AwaitInv == \A r \in Requests : pc[r] = "awaiting" => r \in sent

AuditInv == EntryInv /\ AwaitInv /\ \A r \in Requests : HandlerInv(r)

(* query_runner_mindsdb.py:33-34: an appended entry is the last one, and   *)
(* the others stay where they are.                                         *)
LEMMA LogGrows ==
  ASSUME log \in Seq(Entry), NEW r \in Requests, NEW s \in RunStatus \cup {"rejected"},
         AppendAudit(r, s)
  PROVE  /\ log' \in Seq(Entry)
         /\ DOMAIN log' = DOMAIN log \cup {Len(log) + 1}
         /\ Len(log) + 1 \notin DOMAIN log
         /\ \A i \in DOMAIN log : log'[i] = log[i]
         /\ log'[Len(log) + 1] = [id |-> r, status |-> s]
<1> DEFINE e == [id |-> r, status |-> s]
<1>1. e \in Entry
  BY DEF Entry
<1>2. log' = Append(log, e)
  BY DEF AppendAudit
<1>3. Len(log) \in Nat /\ DOMAIN log = 1..Len(log)
  BY LenProperties
<1> HIDE DEF e
<1>4. /\ Append(log, e) \in Seq(Entry) /\ Len(Append(log, e)) = Len(log) + 1
      /\ \A i \in 1..Len(log) : Append(log, e)[i] = log[i]
      /\ Append(log, e)[Len(log) + 1] = e
  BY <1>1, AppendProperties
<1>5. DOMAIN log' = 1..(Len(log) + 1)
  BY <1>2, <1>4, LenProperties
<1>6. 1..(Len(log) + 1) = 1..Len(log) \cup {Len(log) + 1}
  BY <1>3
<1>7. Len(log) + 1 \notin 1..Len(log)
  BY <1>3
<1> QED
  BY <1>2, <1>3, <1>4, <1>5, <1>6, <1>7 DEF e

(* An appended entry makes its own request logged, and changes what is     *)
(* known of no other.                                                      *)
LEMMA LoggedGrows ==
  ASSUME log \in Seq(Entry), NEW r \in Requests, NEW s \in RunStatus \cup {"rejected"},
         AppendAudit(r, s)
  PROVE  /\ \A q \in Requests : Logged(q)' <=> Logged(q) \/ q = r
         /\ \A q \in Requests : \A S : LoggedAs(q, S) => LoggedAs(q, S)'
         /\ \A S : s \in S => LoggedAs(r, S)'
<1>1. /\ DOMAIN log' = DOMAIN log \cup {Len(log) + 1}
      /\ \A i \in DOMAIN log : log'[i] = log[i]
      /\ log'[Len(log) + 1] = [id |-> r, status |-> s]
  BY LogGrows
<1>2. ASSUME NEW q \in Requests PROVE Logged(q)' <=> Logged(q) \/ q = r
  BY <1>1 DEF Logged
<1>3. ASSUME NEW q \in Requests, NEW S, LoggedAs(q, S) PROVE LoggedAs(q, S)'
  BY <1>1, <1>3 DEF LoggedAs
<1>4. ASSUME NEW S, s \in S PROVE LoggedAs(r, S)'
  BY <1>1, <1>4 DEF LoggedAs
<1> QED
  BY <1>2, <1>3, <1>4

(* What is logged depends on the log alone.                                *)
LEMMA SameLog ==
  ASSUME log' = log
  PROVE  /\ \A q : Logged(q)' <=> Logged(q)
         /\ \A q, S : LoggedAs(q, S)' <=> LoggedAs(q, S)
  BY DEF Logged, LoggedAs

(* Logged with a status implies logged.                                    *)
LEMMA LoggedAsLogged ==
  ASSUME NEW r, NEW S, LoggedAs(r, S) PROVE Logged(r)
  BY DEF Logged, LoggedAs

(* With no request and an empty log the audit invariant holds.             *)
LEMMA AuditInvInit == Init => AuditInv
<1> SUFFICES ASSUME Init PROVE AuditInv
  OBVIOUS
<1>1. DOMAIN log = {}
  BY DEF Init
<1> QED
  BY <1>1 DEF Init, AuditInv, EntryInv, AwaitInv, HandlerInv, Logged, LoggedAs,
     Early, Unsent

(* Every kind of step keeps the audit invariant.                           *)
LEMMA AuditInvStep == TypeOK /\ AuditInv /\ [Next]_vars => AuditInv'
<1> SUFFICES ASSUME TypeOK, AuditInv, [Next]_vars PROVE AuditInv'
  OBVIOUS
<1>0. /\ pc \in [Requests -> {"idle", "done", "lost"} \cup Awaiting]
      /\ reply \in [Requests -> {0} \cup Codes]
      /\ log \in Seq(Entry)
  BY DEF TypeOK, Entry
<1>1. ASSUME NEW r \in Requests, Moves(r) PROVE AuditInv'
  <2>1. log' = log /\ sent' = sent /\ hit' = hit /\ reply' = reply
    BY <1>1 DEF Moves, auditVars
  <2>2. /\ pc[r] \in Unsent /\ pc'[r] \in Unsent
        /\ \A q \in Requests \ {r} : pc'[q] = pc[q]
    BY <1>0, <1>1 DEF Moves, GoTo, Unsent
  <2>3. \A q \in Requests : HandlerInv(q)'
    BY <2>1, <2>2, SameLog DEF AuditInv, HandlerInv, Early, Unsent
  <2>4. EntryInv' /\ AwaitInv'
    BY <2>1, <2>2 DEF AuditInv, EntryInv, AwaitInv, Unsent
  <2> QED
    BY <2>3, <2>4 DEF AuditInv
<1>2. ASSUME NEW r \in Requests, Dismisses(r) PROVE AuditInv'
  <2>1. log' = log /\ sent' = sent /\ hit' = hit
    BY <1>2 DEF Dismisses, auditVars
  <2>2. /\ pc[r] \in Unsent /\ pc'[r] = "replying"
        /\ reply'[r] \in Codes \ {200, 400} /\ 0 \notin Codes
        /\ \A q \in Requests \ {r} : pc'[q] = pc[q] /\ reply'[q] = reply[q]
    BY <1>0, <1>2 DEF Dismisses, Respond, Unsent, Codes
  <2>3. HandlerInv(r)'
    BY <2>1, <2>2, SameLog DEF AuditInv, HandlerInv, Early, Unsent
  <2>4. ASSUME NEW q \in Requests \ {r} PROVE HandlerInv(q)'
    BY <2>1, <2>2, SameLog DEF AuditInv, HandlerInv
  <2>5. EntryInv' /\ AwaitInv'
    BY <2>1, <2>2 DEF AuditInv, EntryInv, AwaitInv
  <2> QED
    BY <2>3, <2>4, <2>5 DEF AuditInv
<1>3. ASSUME NEW r \in Requests, Records(r) PROVE AuditInv'
  <2>1. PICK s \in RunStatus \cup {"rejected"} :
          /\ AppendAudit(r, s)
          /\ s = "rejected" => pc[r] \in {"idle", "listed"} /\ Respond(r, 400)
          /\ s # "rejected" => /\ pc[r] \in {"posting", "awaiting"}
                               /\ Respond(r, 200) \/ (s \in WithData /\ Respond(r, 500))
                               /\ s \in {"ok", "db_error"} => pc[r] = "awaiting"
    BY <1>3 DEF Records, RunStatus
  <2>2. sent' = sent /\ hit' = hit
    BY <1>3, <2>1 DEF Records, AppendAudit
  <2>3. /\ pc[r] \in Early /\ pc'[r] = "replying"
        /\ s = "rejected" => reply'[r] = 400
        /\ s # "rejected" => reply'[r] = 200 \/ (s \in WithData /\ reply'[r] = 500)
        /\ \A q \in Requests \ {r} : pc'[q] = pc[q] /\ reply'[q] = reply[q]
    BY <1>0, <2>1 DEF Respond, Early, Unsent
  <2>4. ~Logged(r)
    BY <2>3 DEF AuditInv, HandlerInv
  <2>5. HandlerInv(r)'
    <3>1. s # "rejected" => LoggedAs(r, RunStatus)'
      BY <1>0, <2>1, LoggedGrows
    <3>2. s = "rejected" => LoggedAs(r, {"rejected"})'
      BY <1>0, <2>1, LoggedGrows
    <3>3. Logged(r)'
      BY <1>0, <2>1, LoggedGrows
    <3>4. s \in WithData => LoggedAs(r, WithData)'
      BY <1>0, <2>1, LoggedGrows
    <3> QED
      BY <2>3, <3>1, <3>2, <3>3, <3>4 DEF HandlerInv, Early, Unsent
  <2>6. ASSUME NEW q \in Requests \ {r} PROVE HandlerInv(q)'
    <3>1. Logged(q)' <=> Logged(q)
      BY <1>0, <2>1, LoggedGrows
    <3>2. /\ LoggedAs(q, RunStatus) => LoggedAs(q, RunStatus)'
          /\ LoggedAs(q, {"rejected"}) => LoggedAs(q, {"rejected"})'
          /\ LoggedAs(q, WithData) => LoggedAs(q, WithData)'
      BY <1>0, <2>1, LoggedGrows
    <3> QED
      BY <2>2, <2>3, <3>1, <3>2 DEF AuditInv, HandlerInv
  <2>7. EntryInv'
    <3>1. /\ DOMAIN log' = DOMAIN log \cup {Len(log) + 1}
          /\ Len(log) + 1 \notin DOMAIN log
          /\ \A i \in DOMAIN log : log'[i] = log[i]
          /\ log'[Len(log) + 1] = [id |-> r, status |-> s]
      BY <1>0, <2>1, LogGrows
    <3>2. \A i \in DOMAIN log : log[i].id # r
      BY <2>4 DEF Logged
    <3>3. s = "rejected" => r \notin sent
      BY <2>1 DEF AuditInv, HandlerInv, Unsent
    <3>4. s \in {"ok", "db_error"} => r \in sent
      BY <2>1 DEF AuditInv, AwaitInv
    <3> QED
      BY <2>2, <3>1, <3>2, <3>3, <3>4 DEF AuditInv, EntryInv
  <2>8. AwaitInv'
    BY <2>2, <2>3 DEF AuditInv, AwaitInv
  <2> QED
    BY <2>5, <2>6, <2>7, <2>8 DEF AuditInv
<1>4. ASSUME NEW r \in Requests, Fails(r) PROVE AuditInv'
  <2>1. log' = log /\ sent' = sent /\ hit' = hit \cup {r}
    BY <1>4 DEF Fails, AuditFails
  <2>2. /\ pc[r] \in Early /\ pc'[r] = "replying" /\ reply'[r] = 500
        /\ \A q \in Requests \ {r} : pc'[q] = pc[q] /\ reply'[q] = reply[q]
    BY <1>0, <1>4 DEF Fails, Respond, Early, Unsent
  <2>3. HandlerInv(r)'
    BY <2>1, <2>2, SameLog DEF AuditInv, HandlerInv, Early, Unsent
  <2>4. ASSUME NEW q \in Requests \ {r} PROVE HandlerInv(q)'
    BY <2>1, <2>2, SameLog DEF AuditInv, HandlerInv
  <2>5. EntryInv' /\ AwaitInv'
    BY <2>1, <2>2 DEF AuditInv, EntryInv, AwaitInv
  <2> QED
    BY <2>3, <2>4, <2>5 DEF AuditInv
<1>5. ASSUME NEW r \in Requests, Deliver(r) PROVE AuditInv'
  <2>1. log' = log /\ sent' = sent \cup {r} /\ hit' = hit /\ reply' = reply
    BY <1>5 DEF Deliver, auditVars
  <2>2. /\ pc[r] = "posting" /\ pc'[r] = "awaiting"
        /\ \A q \in Requests \ {r} : pc'[q] = pc[q]
    BY <1>0, <1>5 DEF Deliver, GoTo
  <2>3. HandlerInv(r)'
    BY <2>1, <2>2, SameLog DEF AuditInv, HandlerInv, Early, Unsent
  <2>4. ASSUME NEW q \in Requests \ {r} PROVE HandlerInv(q)'
    BY <2>1, <2>2, SameLog DEF AuditInv, HandlerInv
  <2>5. EntryInv'
    <3>1. \A i \in DOMAIN log : log[i].id # r
      BY <2>2 DEF AuditInv, HandlerInv, Early, Unsent, Logged
    <3> QED
      BY <2>1, <3>1 DEF AuditInv, EntryInv
  <2>6. AwaitInv'
    BY <2>1, <2>2 DEF AuditInv, AwaitInv
  <2> QED
    BY <2>3, <2>4, <2>5, <2>6 DEF AuditInv
<1>6. ASSUME NEW r \in Requests, Send(r) PROVE AuditInv'
  <2>1. log' = log /\ sent' = sent /\ hit' = hit /\ reply' = reply
    BY <1>6 DEF Send, Unchanged, auditVars
  <2>2. /\ pc[r] = "replying" /\ pc'[r] = "done"
        /\ \A q \in Requests \ {r} : pc'[q] = pc[q]
    BY <1>0, <1>6 DEF Send, GoTo
  <2>3. \A q \in Requests : HandlerInv(q)'
    BY <2>1, <2>2, SameLog DEF AuditInv, HandlerInv, Early, Unsent
  <2>4. EntryInv' /\ AwaitInv'
    BY <2>1, <2>2 DEF AuditInv, EntryInv, AwaitInv
  <2> QED
    BY <2>3, <2>4 DEF AuditInv
<1>7. ASSUME Crash PROVE AuditInv'
  <2>1. log' = log /\ sent' = sent /\ reply' = reply
    BY <1>7 DEF Crash, auditVars
  <2>2. \A q \in Requests :
          IF pc[q] \in Awaiting THEN pc'[q] = "lost" /\ q \in hit'
          ELSE pc'[q] = pc[q] /\ (q \in hit => q \in hit')
    BY <1>7 DEF Crash
  <2>3. ASSUME NEW q \in Requests PROVE HandlerInv(q)'
    BY <2>1, <2>2, SameLog DEF AuditInv, HandlerInv, Early, Unsent, Awaiting
  <2>4. EntryInv' /\ AwaitInv'
    BY <2>1, <2>2 DEF AuditInv, EntryInv, AwaitInv
  <2> QED
    BY <2>3, <2>4 DEF AuditInv
<1>8. ASSUME Aside PROVE AuditInv'
  <2>1. /\ log' = log /\ sent' = sent /\ hit' = hit
        /\ reply' = reply /\ pc' = pc
    BY <1>8 DEF Aside, auditVars
  <2> QED
    BY <2>1, SameLog DEF AuditInv, EntryInv, AwaitInv, HandlerInv
<1> QED
  BY <1>1, <1>2, <1>3, <1>4, <1>5, <1>6, <1>7, <1>8, StepKinds

----------------------------------------------------------------------------
(* Types.                                                                  *)

AuditTypes ==
  /\ log \in Seq(Entry) /\ torn \in BOOLEAN
  /\ damaged \in SUBSET Requests /\ faults \in 0..MaxFaults
  /\ hit \in SUBSET Requests

HandlerTypes ==
  /\ pc \in [Requests -> {"idle", "done", "lost"} \cup Awaiting]
  /\ reply \in [Requests -> {0} \cup Codes]
  /\ sent \in SUBSET Requests

(* An edit of the metadata store keeps its types.                          *)
LEMMA StoreTypesStep ==
  ASSUME StoreTypeOK, NEW row, Publisher(row)
  PROVE  StoreTypeOK'
<1>1. edits' \in 0..MaxEdits
  BY StoreAssumption
  DEF StoreTypeOK, Publisher, EditArtifact, EditSnapshot, EditTerm, EditSynonym, Edit
<1>2. status' \in [Artifacts -> Status]
  BY DEF StoreTypeOK, Publisher, EditArtifact, EditSnapshot, EditTerm, EditSynonym
<1>3. /\ snapshots' \in SUBSET Snapshots
      /\ terms' \in SUBSET Terms /\ synonyms' \in SUBSET Synonyms
  BY DEF StoreTypeOK, Publisher, EditArtifact, EditSnapshot, EditTerm, EditSynonym,
         Toggled
<1> QED
  BY <1>1, <1>2, <1>3 DEF StoreTypeOK

(* A step that leaves the store alone keeps its types.                     *)
LEMMA StoreTypesKept ==
  ASSUME StoreTypeOK, UNCHANGED storeVars
  PROVE  StoreTypeOK'
  BY DEF StoreTypeOK, storeVars

(* The variables of the audit kinds keep their types in every step.        *)
LEMMA TrailTypesStep ==
  ASSUME TypeOK, [Next]_vars
  PROVE  AuditTypes' /\ HandlerTypes'
<1>0. AuditTypes /\ HandlerTypes
  BY DEF TypeOK, AuditTypes, HandlerTypes, Entry
<1>1. ASSUME NEW r \in Requests, Moves(r) PROVE AuditTypes' /\ HandlerTypes'
  BY <1>0, <1>1 DEF Moves, GoTo, AuditTypes, HandlerTypes, auditVars, Awaiting
<1>2. ASSUME NEW r \in Requests, Dismisses(r) PROVE AuditTypes' /\ HandlerTypes'
  BY <1>0, <1>2 DEF Dismisses, Respond, AuditTypes, HandlerTypes, auditVars, Awaiting
<1>3. ASSUME NEW r \in Requests, Records(r) PROVE AuditTypes' /\ HandlerTypes'
  <2>1. PICK s \in RunStatus \cup {"rejected"} :
          AppendAudit(r, s) /\ \E code \in {200, 400, 500} : Respond(r, code)
    BY <1>3 DEF Records
  <2>2. AuditTypes'
    <3>1. log' \in Seq(Entry)
      BY <1>0, <2>1, LogGrows DEF AuditTypes
    <3>2. /\ damaged' \in {damaged, damaged \cup {r}} /\ torn' = FALSE
          /\ faults' = faults /\ hit' = hit
      BY <2>1 DEF AppendAudit
    <3> QED
      BY <1>0, <3>1, <3>2 DEF AuditTypes
  <2>3. HandlerTypes'
    BY <1>0, <1>3, <2>1 DEF Records, Respond, HandlerTypes, Awaiting, Codes
  <2> QED
    BY <2>2, <2>3
<1>4. ASSUME NEW r \in Requests, Fails(r) PROVE AuditTypes' /\ HandlerTypes'
  <2>1. AuditTypes'
    <3>1. faults' \in 0..MaxFaults
      BY <1>0, <1>4, FaultsAssumption DEF Fails, AuditFails, AuditTypes
    <3>2. log' \in Seq(Entry) /\ damaged' \in SUBSET Requests /\ hit' \in SUBSET Requests
      BY <1>0, <1>4 DEF Fails, AuditFails, AuditTypes
    <3>3. torn' \in BOOLEAN
      BY <1>0, <1>4, Zenon DEF Fails, AuditFails, AuditTypes
    <3> QED
      BY <3>1, <3>2, <3>3 DEF AuditTypes
  <2>2. HandlerTypes'
    BY <1>0, <1>4 DEF Fails, Respond, HandlerTypes, Awaiting, Codes
  <2> QED
    BY <2>1, <2>2
<1>5. ASSUME NEW r \in Requests, Deliver(r) PROVE AuditTypes' /\ HandlerTypes'
  BY <1>0, <1>5 DEF Deliver, GoTo, AuditTypes, HandlerTypes, auditVars, Awaiting
<1>6. ASSUME NEW r \in Requests, Send(r) PROVE AuditTypes' /\ HandlerTypes'
  BY <1>0, <1>6 DEF Send, GoTo, Unchanged, AuditTypes, HandlerTypes, auditVars
<1>7. ASSUME Crash PROVE AuditTypes' /\ HandlerTypes'
  BY <1>0, <1>7 DEF Crash, AuditTypes, HandlerTypes, auditVars
<1>8. ASSUME Aside PROVE AuditTypes' /\ HandlerTypes'
  BY <1>0, <1>8 DEF Aside, AuditTypes, HandlerTypes, auditVars
<1> QED
  BY <1>1, <1>2, <1>3, <1>4, <1>5, <1>6, <1>7, <1>8, StepKinds

(* The variables the audit kinds do not mention.                           *)
OtherTypes ==
  /\ StoreTypeOK
  /\ wired \in BOOLEAN /\ authOn \in BOOLEAN /\ up \in BOOLEAN
  /\ arg \in [Requests -> Args \cup {NoArg}]
  /\ found \in [Requests -> SUBSET Artifacts]
  /\ crashes \in 0..MaxCrashes
  /\ seen \in [Requests -> SUBSET Artifacts]

(* The variables outside the audit trail keep their types in every step.   *)
LEMMA OtherTypesStep ==
  ASSUME TypeOK, [Next]_vars
  PROVE  OtherTypes'
<1>0. OtherTypes
  BY DEF TypeOK, OtherTypes
<1>1. ASSUME Unchanged, UNCHANGED <<arg, found, seen>> PROVE OtherTypes'
  BY <1>0, <1>1, StoreTypesKept DEF Unchanged, configVars, OtherTypes
<1>2. ASSUME NEW r \in Requests, NEW x \in Args, Arrive(r, x) PROVE OtherTypes'
  <2>1. Published \in SUBSET Artifacts
    BY DEF Published
  <2>2. StoreTypeOK'
    BY <1>0, <1>2, StoreTypesKept DEF Arrive, Unchanged, OtherTypes
  <2> QED
    BY <1>0, <1>2, <2>1, <2>2 DEF Arrive, Unchanged, configVars, OtherTypes
<1>3. ASSUME NEW r \in Requests, ListRows(r) PROVE OtherTypes'
  <2>1. ListPublished(TenantOf(arg[r])) \in SUBSET Artifacts
    BY DEF ListPublished
  <2>2. StoreTypeOK'
    BY <1>0, <1>3, StoreTypesKept DEF ListRows, Unchanged, OtherTypes
  <2> QED
    BY <1>0, <1>3, <2>1, <2>2 DEF ListRows, Unchanged, configVars, OtherTypes
<1>4. ASSUME NEW r \in Requests, Resolve(r) PROVE OtherTypes'
  <2>1. StoreTypeOK'
    BY <1>0, <1>4, StoreTypesKept DEF Resolve, Unchanged, OtherTypes
  <2> QED
    BY <1>0, <1>4, <2>1 DEF Resolve, Unchanged, configVars, OtherTypes
<1>5. ASSUME NEW r \in Requests, Deliver(r) PROVE OtherTypes'
  BY <1>0, <1>5, StoreTypesKept DEF Deliver, configVars, OtherTypes
<1>6. ASSUME Crash PROVE OtherTypes'
  <2>1. StoreTypeOK'
    BY <1>0, <1>6, StoreTypesKept DEF Crash, OtherTypes
  <2>2. crashes' \in 0..MaxCrashes
    BY <1>0, <1>6, FaultsAssumption DEF Crash, OtherTypes
  <2> QED
    BY <1>0, <1>6, <2>1, <2>2 DEF Crash, configVars, OtherTypes
<1>7. ASSUME Restart PROVE OtherTypes'
  BY <1>0, <1>7, StoreTypesKept
  DEF Restart, configVars, handlerVars, historyVars, OtherTypes
<1>8. ASSUME Publish PROVE OtherTypes'
  <2>1. StoreTypeOK'
    BY <1>0, <1>8, StoreTypesStep DEF Publish, OtherTypes
  <2>2. seen' \in [Requests -> SUBSET Artifacts]
    BY <1>0, <1>8 DEF Publish, OtherTypes
  <2> QED
    BY <1>0, <1>8, <2>1, <2>2 DEF Publish, configVars, handlerVars, OtherTypes
<1>9. ASSUME UNCHANGED vars PROVE OtherTypes'
  BY <1>0, <1>9, StoreTypesKept
  DEF vars, configVars, handlerVars, historyVars, OtherTypes
<1> QED
  BY <1>1, <1>2, <1>3, <1>4, <1>5, <1>6, <1>7, <1>8, <1>9
  DEF Next, ReceivePlain, ReceiveRefused, ReceiveArtifact, ListFails, CallReturns, Send

(* The type invariant is the conjunction of its three groups.              *)
LEMMA TypesSplit == TypeOK <=> OtherTypes /\ AuditTypes /\ HandlerTypes
  BY DEF TypeOK, OtherTypes, AuditTypes, HandlerTypes, Entry

(* The initial states are well typed.                                      *)
LEMMA TypesInit == Init => TypeOK
<1> SUFFICES ASSUME Init PROVE TypeOK
  OBVIOUS
<1>1. OtherTypes
  BY StoreAssumption, FaultsAssumption
  DEF Init, StoreInit, OtherTypes, StoreTypeOK, Status
<1>2. AuditTypes /\ HandlerTypes
  <2>1. log \in Seq(Entry)
    BY EmptySeq DEF Init
  <2>2. faults \in 0..MaxFaults
    BY FaultsAssumption DEF Init
  <2>3. HandlerTypes
    BY DEF Init, HandlerTypes
  <2> QED
    BY <2>1, <2>2, <2>3 DEF Init, AuditTypes
<1> QED
  BY <1>1, <1>2, TypesSplit

(* The audit variables, the handlers and the store keep their types, for   *)
(* any number of requests, faults, crashes and edits.                      *)
THEOREM ExecTypes == Spec => []TypeOK
<1>1. TypeOK /\ [Next]_vars => TypeOK'
  <2> SUFFICES ASSUME TypeOK, [Next]_vars PROVE TypeOK'
    OBVIOUS
  <2>1. OtherTypes' /\ AuditTypes' /\ HandlerTypes'
    BY OtherTypesStep, TrailTypesStep
  <2> QED
    BY <2>1 DEF TypeOK, OtherTypes, AuditTypes, HandlerTypes, Entry
<1> QED
  BY <1>1, TypesInit, PTL DEF Spec

(* query_exec.py:43-61, query_runner_mindsdb.py:72-189: the inductive      *)
(* invariant relating each handler's progress to the audit log.            *)
THEOREM ExecAudit == Spec => []AuditInv
  BY AuditInvInit, AuditInvStep, ExecTypes, PTL DEF Spec

(* query_runner_mindsdb.py:87 and :176: one entry at most per request, and *)
(* it agrees with what the backend was given.                              *)
THEOREM ExecAuditTellsTruth == Spec => []AuditTellsTruth
<1>1. TypeOK /\ AuditInv => AuditTellsTruth
  <2> SUFFICES ASSUME TypeOK, AuditInv PROVE AuditTellsTruth
    OBVIOUS
  <2>1. ASSUME NEW r \in Requests PROVE Cardinality(Entries(r)) <= 1
    <3>1. CASE Entries(r) = {}
      BY <3>1, FS_EmptySet
    <3>2. CASE Entries(r) # {}
      <4>1. PICK i \in DOMAIN log : log[i].id = r
        BY <3>2 DEF Entries
      <4>2. Entries(r) = {i}
        BY <4>1 DEF Entries, AuditInv, EntryInv
      <4> QED
        BY <4>2, FS_Singleton, SMTT(20)
    <3> QED
      BY <3>1, <3>2
  <2> QED
    BY <2>1 DEF AuditTellsTruth, AuditInv, EntryInv
<1> QED
  BY <1>1, ExecTypes, ExecAudit, PTL

(* query_runner_mindsdb.py:160-176: only a crash or a failed write lets a  *)
(* statement run unaudited, and its caller is not told that it ran.        *)
THEOREM ExecUnauditedOnlyByFault == Spec => []UnauditedOnlyByFault
<1>1. TypeOK /\ AuditInv => UnauditedOnlyByFault
  <2> SUFFICES ASSUME TypeOK, AuditInv, NEW r \in sent, Entries(r) = {},
                      pc[r] \in {"replying", "done", "lost"}
               PROVE  r \in hit /\ reply[r] \notin {200, 400}
    BY DEF UnauditedOnlyByFault
  <2>0. r \in Requests
    BY DEF TypeOK
  <2>1. ~Logged(r)
    BY DEF Entries, Logged
  <2>2. HandlerInv(r)
    BY <2>0 DEF AuditInv
  <2>3. reply[r] \notin {200, 400}
    BY <2>1, <2>2, LoggedAsLogged DEF HandlerInv
  <2> QED
    BY <2>1, <2>2, <2>3 DEF HandlerInv
<1> QED
  BY <1>1, ExecTypes, ExecAudit, PTL

----------------------------------------------------------------------------
(* The audit promise.                                                      *)

(* The answers as AuditTrail sees them.                                    *)
Answers == [r \in Requests |-> IF pc[r] = "done" THEN reply[r] ELSE 0]

(* Every step maps to a step of AuditTrail or leaves its variables alone.  *)
LEMMA TrailStep ==
  ASSUME TypeOK, AuditInv, [Next]_vars
  PROVE  [Trail!Next]_(Trail!trailVars)
<1> USE DEF Trail!trailVars
<1>0. /\ pc \in [Requests -> {"idle", "done", "lost"} \cup Awaiting]
      /\ reply \in [Requests -> {0} \cup Codes]
  BY DEF TypeOK
<1>1. ASSUME NEW r \in Requests, Moves(r) PROVE UNCHANGED <<log, Answers>>
  BY <1>0, <1>1 DEF Moves, GoTo, auditVars, Answers
<1>2. ASSUME NEW r \in Requests, Dismisses(r) PROVE UNCHANGED <<log, Answers>>
  BY <1>0, <1>2 DEF Dismisses, Respond, auditVars, Answers
<1>3. ASSUME NEW r \in Requests, Records(r) PROVE Trail!Record(r)
  <2>1. PICK s \in RunStatus \cup {"rejected"} :
          AppendAudit(r, s) /\ \E code \in {200, 400, 500} : Respond(r, code)
    BY <1>3 DEF Records
  <2>2. pc[r] \in Early
    BY <1>3 DEF Records, Early, Unsent
  <2>3. Answers' = Answers /\ Answers[r] = 0
    BY <1>0, <2>1, <2>2 DEF Respond, Answers, Early, Unsent
  <2>4. ~Trail!Audited(r)
    BY <2>2 DEF AuditInv, HandlerInv, Logged, Trail!Audited
  <2>5. log' = Append(log, [id |-> r, status |-> s])
    BY <2>1 DEF AppendAudit
  <2>6. \E t \in RunStatus \cup {"rejected"} : log' = Append(log, [id |-> r, status |-> t])
    BY <2>5
  <2> QED
    BY <2>3, <2>4, <2>6, Zenon DEF Trail!Record, Answers
<1>4. ASSUME NEW r \in Requests, Fails(r) PROVE UNCHANGED <<log, Answers>>
  BY <1>0, <1>4 DEF Fails, AuditFails, Respond, Answers
<1>5. ASSUME NEW r \in Requests, Deliver(r) PROVE UNCHANGED <<log, Answers>>
  BY <1>0, <1>5 DEF Deliver, GoTo, auditVars, Answers
<1>6. ASSUME NEW r \in Requests, Send(r) PROVE \E code \in Codes : Trail!Answer(r, code)
  <2>1. HandlerInv(r) /\ pc[r] = "replying"
    BY <1>6 DEF Send, AuditInv
  <2>2. PICK code \in Codes : code = reply[r]
    BY <1>0, <2>1 DEF HandlerInv
  <2>3. reply' = reply /\ log' = log /\ pc' = [pc EXCEPT ![r] = "done"]
    BY <1>6 DEF Send, GoTo, Unchanged, auditVars
  <2>4. Answers' = [Answers EXCEPT ![r] = code] /\ Answers[r] = 0
    BY <1>0, <2>1, <2>2, <2>3 DEF Answers
  <2>5. /\ code = 200 => Trail!AuditedAs(r, RunStatus)
        /\ code = 400 => Trail!AuditedAs(r, {"rejected"})
        /\ code = 500 => ~Trail!AuditedAs(r, (RunStatus \cup {"rejected"}) \ WithData)
        /\ code \notin {200, 400, 500} => ~Trail!Audited(r)
    <3>1. code = 500 => ~Trail!AuditedAs(r, (RunStatus \cup {"rejected"}) \ WithData)
      BY <2>1, <2>2 DEF AuditInv, EntryInv, HandlerInv, Logged, LoggedAs, Trail!AuditedAs
    <3> QED
      BY <2>1, <2>2, <3>1
      DEF HandlerInv, Logged, LoggedAs, Trail!AuditedAs, Trail!Audited, Codes
  <2>6. Trail!Answer(r, code)
    BY <2>3, <2>4, <2>5 DEF Trail!Answer, Answers
  <2> QED
    BY <2>6
<1>7. ASSUME Crash PROVE UNCHANGED <<log, Answers>>
  BY <1>0, <1>7 DEF Crash, auditVars, Answers, Awaiting
<1>8. ASSUME Aside PROVE UNCHANGED <<log, Answers>>
  BY <1>8 DEF Aside, auditVars, Answers
<1>9. Codes = Trail!Codes
  BY DEF Codes, Trail!Codes
<1>10. ASSUME UNCHANGED <<log, Answers>> PROVE UNCHANGED Trail!trailVars
  BY <1>10 DEF Answers
<1>11. ASSUME NEW r \in Requests, Records(r) \/ Send(r) PROVE Trail!Next
  <2>1. CASE Records(r)
    BY <1>3, <2>1 DEF Trail!Next
  <2>2. CASE Send(r)
    <3>1. \E code \in Trail!Codes : Trail!Answer(r, code)
      BY <1>6, <1>9, <2>2
    <3> QED
      BY <3>1 DEF Trail!Next
  <2> QED
    BY <1>11, <2>1, <2>2
<1> HIDE DEF Trail!trailVars
<1> QED
  BY <1>1, <1>2, <1>4, <1>5, <1>7, <1>8, <1>10, <1>11, StepKinds

(* query_exec.py:43-61 and query_runner_mindsdb.py:86-97, 176-189:         *)
(* /query/execute implements the audit promise, for any number of          *)
(* requests, failed writes and crashes.                                    *)
THEOREM ExecKeepsAuditPromise == Spec => KeepsAuditPromise
<1>1. Init => Trail!Init
  BY DEF Init, Trail!Init
<1>2. TypeOK /\ AuditInv /\ [Next]_vars => [Trail!Next]_(Trail!trailVars)
  BY TrailStep
<1> QED
  BY <1>1, <1>2, ExecTypes, ExecAudit, PTL DEF Spec, KeepsAuditPromise, Trail!Spec

----------------------------------------------------------------------------
(* Damage.                                                                 *)

DamageInv == IsFiniteSet(damaged) /\ DamageBounded

(* Every step keeps the number of damaged lines within the failed writes.  *)
LEMMA DamageStep ==
  ASSUME TypeOK, AuditInv, DamageInv, [Next]_vars
  PROVE  DamageInv'
<1> DEFINE Torn == IF torn THEN 1 ELSE 0
<1>0. /\ log \in Seq(Entry) /\ torn \in BOOLEAN /\ faults \in Nat
      /\ IsFiniteSet(damaged) /\ Cardinality(damaged) \in Nat
      /\ Cardinality(damaged) + Torn <= faults
      /\ damaged \subseteq Requests /\ \A q \in damaged : Logged(q)
  BY FS_CardinalityType, FaultsAssumption
  DEF TypeOK, Entry, DamageInv, DamageBounded, Entries, Logged
<1>1. ASSUME UNCHANGED auditVars PROVE DamageInv'
  BY <1>1 DEF auditVars, DamageInv, DamageBounded, Entries
<1>2. ASSUME NEW r \in Requests, NEW s \in RunStatus \cup {"rejected"}, AppendAudit(r, s)
      PROVE  DamageInv'
  <2>1. \A q \in damaged' : Logged(q)'
    BY <1>0, <1>2, LoggedGrows DEF AppendAudit
  <2>2. torn' = FALSE /\ faults' = faults
    BY <1>2 DEF AppendAudit
  <2>3. IsFiniteSet(damaged') /\ Cardinality(damaged') <= faults
    <3>1. CASE torn
      <4>1. damaged' = damaged \cup {r}
        BY <1>2, <3>1 DEF AppendAudit
      <4>2. /\ IsFiniteSet(damaged \cup {r})
            /\ Cardinality(damaged \cup {r}) <= Cardinality(damaged) + 1
        <5>1. IsFiniteSet(damaged) /\ Cardinality(damaged) \in Nat
          BY <1>0
        <5> HIDE DEF Torn
        <5>2. /\ IsFiniteSet(damaged \cup {r})
              /\ Cardinality(damaged \cup {r}) =
                   IF r \in damaged THEN Cardinality(damaged) ELSE Cardinality(damaged) + 1
          BY ONLY <5>1, FS_AddElement
        <5> QED
          BY <5>1, <5>2
      <4>3. Cardinality(damaged) + 1 <= faults
        BY <1>0, <3>1
      <4>4. Cardinality(damaged \cup {r}) \in Nat
        BY <4>2, FS_CardinalityType
      <4> QED
        BY <1>0, <4>1, <4>2, <4>3, <4>4
    <3>2. CASE ~torn
      BY <1>0, <1>2, <3>2 DEF AppendAudit
    <3> QED
      BY <3>1, <3>2
  <2>4. Cardinality(damaged') \in Nat
    BY <2>3, FS_CardinalityType
  <2>5. Cardinality(damaged') + (IF torn' THEN 1 ELSE 0) <= faults'
    BY <2>2, <2>3, <2>4
  <2> QED
    BY <2>1, <2>3, <2>5 DEF DamageInv, DamageBounded, Entries, Logged
<1>3. ASSUME NEW r \in Requests, AuditFails(r) PROVE DamageInv'
  <2>1. damaged' = damaged /\ log' = log /\ faults' = faults + 1
    BY <1>3 DEF AuditFails
  <2>2. Cardinality(damaged) + (IF torn' THEN 1 ELSE 0) <= faults + 1
    BY <1>0
  <2> QED
    BY <1>0, <2>1, <2>2 DEF DamageInv, DamageBounded, Entries, Logged
<1> QED
  BY <1>1, <1>2, <1>3, StepKinds, ZenonT(30)
  DEF Moves, Dismisses, Records, Fails, Deliver, Send, Unchanged, Crash, Aside

(* query_runner_mindsdb.py:33-34: n failed writes cost at most n           *)
(* unreadable lines.                                                       *)
THEOREM ExecDamageBounded == Spec => []DamageBounded
<1>1. Init => DamageInv
  BY FS_EmptySet DEF Init, DamageInv, DamageBounded
<1>2. TypeOK /\ AuditInv /\ DamageInv /\ [Next]_vars => DamageInv'
  BY DamageStep
<1>3. Spec => []DamageInv
  BY <1>1, <1>2, ExecTypes, ExecAudit, PTL DEF Spec
<1> QED
  BY <1>3, PTL DEF DamageInv

----------------------------------------------------------------------------
(* The artifact a statement is sent for.                                   *)

Cleared(r) ==
  arg[r].artifact # NoArtifact =>
    /\ arg[r].artifact \in seen[r]
    /\ Row[arg[r].artifact].tenant = TenantOf(arg[r])
    /\ Guard(Sql[arg[r].sql], TRUE, Row[arg[r].artifact].payload) = "pass"

GrantInv(r) ==
  /\ pc[r] \in Awaiting => Published \subseteq seen[r]
  /\ pc[r] = "listed" =>
       \A a \in found[r] : a \in seen[r] /\ Row[a].tenant = TenantOf(arg[r])
  /\ pc[r] = "posting" \/ r \in sent => Cleared(r)

(* A step that leaves a request, the store and the wiring alone keeps what *)
(* is known of it.                                                         *)
LEMMA GrantKept ==
  ASSUME NEW r, GrantInv(r), UNCHANGED <<storeVars, configVars>>,
         arg'[r] = arg[r], seen'[r] = seen[r], found'[r] = found[r], pc'[r] = pc[r],
         r \in sent' => r \in sent
  PROVE  GrantInv(r)'
  BY DEF GrantInv, Cleared, Published, TenantOf, storeVars, configVars

(* Every step keeps what a request was granted.                            *)
LEMMA GrantStep ==
  ASSUME TypeOK, AuditInv, \A r \in Requests : GrantInv(r), [Next]_vars
  PROVE  \A r \in Requests : GrantInv(r)'
<1>0. /\ pc \in [Requests -> {"idle", "done", "lost"} \cup Awaiting]
      /\ arg \in [Requests -> Args \cup {NoArg}]
      /\ found \in [Requests -> SUBSET Artifacts]
      /\ seen \in [Requests -> SUBSET Artifacts]
  BY DEF TypeOK
<1>1. ASSUME NEW r \in Requests, NEW x \in Args, Arrive(r, x), NEW where \in Awaiting,
             pc' = [pc EXCEPT ![r] = where], where # "listed",
             where = "posting" => x.artifact = NoArtifact
      PROVE  \A q \in Requests : GrantInv(q)'
  <2>1. r \notin sent'
    BY <1>1 DEF Arrive, Unchanged, AuditInv, HandlerInv, Unsent
  <2>2. arg'[r] = x /\ seen'[r] = Published /\ pc'[r] = where /\ Published' = Published
    BY <1>0, <1>1 DEF Arrive, Unchanged, storeVars, Published
  <2>3. GrantInv(r)'
    BY <1>1, <2>1, <2>2 DEF GrantInv, Cleared
  <2>4. ASSUME NEW q \in Requests \ {r} PROVE GrantInv(q)'
    BY <1>0, <1>1, GrantKept DEF Arrive, Unchanged
  <2> QED
    BY <2>3, <2>4
<1>2. ASSUME NEW r \in Requests, NEW x \in Args,
             ReceivePlain(r, x) \/ ReceiveRefused(r, x) \/ ReceiveArtifact(r, x)
      PROVE  \A q \in Requests : GrantInv(q)'
  <2>1. Arrive(r, x)
    BY <1>2 DEF ReceivePlain, ReceiveRefused, ReceiveArtifact
  <2>2. \E where \in Awaiting \ {"listed"} :
          /\ pc' = [pc EXCEPT ![r] = where]
          /\ where = "posting" => x.artifact = NoArtifact
    <3>1. CASE ReceivePlain(r, x)
      <4>1. x.artifact = NoArtifact /\ Judge(r, x.sql, FALSE, {})
        BY <3>1 DEF ReceivePlain
      <4>2. \/ GoTo(r, "posting") \/ Respond(r, 500)
            \/ AuditThenRespond(r, "rejected", 400)
        BY <4>1, Zenon DEF Judge
      <4>3. GoTo(r, "posting") \/ Respond(r, 400) \/ Respond(r, 500)
        BY <4>2, Zenon DEF AuditThenRespond
      <4> QED
        BY <4>1, <4>3 DEF Respond, GoTo, Awaiting
    <3>2. CASE ReceiveRefused(r, x)
      BY <3>2 DEF ReceiveRefused, Respond, Awaiting
    <3>3. CASE ReceiveArtifact(r, x)
      <4>1. pc' = [pc EXCEPT ![r] = "listing"]
        BY <3>3 DEF ReceiveArtifact, GoTo
      <4>2. "listing" \in Awaiting \ {"listed"} /\ "listing" # "posting"
        BY DEF Awaiting
      <4> QED
        BY <4>1, <4>2
    <3> QED
      BY <1>2, <3>1, <3>2, <3>3
  <2> QED
    BY <1>1, <2>1, <2>2
<1>3. ASSUME NEW r \in Requests, ListRows(r) PROVE \A q \in Requests : GrantInv(q)'
  <2>1. /\ found'[r] = ListPublished(TenantOf(arg[r])) /\ pc'[r] = "listed"
        /\ arg' = arg /\ seen' = seen /\ sent' = sent
        /\ Published' = Published /\ authOn' = authOn
    BY <1>0, <1>3
    DEF ListRows, GoTo, Unchanged, storeVars, configVars, Published
  <2>2. ListPublished(TenantOf(arg[r])) \subseteq Published /\ Published \subseteq seen[r]
    BY <1>3 DEF ListRows, ListPublished, Published, GrantInv, Awaiting
  <2>3. GrantInv(r)'
    BY <2>1, <2>2 DEF GrantInv, Cleared, TenantOf, ListPublished
  <2>4. ASSUME NEW q \in Requests \ {r} PROVE GrantInv(q)'
    BY <1>0, <1>3, GrantKept DEF ListRows, GoTo, Unchanged
  <2> QED
    BY <2>3, <2>4
<1>4. ASSUME NEW r \in Requests, Resolve(r) PROVE \A q \in Requests : GrantInv(q)'
  <2>1. /\ arg' = arg /\ seen' = seen /\ sent' = sent
        /\ Published' = Published /\ authOn' = authOn
        /\ pc[r] = "listed"
    BY <1>4 DEF Resolve, Unchanged, storeVars, configVars, Published
  <2>2. pc'[r] = "posting" =>
          /\ arg[r].artifact \in found[r]
          /\ Guard(Sql[arg[r].sql], TRUE, Row[arg[r].artifact].payload) = "pass"
    BY <1>0, <1>4, ZenonT(30) DEF Resolve, Judge, AuditThenRespond, Respond, GoTo
  <2>3. pc'[r] \in {"posting", "replying"}
    BY <1>0, <1>4 DEF Resolve, Judge, AuditThenRespond, Respond, GoTo
  <2>4. GrantInv(r)'
    BY <2>1, <2>2, <2>3 DEF GrantInv, Cleared, TenantOf, Awaiting
  <2>5. ASSUME NEW q \in Requests \ {r} PROVE GrantInv(q)'
    <3>1. pc'[q] = pc[q] /\ found'[q] = found[q]
      BY <1>0, <1>4, ZenonT(30) DEF Resolve, Judge, AuditThenRespond, Respond, GoTo
    <3> QED
      BY <1>4, <2>1, <3>1, GrantKept DEF Resolve, Unchanged
  <2> QED
    BY <2>4, <2>5
(* The remaining steps of a handler only change its place.                 *)
<1>5. ASSUME NEW r \in Requests, UNCHANGED <<storeVars, configVars, arg, found, seen>>,
             NEW where \in {"awaiting", "replying", "done"},
             pc' = [pc EXCEPT ![r] = where],
             where # "done" => pc[r] \in Awaiting,
             sent' = sent \/ (pc[r] = "posting" /\ sent' = sent \cup {r})
      PROVE  \A q \in Requests : GrantInv(q)'
  <2>1. GrantInv(r)'
    BY <1>0, <1>5
    DEF GrantInv, Cleared, TenantOf, Published, storeVars, configVars, Awaiting
  <2>2. ASSUME NEW q \in Requests \ {r} PROVE GrantInv(q)'
    BY <1>0, <1>5, GrantKept
  <2> QED
    BY <2>1, <2>2
<1>6. ASSUME NEW r \in Requests, ListFails(r) \/ Deliver(r) \/ CallReturns(r) \/ Send(r)
      PROVE  \A q \in Requests : GrantInv(q)'
  <2>1. UNCHANGED <<storeVars, configVars, arg, found, seen>>
    BY <1>6 DEF ListFails, Deliver, CallReturns, Send, Unchanged
  <2>2. sent' = sent \/ (pc[r] = "posting" /\ sent' = sent \cup {r})
    BY <1>6 DEF ListFails, Deliver, CallReturns, Send, Unchanged
  <2>3. \E where \in {"awaiting", "replying", "done"} :
          /\ pc' = [pc EXCEPT ![r] = where]
          /\ where # "done" => pc[r] \in Awaiting
    BY <1>6
    DEF ListFails, Deliver, CallReturns, Send, AuditThenRender, AuditThenRespond,
        Respond, GoTo, Awaiting
  <2> QED
    BY <1>5, <2>1, <2>2, <2>3
<1>7. ASSUME Crash PROVE \A q \in Requests : GrantInv(q)'
  <2>1. /\ UNCHANGED <<storeVars, configVars, arg, found, sent, seen>>
        /\ \A q \in Requests : pc'[q] = IF pc[q] \in Awaiting THEN "lost" ELSE pc[q]
    BY <1>7 DEF Crash
  <2> QED
    BY <2>1 DEF GrantInv, Cleared, TenantOf, Published, storeVars, configVars, Awaiting
<1>8. ASSUME Publish PROVE \A q \in Requests : GrantInv(q)'
  <2>1. /\ pc' = pc /\ arg' = arg /\ found' = found /\ sent' = sent /\ authOn' = authOn
        /\ \A q \in Requests : /\ seen[q] \subseteq seen'[q]
                               /\ pc[q] \in Awaiting => Published' \subseteq seen'[q]
    BY <1>0, <1>8 DEF Publish, handlerVars, configVars, Published
  <2> QED
    BY <2>1 DEF GrantInv, Cleared, TenantOf
<1>9. ASSUME Restart \/ UNCHANGED vars PROVE \A q \in Requests : GrantInv(q)'
  BY <1>9, GrantKept DEF Restart, vars, handlerVars, historyVars
<1> QED
  BY <1>2, <1>3, <1>4, <1>6, <1>7, <1>8, <1>9 DEF Next

(* query_exec.py:36-38 and query_runner_mindsdb.py:77-85: whatever the     *)
(* publisher does, a statement reaches the backend only under an artifact  *)
(* of the caller's tenant that was published while the request ran, and    *)
(* that allows the statement.                                              *)
THEOREM ExecSentUnderPublishedArtifact == Spec => []SentUnderPublishedArtifact
<1>1. Init => \A r \in Requests : GrantInv(r)
  BY DEF Init, GrantInv, Awaiting
<1>2. TypeOK /\ AuditInv /\ (\A r \in Requests : GrantInv(r)) /\ [Next]_vars
        => (\A r \in Requests : GrantInv(r))'
  BY GrantStep
<1>3. TypeOK /\ (\A r \in Requests : GrantInv(r)) => SentUnderPublishedArtifact
  BY DEF TypeOK, GrantInv, Cleared, SentUnderPublishedArtifact
<1> QED
  BY <1>1, <1>2, <1>3, ExecTypes, ExecAudit, PTL DEF Spec
============================================================================
