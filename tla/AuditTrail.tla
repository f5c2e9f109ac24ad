----------------------------- MODULE AuditTrail ----------------------------
(***************************************************************************)
(* What /query/execute promises about its audit log: every request leaves  *)
(* at most one entry, entries are never taken back, and a caller who is    *)
(* told that a statement was run (200) or refused (400) is told so only    *)
(* after the entry that says the same is in the log.  500 says nothing of  *)
(* the statement: it may have no entry, or one that reports an answer that *)
(* could not be passed on.  Any other code leaves no entry.                *)
(***************************************************************************)
EXTENDS Naturals, Sequences

CONSTANTS
  Requests,   \* requests, each with the audit_id drawn for it
  RunStatus,  \* statuses of an entry for a statement that passed the guards
  WithData    \* those whose response carries what the backend sent

VARIABLES
  entries,    \* the log, a sequence of [id, status]
  answer      \* [Requests -> code the caller received, 0 before that]

trailVars == <<entries, answer>>

Codes == {200, 400, 401, 404, 500, 503}

Audited(r) == \E i \in DOMAIN entries : entries[i].id = r

AuditedAs(r, S) ==
  \E i \in DOMAIN entries : entries[i].id = r /\ entries[i].status \in S

Init ==
  /\ entries = <<>>
  /\ answer = [r \in Requests |-> 0]

Record(r) ==
  /\ answer[r] = 0
  /\ ~Audited(r)
  /\ \E s \in RunStatus \cup {"rejected"} :
       entries' = Append(entries, [id |-> r, status |-> s])
  /\ UNCHANGED answer

Answer(r, code) ==
  /\ answer[r] = 0
  /\ code = 200 => AuditedAs(r, RunStatus)
  /\ code = 400 => AuditedAs(r, {"rejected"})
  /\ code = 500 => ~AuditedAs(r, (RunStatus \cup {"rejected"}) \ WithData)
  /\ code \notin {200, 400, 500} => ~Audited(r)
  /\ answer' = [answer EXCEPT ![r] = code]
  /\ UNCHANGED entries

Next == \E r \in Requests : Record(r) \/ \E code \in Codes : Answer(r, code)

Spec == Init /\ [][Next]_trailVars

============================================================================
