---------------------------- MODULE BackendCall ----------------------------
(***************************************************************************)
(* The part of query_runner_mindsdb.execute that follows the guards: the   *)
(* limits are clamped, the statement is posted to the MindsDB SQL API with *)
(* httpx, and the rows of the answer are copied until a cap is met.        *)
(*                                                                         *)
(* httpx applies the timeout to each network operation on its own: to the  *)
(* connect, to the write and to every wait for more bytes.  `idle' is the  *)
(* age of the operation in progress, `elapsed' the time since `started'.   *)
(* The backend is a process of its own: nothing the client does after the  *)
(* statement was written stops it.                                         *)
(***************************************************************************)
EXTENDS Integers, Sequences, FiniteSets

CONSTANTS
  DefaultTimeout,    \* execution.default_timeout_seconds
  MaximumTimeout,    \* execution.maximum_timeout_seconds
  DefaultRows,       \* execution.default_max_rows
  MaximumRows,       \* execution.maximum_rows
  MaximumBytes,      \* execution.maximum_response_bytes
  TimeoutArgs,       \* values of timeout_s a request may carry
  RowArgs,           \* values of max_rows a request may carry
  Unset,             \* the optional field is absent
  RowBytes,          \* possible sizes of a serialized row
  MaxAnswer,         \* bound: rows in an answer
  MaxChunks          \* bound: partial reads that are counted

ASSUME LimitsAssumption ==
  /\ DefaultTimeout \in Nat /\ MaximumTimeout \in Nat \ {0}
  /\ DefaultRows \in Nat    /\ MaximumRows \in Nat \ {0}
  /\ MaximumBytes \in Nat
  /\ TimeoutArgs \subseteq Nat \cup {Unset}
  /\ RowArgs \subseteq Nat \cup {Unset}
  /\ Unset \notin Nat

ASSUME AnswerAssumption ==
  /\ RowBytes \subseteq Nat \ {0}
  /\ MaxAnswer \in Nat
  /\ MaxChunks \in Nat

VARIABLES
  phase,      \* "start", the httpx operation in progress, "rows", "done"
  timeout,    \* applied_timeout
  cap,        \* applied_rows
  idle,       \* ticks since the operation in progress began
  elapsed,    \* ticks since `started', less the waits for uncounted chunks
  reads,      \* chunks of the answer read so far, as far as they are counted
  backend,    \* the statement on the backend: "none", "running", "finished"
  data,       \* rows of the answer, by size; BadRow cannot be serialized
  rows,       \* rows copied to the response
  total,      \* total_bytes
  truncated,  \* the response's truncated flag
  result      \* the response's status; "pending" until it is decided

vars == <<phase, timeout, cap, idle, elapsed, reads, backend,
          data, rows, total, truncated, result>>

callVars == <<timeout, cap>>
rowVars  == <<data, rows, total, truncated>>

(* A row the serializer raises on: not a list.  Real rows take 2+ bytes.   *)
BadRow == 0

Network == {"connect", "write", "read"}

TypeOK ==
  /\ phase \in {"start", "rows", "done"} \cup Network
  /\ timeout \in 1..MaximumTimeout
  /\ cap \in 1..MaximumRows
  /\ idle \in 0..MaximumTimeout
  /\ elapsed \in Nat
  /\ reads \in 0..MaxChunks
  /\ backend \in {"none", "running", "finished"}
  /\ data \in Seq(RowBytes \cup {BadRow})
  /\ rows \in Seq(RowBytes)
  /\ total \in Nat
  /\ truncated \in BOOLEAN
  /\ result \in {"pending", "ok", "timeout", "db_error", "error"}

----------------------------------------------------------------------------
Least(m, n)    == IF m <= n THEN m ELSE n
Greatest(m, n) == IF m >= n THEN m ELSE n

(* Mutation: the maximum is forgotten.                                     *)
ClampAtLeastOne(arg, default, maximum) ==
  Greatest(IF arg = Unset THEN default ELSE arg, 1)

(* int(arg if arg is not None else default), at least 1, at most maximum.  *)
Clamp(arg, default, maximum) ==
  Least(Greatest(IF arg = Unset THEN default ELSE arg, 1), maximum)

Init ==
  /\ phase = "start"
  /\ \E t \in TimeoutArgs : timeout = Clamp(t, DefaultTimeout, MaximumTimeout)
  /\ \E n \in RowArgs : cap = Clamp(n, DefaultRows, MaximumRows)
  /\ idle = 0 /\ elapsed = 0 /\ reads = 0
  /\ backend = "none"
  /\ data = <<>> /\ rows = <<>> /\ total = 0 /\ truncated = FALSE
  /\ result = "pending"

----------------------------------------------------------------------------
(* The httpx exchange.                                                     *)

Start ==
  /\ phase = "start"
  /\ phase' = "connect"
  /\ UNCHANGED <<callVars, idle, elapsed, reads, backend, rowVars, result>>

Connected ==
  /\ phase = "connect"
  /\ phase' = "write"
  /\ idle' = 0
  /\ UNCHANGED <<callVars, elapsed, reads, backend, rowVars, result>>

(* The request is on the wire: the backend starts the statement.           *)
Written ==
  /\ phase = "write"
  /\ phase' = "read"
  /\ idle' = 0
  /\ backend' = "running"
  /\ UNCHANGED <<callVars, elapsed, reads, rowVars, result>>

(* Some bytes, but not the end of the answer: the read timer starts anew,  *)
(* as often as the backend likes.  After MaxChunks of them a chunk and the *)
(* wait before it are no longer counted, so that a trickle without end is  *)
(* a cycle of states.                                                      *)
ReadChunk ==
  /\ phase = "read"
  /\ \/ reads < MaxChunks /\ reads' = reads + 1 /\ UNCHANGED elapsed
     \/ reads = MaxChunks /\ elapsed' = elapsed - idle /\ UNCHANGED reads
  /\ idle' = 0
  /\ UNCHANGED <<phase, callVars, backend, rowVars, result>>

(* One second passes inside the operation in progress.                     *)
Tick ==
  /\ phase \in Network
  /\ idle < timeout
  /\ idle' = idle + 1
  /\ elapsed' = elapsed + 1
  /\ UNCHANGED <<phase, callVars, reads, backend, rowVars, result>>

(* Mutation: gives up one second early.                                    *)
TimeoutEarly ==
  /\ phase \in Network
  /\ idle + 1 >= timeout
  /\ phase' = "done"
  /\ result' = "timeout"
  /\ UNCHANGED <<callVars, idle, elapsed, reads, backend, rowVars>>

(* Mutation: a timeout makes the client connect again.                     *)
TimeoutRetries ==
  /\ phase \in Network
  /\ idle >= timeout
  /\ phase' = "connect"
  /\ idle' = 0
  /\ UNCHANGED <<callVars, elapsed, reads, backend, rowVars, result>>

(* Mutation: only the connect has a timeout.                               *)
TimeoutOnConnect ==
  /\ phase = "connect"
  /\ idle >= timeout
  /\ phase' = "done"
  /\ result' = "timeout"
  /\ UNCHANGED <<callVars, idle, elapsed, reads, backend, rowVars>>

(* httpx.TimeoutException: ConnectTimeout, WriteTimeout or ReadTimeout.    *)
OperationTimeout ==
  /\ phase \in Network
  /\ idle >= timeout
  /\ phase' = "done"
  /\ result' = "timeout"
  /\ UNCHANGED <<callVars, idle, elapsed, reads, backend, rowVars>>

(* Any other exception of the exchange: a network error, an error status   *)
(* from raise_for_status, a body that is not JSON.                         *)
ExchangeFails ==
  /\ phase \in Network
  /\ phase' = "done"
  /\ result' = "error"
  /\ UNCHANGED <<callVars, idle, elapsed, reads, backend, rowVars>>

(* The backend completes the statement, whether or not a client waits.     *)
BackendFinishes ==
  /\ backend = "running"
  /\ backend' = "finished"
  /\ UNCHANGED <<phase, callVars, idle, elapsed, reads, rowVars, result>>

(* The answer is complete and its type is not "table".                     *)
AnswerIsError ==
  /\ phase = "read" /\ backend = "finished"
  /\ phase' = "done"
  /\ result' = "db_error"
  /\ UNCHANGED <<callVars, idle, elapsed, reads, backend, rowVars>>

(* The answer is complete and carries a table.                             *)
AnswerIsTable ==
  /\ phase = "read" /\ backend = "finished"
  /\ phase' = "rows"
  /\ \E n \in 0..MaxAnswer : data' \in [1..n -> RowBytes \cup {BadRow}]
  /\ UNCHANGED <<callVars, idle, elapsed, reads, backend,
                 rows, total, truncated, result>>

----------------------------------------------------------------------------
(* The loop over body["data"], one iteration per step.                     *)

Current  == data[Len(rows) + 1]
RowsLeft == Len(rows) < Len(data)

(* Mutation: off by one in the row cap.                                    *)
OverCapByOne == Len(rows) > cap \/ total + Current > MaximumBytes

(* The test of the loop: one more row breaks the row or the byte cap.      *)
OverCap == Len(rows) >= cap \/ total + Current > MaximumBytes

(* Serializing the row raises; the rows copied so far stay in the answer.  *)
RowFails ==
  /\ phase = "rows" /\ RowsLeft
  /\ Current = BadRow
  /\ phase' = "done"
  /\ result' = "error"
  /\ UNCHANGED <<callVars, idle, elapsed, reads, backend, rowVars>>

(* Mutation: the flag is not set.                                          *)
RowDroppedSilently ==
  /\ phase = "rows" /\ RowsLeft
  /\ Current # BadRow
  /\ OverCap
  /\ phase' = "done"
  /\ result' = "ok"
  /\ UNCHANGED <<callVars, idle, elapsed, reads, backend, rowVars>>

RowDropped ==
  /\ phase = "rows" /\ RowsLeft
  /\ Current # BadRow
  /\ OverCap
  /\ truncated' = TRUE
  /\ phase' = "done"
  /\ result' = "ok"
  /\ UNCHANGED <<callVars, idle, elapsed, reads, backend, data, rows, total>>

(* Mutation: the total is overwritten instead of added to.                 *)
RowCopiedUncounted ==
  /\ phase = "rows" /\ RowsLeft
  /\ Current # BadRow
  /\ ~OverCap
  /\ rows' = Append(rows, Current)
  /\ total' = Current
  /\ UNCHANGED <<phase, callVars, idle, elapsed, reads, backend,
                 data, truncated, result>>

RowCopied ==
  /\ phase = "rows" /\ RowsLeft
  /\ Current # BadRow
  /\ ~OverCap
  /\ rows' = Append(rows, Current)
  /\ total' = total + Current
  /\ UNCHANGED <<phase, callVars, idle, elapsed, reads, backend,
                 data, truncated, result>>

RowsDone ==
  /\ phase = "rows" /\ ~RowsLeft
  /\ phase' = "done"
  /\ result' = "ok"
  /\ UNCHANGED <<callVars, idle, elapsed, reads, backend, rowVars>>

Loop == RowFails \/ RowDropped \/ RowCopied \/ RowsDone

Next ==
  \/ Start \/ Connected \/ Written \/ ReadChunk \/ Tick
  \/ OperationTimeout \/ ExchangeFails
  \/ BackendFinishes \/ AnswerIsError \/ AnswerIsTable
  \/ RowFails \/ RowDropped \/ RowCopied \/ RowsDone

(* Only the event loop is fair: time passes, httpx raises its timeouts and *)
(* the synchronous loop runs.  Neither the network nor the backend has to  *)
(* do anything.                                                            *)
Spec ==
  /\ Init /\ [][Next]_vars
  /\ WF_vars(Start) /\ WF_vars(Tick) /\ WF_vars(OperationTimeout) /\ WF_vars(Loop)

----------------------------------------------------------------------------
(* query_runner_mindsdb.py:144-152.  Whatever the answer, the response     *)
(* holds at most `cap' rows and MaximumBytes bytes, also when the loop was *)
(* left by an exception.                                                   *)
RowsWithinCaps == Len(rows) <= cap /\ total <= MaximumBytes

(* The serialized size of rows, counted from the rows themselves.          *)
Bytes(s) ==
  LET upTo[n \in 0..Len(s)] == IF n = 0 THEN 0 ELSE upTo[n - 1] + s[n]
  IN  upTo[Len(s)]

(* query_runner_mindsdb.py:146-150, counted from the rows and not from the *)
(* running total: what is in a response, complete or cut short by a cap or *)
(* an exception, never exceeds maximum_response_bytes.                     *)
ResponseBytesWithinCap == Bytes(rows) <= MaximumBytes

(* query_runner_mindsdb.py:139-152.  What the client is given is always    *)
(* the head of what the backend sent, never reordered or with a hole, and  *)
(* `truncated' tells the truth: an "ok" response without it is complete,   *)
(* and one with it stopped at the first row that breaks a cap.             *)
TruncationExact ==
  /\ Len(rows) <= Len(data) /\ rows = SubSeq(data, 1, Len(rows))
  /\ result = "ok" => (truncated <=> rows # data)
  /\ truncated => RowsLeft /\ OverCap

(* query_runner_mindsdb.py:153-158.  The status the audit and the client   *)
(* see agrees with what happened: "timeout" only after `timeout' seconds   *)
(* without progress and never with rows; "ok" and "db_error" only after    *)
(* the backend finished the statement.                                     *)
ResultHonest ==
  /\ result = "timeout" => idle >= timeout /\ rows = <<>> /\ ~truncated
  /\ result \in {"ok", "db_error"} => backend = "finished"
  /\ result = "db_error" => rows = <<>>

(* Number of network operations the call has entered.                      *)
Operations ==
  (IF phase \in {"start", "connect"} THEN 1 ELSE 0)
    + (IF phase = "write" THEN 2 ELSE 0)
    + (IF phase \in {"read", "rows", "done"} THEN 3 + reads ELSE 0)

(* query_runner_mindsdb.py:123.  The bound the code does give: the call    *)
(* lasts at most `timeout' seconds per network operation it entered (of    *)
(* those that are counted, and there is no bound on their number).         *)
ElapsedPerOperation == elapsed <= timeout * Operations

(* schemas.py:374-377 calls the value the server's statement_timeout: what *)
(* is reported as timed out has been stopped.                              *)
TimeoutStopsStatement == result = "timeout" => backend # "running"

(* query_runner_mindsdb.py:122-158.  A backend or a network that falls     *)
(* silent, at whatever point of the exchange, does not keep the caller:    *)
(* the call ends with a status, unless chunks of an answer that never      *)
(* becomes complete keep coming for ever.  Against those the code has no   *)
(* bound, since each one restarts the read timeout.                        *)
SilenceEndsCall ==
  []<><<ReadChunk>>_vars \/ <>(phase = "done" /\ result # "pending")

============================================================================
