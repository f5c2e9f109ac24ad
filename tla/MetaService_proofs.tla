------------------------- MODULE MetaService_proofs -------------------------
(***************************************************************************)
(* The safety properties of MetaService, for any number of calls, tables,  *)
(* keys, writes and hanging queries, and for every size of the pool.       *)
(***************************************************************************)
EXTENDS MetaService, FiniteSetTheorems, SequenceTheorems, TLAPS

(* A connection that changes hands or is given back leaves the pool no     *)
(* fuller than it was, and takes none from a hanging query.                *)
LEMMA HandOver ==
  ASSUME NEW c \in holders \ hung, NEW d \in Calls, LeasesOK
  PROVE  /\ IsFiniteSet((holders \ {c}) \cup {d})
         /\ Cardinality((holders \ {c}) \cup {d}) <= PoolSize
<1>1. IsFiniteSet(holders) /\ Cardinality(holders) <= PoolSize /\ c \in holders
  BY DEF LeasesOK
<1>2. /\ IsFiniteSet(holders \ {c}) /\ Cardinality(holders \ {c}) = Cardinality(holders) - 1
      /\ Cardinality(holders) \in Nat
  BY <1>1, FS_RemoveElement, FS_CardinalityType
<1>3. /\ IsFiniteSet((holders \ {c}) \cup {d})
      /\ \/ Cardinality((holders \ {c}) \cup {d}) = Cardinality(holders \ {c})
         \/ Cardinality((holders \ {c}) \cup {d}) = Cardinality(holders \ {c}) + 1
  BY <1>2, FS_AddElement
<1> QED
  BY <1>1, <1>2, <1>3, ServiceAssumption

LEMMA ReleaseTypes ==
  ASSUME NEW c \in holders \ hung, LeasesOK, Release(c), hung' = hung
  PROVE  LeasesOK'
<1>1. CASE queue = <<>>
  <2>1. IsFiniteSet(holders) /\ Cardinality(holders) <= PoolSize /\ c \in holders
    BY DEF LeasesOK
  <2>2. IsFiniteSet(holders \ {c}) /\ Cardinality(holders \ {c}) = Cardinality(holders) - 1
        /\ Cardinality(holders) \in Nat
    BY <2>1, FS_RemoveElement, FS_CardinalityType
  <2>3. Cardinality(holders \ {c}) <= PoolSize
    BY <2>1, <2>2, ServiceAssumption
  <2>4. holders' = holders \ {c} /\ queue' = queue
    BY <1>1 DEF Release
  <2> QED
    BY <2>2, <2>3, <2>4 DEF LeasesOK
<1>2. CASE queue # <<>>
  <2>1. Head(queue) \in Calls /\ Tail(queue) \in Seq(Calls)
    BY <1>2 DEF LeasesOK
  <2>2. holders' = (holders \ {c}) \cup {Head(queue)} /\ queue' = Tail(queue)
    BY <1>2 DEF Release
  <2> QED
    BY <2>1, <2>2, HandOver DEF LeasesOK
<1> QED
  BY <1>1, <1>2

LEMMA AcquireAgainTypes ==
  ASSUME NEW c \in holders \ hung, LeasesOK, AcquireAgain(c), hung' = hung
  PROVE  LeasesOK'
<1>1. CASE queue = <<>>
  BY <1>1 DEF AcquireAgain, leaseVars, LeasesOK
<1>2. CASE queue # <<>>
  <2>1. Head(queue) \in Calls /\ Tail(queue) \in Seq(Calls) /\ c \in Calls
    BY <1>2 DEF LeasesOK
  <2>2. Append(Tail(queue), c) \in Seq(Calls)
    BY <2>1
  <2>3. /\ holders' = (holders \ {c}) \cup {Head(queue)}
        /\ queue' = Append(Tail(queue), c)
    BY <1>2 DEF AcquireAgain
  <2> QED
    BY <2>1, <2>2, <2>3, HandOver DEF LeasesOK
<1> QED
  BY <1>1, <1>2

LEMMA AcquireTypes ==
  ASSUME NEW c \in Calls, LeasesOK, Acquire(c), hung' = hung
  PROVE  LeasesOK'
<1>1. CASE Cardinality(holders) < PoolSize /\ queue = <<>>
  <2>1. IsFiniteSet(holders) /\ Cardinality(holders) \in Nat
    BY FS_CardinalityType DEF LeasesOK
  <2>2. /\ IsFiniteSet(holders \cup {c})
        /\ \/ Cardinality(holders \cup {c}) = Cardinality(holders)
           \/ Cardinality(holders \cup {c}) = Cardinality(holders) + 1
    BY <2>1, FS_AddElement
  <2>3. Cardinality(holders \cup {c}) <= PoolSize
    BY <1>1, <2>1, <2>2, ServiceAssumption
  <2>4. holders' = holders \cup {c} /\ queue' = queue
    BY <1>1 DEF Acquire
  <2> QED
    BY <2>2, <2>3, <2>4 DEF LeasesOK
<1>2. CASE ~(Cardinality(holders) < PoolSize /\ queue = <<>>)
  <2>1. Append(queue, c) \in Seq(Calls)
    BY DEF LeasesOK
  <2> QED
    BY <1>2, <2>1 DEF Acquire, LeasesOK
<1> QED
  BY <1>1, <1>2

(* The loader writes rows that there may be.                               *)
LEMMA LoaderTypes ==
  ASSUME CatalogueTypeOK, Loader
  PROVE  CatalogueTypeOK'
<1>1. edits \in 0..MaxEdits /\ MaxEdits \in Nat
  BY CatalogueAssumption DEF CatalogueTypeOK
<1>2. ASSUME Edit PROVE edits' \in 0..MaxEdits
  BY <1>1, <1>2 DEF Edit
<1>3. ASSUME NEW t \in Tables, LoadTable(t) PROVE CatalogueTypeOK'
  <2>1. edits' \in 0..MaxEdits
    BY <1>2, <1>3 DEF LoadTable
  <2>2. tables' \in SUBSET Tables
    BY <1>3 DEF LoadTable, Toggled, CatalogueTypeOK
  <2>3. fks' = fks /\ mappings' = mappings
    BY <1>3 DEF LoadTable
  <2> QED
    BY <2>1, <2>2, <2>3 DEF CatalogueTypeOK
<1>4. ASSUME NEW f \in Fks, LoadFk(f) PROVE CatalogueTypeOK'
  <2>1. edits' \in 0..MaxEdits
    BY <1>2, <1>4 DEF LoadFk
  <2>2. fks' \in SUBSET Fks
    BY <1>4 DEF LoadFk, Toggled, CatalogueTypeOK
  <2>3. tables' = tables /\ mappings' = mappings
    BY <1>4 DEF LoadFk
  <2> QED
    BY <2>1, <2>2, <2>3 DEF CatalogueTypeOK
<1> QED
  BY <1>3, <1>4 DEF Loader

(* Answering a request changes its place, its step and its code.           *)
LEMMA AnswersTypes ==
  ASSUME NEW c \in Calls, NEW code \in {200, 404, 500}, CallsOK, Answers(c, code),
         disturbed' = disturbed
  PROVE  CallsOK'
<1>1. status' \in [Calls -> {"idle", "running", "done"}] /\ step' \in [Calls -> Steps]
  BY DEF CallsOK, Answers, Steps
<1>2. answer' = [answer EXCEPT ![c] = [answer[c] EXCEPT !.code = code]]
  BY DEF Answers
<1>3. [answer[c] EXCEPT !.code = code] \in Answer
  BY DEF CallsOK, Answer
<1>4. answer' \in [Calls -> Answer]
  BY <1>2, <1>3 DEF CallsOK
<1>5. [answer[c] EXCEPT !.code = code].flagged = answer[c].flagged
      /\ [answer[c] EXCEPT !.code = code].columns = answer[c].columns
  BY DEF CallsOK, Answer
<1>6. \A d \in Calls : answer'[d].flagged \subseteq answer'[d].columns
  BY <1>2, <1>5 DEF CallsOK
<1> QED
  BY <1>1, <1>4, <1>6 DEF CallsOK

(* Everything else a query leaves as it is.                                *)
LEMMA SameTypes ==
  ASSUME TypeOK, Same, LeasesOK', CallsOK'
  PROVE  TypeOK'
<1>1. CatalogueTypeOK'
  BY DEF TypeOK, CatalogueTypeOK, Same, catalogueVars
<1> QED
  BY <1>1 DEF TypeOK, Same, lifeVars

(* A step of the lifespan touches neither a request nor a connection.      *)
LEMMA QuietTypes ==
  ASSUME TypeOK, Quiet
  PROVE  CatalogueTypeOK' /\ LeasesOK' /\ CallsOK'
<1>1. CatalogueTypeOK'
  BY DEF TypeOK, CatalogueTypeOK, Quiet, catalogueVars
<1>2. LeasesOK'
  BY DEF TypeOK, LeasesOK, Quiet, leaseVars
<1>3. CallsOK'
  BY DEF TypeOK, CallsOK, Quiet
<1> QED
  BY <1>1, <1>2, <1>3

(* A record with new fields of the right types is an answer.               *)
LEMMA ReceiveTypes ==
  ASSUME NEW c \in Calls, TypeOK, Receive(c)
  PROVE  TypeOK'
<1>1. LeasesOK'
  BY AcquireTypes DEF TypeOK, Receive, Same
<1>2. status' \in [Calls -> {"idle", "running", "done"}] /\ step' \in [Calls -> Steps]
  BY DEF TypeOK, CallsOK, Receive, Steps
<1>3. CallsOK'
  BY <1>2 DEF TypeOK, CallsOK, Receive, Same
<1> QED
  BY <1>1, <1>3, SameTypes DEF Receive

LEMMA ReadTableTypes ==
  ASSUME NEW c \in Calls, TypeOK, ReadTable(c)
  PROVE  TypeOK'
<1>1. ASSUME NEW t \in TableNamed(request[c]),
             answer' = [answer EXCEPT ![c].table = t],
             step' = [step EXCEPT ![c] = "columns"],
             UNCHANGED <<status, leaseVars>>, Same
      PROVE  LeasesOK' /\ CallsOK'
  <2>1. t \in Tables
    BY DEF TableNamed, TypeOK, CatalogueTypeOK
  <2>2. LeasesOK'
    BY <1>1 DEF leaseVars, LeasesOK, TypeOK, Same
  <2>3. answer[c] \in Answer
    BY DEF TypeOK, CallsOK
  <2>4. answer' = [answer EXCEPT ![c] = [answer[c] EXCEPT !.table = t]]
    BY <1>1
  <2>5. /\ [answer[c] EXCEPT !.table = t] \in Answer
        /\ [answer[c] EXCEPT !.table = t].flagged = answer[c].flagged
        /\ [answer[c] EXCEPT !.table = t].columns = answer[c].columns
    BY <2>1, <2>3 DEF Answer
  <2>6. answer' \in [Calls -> Answer]
    BY <2>4, <2>5 DEF TypeOK, CallsOK
  <2>7. \A d \in Calls : answer'[d].flagged \subseteq answer'[d].columns
    BY <2>4, <2>5 DEF TypeOK, CallsOK
  <2>8. step' \in [Calls -> Steps]
    BY <1>1 DEF TypeOK, CallsOK, Steps
  <2> QED
    BY <1>1, <2>2, <2>6, <2>7, <2>8 DEF TypeOK, CallsOK, Same
<1>2. ASSUME Answers(c, 404), ReleaseMissing(c), Same
      PROVE  LeasesOK' /\ CallsOK'
  <2>1. c \in holders \ hung /\ LeasesOK /\ CallsOK /\ Release(c) /\ hung' = hung
        /\ disturbed' = disturbed
    BY <1>2 DEF ReadTable, Ready, TypeOK, Same, ReleaseMissing
  <2> QED
    BY <1>2, <2>1, ReleaseTypes, AnswersTypes
<1> QED
  BY <1>1, <1>2, SameTypes DEF ReadTable

LEMMA ReadColumnsTypes ==
  ASSUME NEW c \in Calls, TypeOK, ReadColumns(c)
  PROVE  TypeOK'
<1> DEFINE t == answer[c].table
           there == {k \in Columns : k[1] = t /\ t \in tables}
           a == [answer[c] EXCEPT !.columns = there, !.flagged = there \cap FkColumns(t)]
<1>1. LeasesOK'
  BY AcquireAgainTypes DEF ReadColumns, Ready, TypeOK, Same
<1>2. answer' = [answer EXCEPT ![c] = a]
  BY DEF ReadColumns, TypeOK, CallsOK
<1>3. there \in SUBSET Columns /\ answer[c] \in Answer
  BY DEF TypeOK, CallsOK
<1>4. a \in Answer /\ a.flagged \subseteq a.columns
  <2> HIDE DEF there
  <2> QED
    BY <1>3, ZenonT(60) DEF Answer
<1>5. answer' \in [Calls -> Answer] /\ \A d \in Calls : answer'[d].flagged \subseteq answer'[d].columns
  <2> HIDE DEF a
  <2> QED
    BY <1>2, <1>4 DEF TypeOK, CallsOK
<1>6. step' \in [Calls -> Steps] /\ status' = status
  BY DEF ReadColumns, TypeOK, CallsOK, Steps
<1>7. CallsOK'
  BY <1>5, <1>6 DEF ReadColumns, TypeOK, CallsOK, Same
<1> QED
  BY <1>1, <1>7, SameTypes DEF ReadColumns

LEMMA ReadRefsTypes ==
  ASSUME NEW c \in Calls, TypeOK, ReadRefs(c)
  PROVE  TypeOK'
<1>1. LeasesOK'
  BY ReleaseTypes DEF ReadRefs, Ready, TypeOK, Same
<1>2. RefsOf(c) \in SUBSET Fks
  BY DEF RefsOf, Refs, JoinedFks, TypeOK, CatalogueTypeOK
<1> DEFINE code == IF /\ request[c].route = "column"
                      /\ request[c].column \notin {k[2] : k \in answer[c].columns}
                   THEN 404 ELSE 200
           a == [answer[c] EXCEPT !.refs = RefsOf(c), !.code = code]
<1>3. answer[c] \in Answer /\ code \in {200, 404}
  <2>1. answer[c] \in Answer
    BY DEF TypeOK, CallsOK
  <2> QED
    BY <2>1
<1>4. answer' = [answer EXCEPT ![c] = a]
  <2>1. answer' = [answer EXCEPT ![c].refs = RefsOf(c), ![c].code = code]
    BY DEF ReadRefs
  <2> HIDE DEF code
  <2> QED
    BY <2>1 DEF TypeOK, CallsOK
<1>5. answer' \in [Calls -> Answer] /\ \A d \in Calls : answer'[d].flagged \subseteq answer'[d].columns
  <2> HIDE DEF code
  <2>1. a \in Answer
    BY <1>2, <1>3, ZenonT(60) DEF Answer
  <2>2. a.flagged = answer[c].flagged /\ a.columns = answer[c].columns
    BY <1>3 DEF Answer
  <2> HIDE DEF a
  <2> QED
    BY <1>4, <2>1, <2>2 DEF TypeOK, CallsOK
<1>6. status' \in [Calls -> {"idle", "running", "done"}] /\ step' \in [Calls -> Steps]
  BY DEF ReadRefs, TypeOK, CallsOK, Steps
<1>7. CallsOK'
  BY <1>5, <1>6 DEF ReadRefs, TypeOK, CallsOK, Same
<1> QED
  BY <1>1, <1>7, SameTypes DEF ReadRefs

LEMMA LifespanTypes ==
  ASSUME TypeOK, Lifespan \/ Stop
  PROVE  TypeOK'
<1>1. ASSUME Quiet PROVE CatalogueTypeOK' /\ LeasesOK' /\ CallsOK'
  BY <1>1, QuietTypes
<1>2. Quiet
  BY DEF Lifespan, LoadSettings, OpenMetadataPool, OpenV2Pool, Stop, Drained, CloseV2Pool,
         CloseMetadataPool, Closes
<1>3. app' \in {"down", "repository", "v2", "serving", "draining", "closing v2",
                "closing", "stopped", "failed", "aborted"}
  BY DEF Lifespan, LoadSettings, OpenMetadataPool, OpenV2Pool, Stop, Drained, CloseV2Pool,
         CloseMetadataPool, Closes, Enters, TypeOK
<1>4. pools' \in SUBSET {"metadata", "v2"}
  BY DEF Lifespan, LoadSettings, OpenMetadataPool, OpenV2Pool, Stop, Drained, CloseV2Pool,
         CloseMetadataPool, Closes, TypeOK
<1> QED
  BY <1>1, <1>2, <1>3, <1>4 DEF TypeOK

(* The types of the state: never more connections than the pool has are    *)
(* lent, and a query that hangs keeps one (db.py:97-118).                  *)
THEOREM TypeCorrect == Spec => []TypeOK
<1>1. Init => TypeOK
  <2> SUFFICES ASSUME Init PROVE TypeOK
    OBVIOUS
  <2>1. CatalogueTypeOK
    BY CatalogueAssumption DEF Init, CatalogueInit, CatalogueTypeOK
  <2>2. LeasesOK
    BY FS_EmptySet, ServiceAssumption DEF Init, LeasesOK
  <2>3. CallsOK
    BY DEF Init, CallsOK, NoAnswer, Answer, Steps
  <2> QED
    BY <2>1, <2>2, <2>3 DEF Init, TypeOK
<1>2. TypeOK /\ [Next]_vars => TypeOK'
  <2> SUFFICES ASSUME TypeOK, [Next]_vars PROVE TypeOK'
    OBVIOUS
  <2>1. CASE Lifespan \/ Stop
    BY <2>1, LifespanTypes
  <2>2. CASE Loader
    <3>1. CatalogueTypeOK'
      BY <2>2, LoaderTypes DEF TypeOK
    <3>2. LeasesOK' /\ CallsOK'
      BY <2>2 DEF Loader, leaseVars, LeasesOK, CallsOK, TypeOK
    <3> QED
      BY <2>2, <3>1, <3>2 DEF Loader, lifeVars, TypeOK
  <2>3. ASSUME NEW c \in Calls, Receive(c) PROVE TypeOK'
    BY <2>3, ReceiveTypes
  <2>4. ASSUME NEW c \in Calls, ListTables(c) PROVE TypeOK'
    BY <2>4, ReleaseTypes, AnswersTypes, SameTypes, ZenonT(30) DEF ListTables, Ready, TypeOK, Same
  <2>5. ASSUME NEW c \in Calls, ReadTable(c) \/ ReadColumns(c) \/ ReadRefs(c) PROVE TypeOK'
    BY <2>5, ReadTableTypes, ReadColumnsTypes, ReadRefsTypes
  <2>6. ASSUME NEW c \in Calls, QueryRaises(c) PROVE TypeOK'
    <3>1. c \in holders \ hung /\ LeasesOK /\ CallsOK /\ Release(c) /\ hung' = hung
          /\ disturbed' = disturbed /\ Answers(c, 500) /\ Same
      BY <2>6 DEF QueryRaises, Ready, TypeOK, Same
    <3>2. LeasesOK' /\ CallsOK'
      BY <3>1, ReleaseTypes, AnswersTypes
    <3> QED
      BY <3>1, <3>2, SameTypes
  <2>7. ASSUME NEW c \in Calls, QueryHangs(c) PROVE TypeOK'
    <3>1. CatalogueTypeOK'
      BY <2>7 DEF QueryHangs, catalogueVars, CatalogueTypeOK, TypeOK
    <3>2. c \in holders
      BY <2>7 DEF QueryHangs, Ready
    <3>3. LeasesOK' /\ CallsOK'
      BY <2>7, <3>2 DEF QueryHangs, leaseVars, LeasesOK, CallsOK, TypeOK
    <3> QED
      BY <2>7, <3>1, <3>3 DEF QueryHangs, lifeVars, TypeOK
  <2>8. CASE UNCHANGED vars
    <3>1. CatalogueTypeOK'
      BY <2>8 DEF vars, catalogueVars, CatalogueTypeOK, TypeOK
    <3>2. LeasesOK' /\ CallsOK'
      BY <2>8 DEF vars, leaseVars, LeasesOK, CallsOK, TypeOK
    <3> QED
      BY <2>8, <3>1, <3>2 DEF vars, lifeVars, TypeOK
  <2> QED
    BY <2>1, <2>2, <2>3, <2>4, <2>5, <2>6, <2>7, <2>8 DEF Next, Query
<1> QED
  BY <1>1, <1>2, PTL DEF Spec

----------------------------------------------------------------------------
(* What is open at each place of the lifespan, and since when the settings *)
(* are known to be good.                                                   *)
LifeInv ==
  /\ app \in {"down", "repository", "stopped"} => pools = {}
  /\ app = "v2" => pools = {"metadata"} /\ settings.v2
  /\ app \in {"serving", "draining"} => "metadata" \in pools
  /\ app = "closing v2" => pools = {"metadata", "v2"}
  /\ app = "closing" => pools = {"metadata"}
  /\ app = "failed" /\ pools # {} => settings.v2 /\ Loads(settings)
  /\ app \notin {"down", "failed"} => Loads(settings)
  /\ app = "aborted" /\ "v2" \in pools => "metadata" \in pools
  /\ app \notin {"serving", "draining"} => \A c \in Calls : status[c] # "running"

LEMMA LifeInvInductive ==
  ASSUME TypeOK, LifeInv, [Next]_vars
  PROVE  LifeInv'
<1> USE DEF Enters
<1>1. ASSUME Lifespan \/ Stop
      PROVE  status' = status /\ settings' = settings /\ Loads(settings)' = Loads(settings)
  BY <1>1 DEF Lifespan, Stop, LoadSettings, OpenMetadataPool, OpenV2Pool, Drained, CloseV2Pool,
              CloseMetadataPool, Closes, Quiet, Loads
<1>2. CASE LoadSettings
  BY <1>1, <1>2 DEF Lifespan, LoadSettings, LifeInv
<1>3. CASE OpenMetadataPool
  BY <1>1, <1>3 DEF Lifespan, OpenMetadataPool, LifeInv
<1>4. CASE OpenV2Pool
  BY <1>1, <1>4 DEF Lifespan, OpenV2Pool, LifeInv
<1>5. CASE Stop
  BY <1>1, <1>5 DEF Stop, LifeInv
<1>6. CASE Drained
  <2>1. pools \in SUBSET {"metadata", "v2"} /\ "metadata" \in pools
    BY <1>6 DEF TypeOK, Drained, LifeInv
  <2>2. CASE "v2" \in pools
    BY <1>1, <1>6, <2>1, <2>2 DEF Lifespan, Drained, LifeInv
  <2>3. CASE "v2" \notin pools
    BY <1>1, <1>6, <2>1, <2>3 DEF Lifespan, Drained, LifeInv
  <2> QED
    BY <2>2, <2>3
<1>7. CASE CloseV2Pool
  BY <1>1, <1>7 DEF Lifespan, CloseV2Pool, Closes, Enters, LifeInv
<1>8. CASE CloseMetadataPool
  BY <1>1, <1>8 DEF Lifespan, CloseMetadataPool, Closes, Enters, LifeInv
<1>9. ASSUME UNCHANGED lifeVars, \/ app \in {"serving", "draining"}
                                 \/ status' = status
      PROVE  LifeInv'
  <2>1. Loads(settings)' = Loads(settings)
    BY <1>9 DEF lifeVars, Loads
  <2> QED
    BY <1>9, <2>1 DEF lifeVars, LifeInv
<1>10. CASE Loader \/ UNCHANGED vars
  BY <1>9, <1>10 DEF Loader, vars
<1>11. ASSUME NEW c \in Calls, Receive(c) \/ Query(c) \/ QueryRaises(c) \/ QueryHangs(c)
       PROVE  LifeInv'
  <2>1. UNCHANGED lifeVars
    BY <1>11 DEF Receive, Query, ListTables, ReadTable, ReadColumns, ReadRefs, QueryRaises,
                 QueryHangs, Same
  <2>2. app = "serving" \/ status[c] = "running"
    BY <1>11 DEF Receive, Query, ListTables, ReadTable, ReadColumns, ReadRefs, QueryRaises,
                 QueryHangs, Ready
  <2> QED
    BY <1>9, <2>1, <2>2 DEF LifeInv
<1> QED
  BY <1>2, <1>3, <1>4, <1>5, <1>6, <1>7, <1>8, <1>10, <1>11 DEF Next, Lifespan

(* A request never runs without the pool it reads from; a pool is left     *)
(* open only by a start that fails after it, or by a shutdown of which one *)
(* close raised, the second pool then not without the first                *)
(* (main.py:77-97).                                                        *)
THEOREM PoolsCover == Spec => []PoolsCoverCalls
<1>1. Init => LifeInv
  BY DEF Init, LifeInv
<1>2. TypeOK /\ LifeInv /\ [Next]_vars => LifeInv'
  BY LifeInvInductive
<1>3. LifeInv => PoolsCoverCalls
  BY DEF LifeInv, PoolsCoverCalls
<1> QED
  BY <1>1, <1>2, <1>3, TypeCorrect, PTL DEF Spec

----------------------------------------------------------------------------
(* What a request knows of its table before its last query.                *)
ColumnsOf(t) == {k \in Columns : k[1] = t}

ReadInv(c) ==
  /\ status[c] = "idle" => answer[c].table = NoTable
  /\ status[c] = "running" => step[c] \in {"list", "detail", "columns", "refs"}
  /\ status[c] = "running" /\ step[c] # "refs" => request[c].route # "ref"
  /\ request[c].route = "ref" => answer[c].table = NoTable
  /\ status[c] = "running" /\ step[c] \in {"list", "detail"} => answer[c].table = NoTable
  /\ status[c] = "running" /\ step[c] = "columns" /\ c \notin disturbed
       => answer[c].table \in tables
  /\ /\ status[c] = "running" /\ step[c] = "refs" /\ c \notin disturbed
     /\ answer[c].table # NoTable
     => /\ answer[c].table \in tables
        /\ answer[c].flagged = ColumnsOf(answer[c].table) \cap FkColumns(answer[c].table)

(* A step of one call leaves the knowledge of the others as it is.         *)
LEMMA ReadInvUnchanged ==
  ASSUME NEW c \in Calls, ReadInv(c), UNCHANGED <<catalogueVars, request, disturbed>>,
         status'[c] = status[c], step'[c] = step[c], answer'[c] = answer[c]
  PROVE  ReadInv(c)'
<1>1. FkColumns(answer[c].table)' = FkColumns(answer[c].table)
  BY DEF FkColumns, catalogueVars
<1> QED
  BY <1>1 DEF ReadInv, catalogueVars, ColumnsOf

LEMMA ReadInvOwnStep ==
  ASSUME NEW c \in Calls, TypeOK, ReadInv(c),
         Receive(c) \/ Query(c) \/ QueryRaises(c) \/ QueryHangs(c)
  PROVE  ReadInv(c)'
<1>1. answer[c] \in Answer /\ answer \in [Calls -> Answer] /\ DOMAIN status = Calls
      /\ DOMAIN step = Calls /\ status[c] \in {"idle", "running", "done"}
  BY DEF TypeOK, CallsOK
<1>2. CASE Receive(c)
  <2>1. /\ status[c] = "idle" /\ status'[c] = "running" /\ answer'[c] = answer[c]
        /\ request' = request
        /\ step'[c] = CASE request[c].route = "batch" -> "list"
                        [] request[c].route = "ref" -> "refs"
                        [] OTHER -> "detail"
    BY <1>1, <1>2 DEF Receive, Same
  <2> QED
    BY <2>1 DEF ReadInv
<1>3. ASSUME status'[c] = "done", request' = request, answer'[c].table = answer[c].table
      PROVE  ReadInv(c)'
  BY <1>3 DEF ReadInv
<1>4. ASSUME NEW code, Answers(c, code), Same
      PROVE  ReadInv(c)'
  BY <1>1, <1>3, <1>4 DEF Answers, Same, Answer
<1>5. CASE ListTables(c) \/ QueryRaises(c)
  BY <1>4, <1>5 DEF ListTables, QueryRaises
<1>6. CASE ReadTable(c)
  <2>1. ASSUME NEW t \in TableNamed(request[c]),
               answer' = [answer EXCEPT ![c].table = t],
               step' = [step EXCEPT ![c] = "columns"],
               UNCHANGED <<status, leaseVars>>, Same
        PROVE  ReadInv(c)'
    <3>1. t \in tables /\ answer'[c].table = t /\ step'[c] = "columns" /\ status' = status
          /\ tables' = tables /\ request' = request
      BY <1>1, <2>1 DEF TableNamed, Same, catalogueVars, Answer
    <3>2. status[c] = "running" /\ step[c] = "detail"
      BY <1>6 DEF ReadTable, Ready
    <3> QED
      BY <3>1, <3>2 DEF ReadInv
  <2> QED
    BY <1>4, <1>6, <2>1 DEF ReadTable
<1>7. CASE ReadColumns(c)
  <2> DEFINE t == answer[c].table
             there == {k \in Columns : k[1] = t /\ t \in tables}
  <2>1. /\ answer'[c].table = t /\ answer'[c].flagged = there \cap FkColumns(t)
        /\ step'[c] = "refs" /\ status' = status
    BY <1>1, <1>7 DEF ReadColumns, Answer
  <2>2. /\ UNCHANGED <<catalogueVars, request, disturbed>>
        /\ status[c] = "running" /\ step[c] = "columns"
    BY <1>7 DEF ReadColumns, Same, Ready
  <2>3. FkColumns(t)' = FkColumns(t) /\ tables' = tables
    BY <2>1, <2>2 DEF FkColumns, catalogueVars
  <2>4. ASSUME c \notin disturbed PROVE t \in tables /\ there = ColumnsOf(t)
    BY <2>2, <2>4 DEF ReadInv, ColumnsOf
  <2>5. request[c].route # "ref"
    BY <2>2 DEF ReadInv
  <2>6. ASSUME c \notin disturbed
        PROVE  /\ answer'[c].table \in tables'
               /\ answer'[c].flagged = ColumnsOf(answer'[c].table) \cap FkColumns(answer[c].table)'
    BY <2>1, <2>3, <2>4, <2>6 DEF ColumnsOf
  <2> QED
    BY <2>1, <2>2, <2>5, <2>6 DEF ReadInv, ColumnsOf
<1>8. CASE ReadRefs(c)
  <2>1. status'[c] = "done" /\ request' = request /\ answer'[c].table = answer[c].table
    BY <1>1, <1>8 DEF ReadRefs, Same, Answer
  <2> QED
    BY <1>3, <2>1
<1>9. CASE QueryHangs(c)
  BY <1>9, ReadInvUnchanged DEF QueryHangs
<1> QED
  BY <1>2, <1>5, <1>6, <1>7, <1>8, <1>9 DEF Query

LEMMA ReadInvInductive ==
  ASSUME TypeOK, \A c \in Calls : ReadInv(c), [Next]_vars
  PROVE  \A c \in Calls : ReadInv(c)'
<1> SUFFICES ASSUME NEW c \in Calls PROVE ReadInv(c)'
  OBVIOUS
<1>1. CASE Lifespan \/ Stop
  <2>1. Quiet
    BY <1>1 DEF Lifespan, LoadSettings, OpenMetadataPool, OpenV2Pool, Stop, Drained,
                CloseV2Pool, CloseMetadataPool, Closes
  <2> QED
    BY <2>1, ReadInvUnchanged DEF Quiet
<1>2. CASE Loader
  <2>1. /\ status' = status /\ step' = step /\ answer' = answer /\ request' = request
        /\ status[c] = "running" => c \in disturbed'
    BY <1>2 DEF Loader
  <2> QED
    BY <2>1 DEF ReadInv
<1>3. ASSUME NEW d \in Calls, Receive(d) \/ Query(d) \/ QueryRaises(d) \/ QueryHangs(d)
      PROVE  ReadInv(c)'
  <2>1. CASE d = c
    BY <1>3, <2>1, ReadInvOwnStep
  <2>2. CASE d # c
    <3>1. UNCHANGED <<catalogueVars, request, disturbed>>
      BY <1>3 DEF Receive, Query, ListTables, ReadTable, ReadColumns, ReadRefs, QueryRaises,
                  QueryHangs, Same
    <3>2. status'[c] = status[c] /\ step'[c] = step[c] /\ answer'[c] = answer[c]
      <4>1. CASE Receive(d)
        BY <2>2, <4>1 DEF Receive, TypeOK, CallsOK
      <4>2. ASSUME NEW code, Answers(d, code)
            PROVE  status'[c] = status[c] /\ step'[c] = step[c] /\ answer'[c] = answer[c]
        BY <2>2, <4>2 DEF Answers, TypeOK, CallsOK
      <4>3. CASE ListTables(d) \/ QueryRaises(d)
        BY <4>2, <4>3 DEF ListTables, QueryRaises
      <4>4. CASE ReadTable(d)
        BY <2>2, <4>2, <4>4 DEF ReadTable, TypeOK, CallsOK
      <4>5. CASE ReadColumns(d)
        BY <2>2, <4>5 DEF ReadColumns, TypeOK, CallsOK
      <4>6. CASE ReadRefs(d)
        BY <2>2, <4>6 DEF ReadRefs, TypeOK, CallsOK
      <4>7. CASE QueryHangs(d)
        BY <4>7 DEF QueryHangs
      <4> QED
        BY <1>3, <4>1, <4>3, <4>4, <4>5, <4>6, <4>7 DEF Query
    <3> QED
      BY <3>1, <3>2, ReadInvUnchanged
  <2> QED
    BY <2>1, <2>2
<1>4. CASE UNCHANGED vars
  BY <1>4, ReadInvUnchanged DEF vars
<1> QED
  BY <1>1, <1>2, <1>3, <1>4 DEF Next

(* The references of a table that no other table is named as are those of  *)
(* its keys that lead to a table.                                          *)
LEMMA RefsAreOwn ==
  ASSUME NEW c \in Calls, TypeOK, answer[c].table \in tables, ~Homonym(answer[c].table)
  PROVE  Refs(Found(c)) = {f \in JoinedFks : f.from[1] = answer[c].table}
<1> DEFINE t == answer[c].table
<1>1. t \in Tables /\ Db[t] # AnyDb
  BY ServiceAssumption DEF TypeOK, CatalogueTypeOK
<1>2. ASSUME NEW f \in JoinedFks
      PROVE  Names(Found(c), f.from[1]) <=> f.from[1] = t
  <2>1. f.from[1] \in Tables
    BY DEF JoinedFks, TypeOK, CatalogueTypeOK
  <2>2. Names(Found(c), f.from[1]) <=> Db[f.from[1]] = Db[t] /\ Name[f.from[1]] = Name[t]
    BY <1>1 DEF Names, Found
  <2> QED
    BY <2>1, <2>2 DEF Homonym
<1> QED
  BY <1>2 DEF Refs

LEMMA AnswersAreTyped ==
  ASSUME TypeOK, NEW c \in Calls
  PROVE  /\ answer[c] \in Answer /\ answer \in [Calls -> Answer]
         /\ status \in [Calls -> {"idle", "running", "done"}]
<1>1. answer \in [Calls -> Answer] /\ status \in [Calls -> {"idle", "running", "done"}]
  BY DEF TypeOK, CallsOK
<1> QED
  BY <1>1

LEMMA EndsInAgreement ==
  ASSUME NEW c \in Calls, TypeOK, ReadInv(c), ReadRefs(c),
         answer'[c].table # NoTable, c \notin disturbed, ~Homonym(answer'[c].table)
  PROVE  answer'[c].flagged = {f.from : f \in answer'[c].refs} \cup Dangling(answer'[c].table)
<1> DEFINE t == answer[c].table
<1>1. answer[c] \in Answer /\ answer \in [Calls -> Answer]
  BY AnswersAreTyped
<1>2. answer'[c].table = t /\ answer'[c].flagged = answer[c].flagged /\ answer'[c].refs = RefsOf(c)
  BY <1>1 DEF ReadRefs, Answer
<1>3. t # NoTable /\ ~Homonym(t)
  BY <1>2
<1>4. status[c] = "running" /\ step[c] = "refs" /\ request[c].route # "ref"
  BY <1>3 DEF ReadRefs, Ready, ReadInv
<1>5. t \in tables /\ answer[c].flagged = ColumnsOf(t) \cap FkColumns(t)
  BY <1>3, <1>4 DEF ReadInv
<1>6. answer'[c].refs = {f \in JoinedFks : f.from[1] = t}
  BY <1>2, <1>3, <1>4, <1>5, RefsAreOwn DEF RefsOf
<1>7. \A f \in fks : f.from \in Columns
  BY CatalogueAssumption DEF TypeOK, CatalogueTypeOK
<1>8. FkColumns(t) \subseteq ColumnsOf(t)
  BY <1>7 DEF FkColumns, ColumnsOf
<1>9. FkColumns(t) = {f.from : f \in {g \in JoinedFks : g.from[1] = t}} \cup Dangling(t)
  BY <1>5 DEF FkColumns, JoinedFks, Dangling
<1> QED
  BY <1>2, <1>5, <1>6, <1>8, <1>9

(* The columns marked FK and the references of one answer agree when       *)
(* nobody wrote while it was put together, although they are read on two   *)
(* connections (metadata_repository.py:198-243, :265-290).                 *)
THEOREM DetailAgrees == Spec => DetailAgreesIfUndisturbed
<1> DEFINE Agrees(c) ==
      LET a == answer'[c]
      IN  /\ status[c] = "running" /\ status'[c] = "done"
          /\ a.code = 200 /\ a.table # NoTable
          /\ c \notin disturbed /\ ~Homonym(a.table)
          => a.flagged = {f.from : f \in a.refs} \cup Dangling(a.table)
           Inv == \A c \in Calls : ReadInv(c)
<1>1. Init => Inv
  BY DEF Init, ReadInv, NoAnswer
<1>2. TypeOK /\ Inv /\ [Next]_vars => Inv'
  BY ReadInvInductive
<1>3. TypeOK /\ Inv /\ [Next]_vars => [\A c \in Calls : Agrees(c)]_vars
  <2> SUFFICES ASSUME TypeOK, Inv, Next, NEW c \in Calls,
                      status[c] = "running", status'[c] = "done",
                      answer'[c].code = 200, answer'[c].table # NoTable,
                      c \notin disturbed, ~Homonym(answer'[c].table)
               PROVE  answer'[c].flagged = {f.from : f \in answer'[c].refs} \cup Dangling(answer'[c].table)
    OBVIOUS
  <2>1. answer[c] \in Answer /\ answer \in [Calls -> Answer] /\ status \in [Calls -> {"idle", "running", "done"}]
    BY AnswersAreTyped
  <2>2. ~Lifespan /\ ~Stop /\ ~Loader
    BY DEF Lifespan, LoadSettings, OpenMetadataPool, OpenV2Pool, Stop, Drained,
           CloseV2Pool, CloseMetadataPool, Closes, Quiet, Loader
  <2>3. PICK d \in Calls : Receive(d) \/ Query(d) \/ QueryRaises(d) \/ QueryHangs(d)
    BY <2>2 DEF Next
  <2>4. d = c
    BY <2>1, <2>3 DEF Receive, Query, ListTables, ReadTable, ReadColumns, ReadRefs,
                      QueryRaises, QueryHangs, Answers
  <2>5. ~Receive(c) /\ ~QueryHangs(c) /\ ~ReadColumns(c)
    BY <2>1 DEF Receive, QueryHangs, ReadColumns
  <2>6. ~QueryRaises(c)
    BY <2>1 DEF QueryRaises, Answers, Answer
  <2>7. ~ReadTable(c)
    BY <2>1 DEF ReadTable, Answers, Answer
  <2>8. ~ListTables(c)
    BY <2>1 DEF ListTables, Answers, Answer, Ready, ReadInv
  <2>9. ReadRefs(c)
    BY <2>3, <2>4, <2>5, <2>6, <2>7, <2>8 DEF Query
  <2> QED
    BY <2>9, EndsInAgreement
<1> QED
  BY <1>1, <1>2, <1>3, TypeCorrect, PTL DEF Spec, DetailAgreesIfUndisturbed
=============================================================================
