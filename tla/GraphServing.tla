---------------------------- MODULE GraphServing ----------------------------
(***************************************************************************)
(* What works on the metadata graph at the same time: a table decision     *)
(* (services/decision_service.py) with the resolution of its entities, the *)
(* vectorizer and the pool of the search application                       *)
(* (services/neo4j_client), and the ingest.  They meet in the graph; the   *)
(* jobs and the calls for the pool live in one process, between the start  *)
(* and the end of its lifespan.                                            *)
(***************************************************************************)
EXTENDS TableDecision, Vectorizer, EntityResolution, ProbePool

CONSTANTS
  Workloads   \* [ask, entity, vectorised, decides, serves, jobs, callers,
              \* changing, changes]

VARIABLES
  workload   \* what is asked of the system (bounds a run)

ASSUME WorkloadAssumption ==
  \A w \in Workloads :
    /\ IsAsk(w.ask) /\ IsEntity(w.entity)
    /\ w.jobs \subseteq Jobs /\ w.callers \subseteq Callers
    /\ w.changing \subseteq Tables /\ w.vectorised \subseteq Tables

vars == <<workload, graphVars, decisionVars, vectorizerVars, entityVars, poolVars>>

TypeOK ==
  /\ GraphTypeOK /\ DecisionTypeOK /\ VectorizerTypeOK /\ EntityTypeOK /\ PoolTypeOK

Init ==
  /\ workload \in Workloads
  /\ GraphInit(workload.vectorised)
  /\ DecisionInit({workload.ask}) /\ EntityInit({workload.entity})
  /\ VectorizerInit /\ PoolInit

Decision ==
  /\ workload.decides /\ DecisionNext
  /\ UNCHANGED <<workload, graphVars, vectorizerVars, entityVars, poolVars>>

(* decide awaits resolve_entities last, if auto_resolve_entities is set.   *)
Resolution ==
  /\ place = "answered" /\ ask.resolve
  /\ \E connected \in BOOLEAN : EntityNext(connected)
  /\ UNCHANGED <<workload, graphVars, decisionVars, vectorizerVars, poolVars>>

Vectorizing ==
  /\ app = "up" /\ \E j \in workload.jobs : JobStep(j)
  /\ UNCHANGED <<workload, decisionVars, entityVars, poolVars>>

Ingesting ==
  /\ changes < workload.changes /\ \E t \in workload.changing : Ingest(t)
  /\ UNCHANGED <<workload, decisionVars, entityVars, poolVars>>

(* The server ends its requests before the lifespan goes on.               *)
Lifecycle ==
  /\ workload.serves /\ PoolNext(workload.callers)
  /\ app' = "closing" => Running = {}
  /\ UNCHANGED <<workload, graphVars, decisionVars, vectorizerVars, entityVars>>

Next == Decision \/ Resolution \/ Vectorizing \/ Ingesting \/ Lifecycle

Spec == Init /\ [][Next]_vars

----------------------------------------------------------------------------
(* What is opened is closed: of the pools of the search application one    *)
(* that lost a race is left, of the drivers of its jobs those of jobs that *)
(* failed, and nothing else (db_probe.py:25-60, vectorizer.py:78-120).     *)
OnlyRacesAndFailuresLeak == PoolLostOnlyByRace /\ DriversClosed

============================================================================
