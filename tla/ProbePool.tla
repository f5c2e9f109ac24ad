----------------------------- MODULE ProbePool -----------------------------
(***************************************************************************)
(* The lifespan of the search application (neo4j_client/api.py) and the    *)
(* pool for the source database that it opens on demand                    *)
(* (neo4j_client/db_probe.py): get_pg_pool tests a global, awaits          *)
(* create_pool and then sets the global.                                   *)
(***************************************************************************)
EXTENDS Naturals, FiniteSets

CONSTANTS
  Callers,   \* calls of get_pg_pool made by requests
  Lifespan   \* the call that lifespan makes

VARIABLES
  app,        \* place of the lifespan
  caller,     \* [call of get_pg_pool -> place]
  current,    \* _pool: the call that made it, or NoPool
  openPools,  \* pools that are open, each named by the call that made it
  raced       \* calls that made a pool while another one did (history)

poolVars == <<app, caller, current, openPools, raced>>

NoPool == "no pool"

ASSUME CallerAssumption == Lifespan \notin Callers /\ NoPool \notin Callers \cup {Lifespan}

AllCallers == Callers \cup {Lifespan}

PoolTypeOK ==
  /\ app \in {"down", "starting", "up", "closing", "stopped"}
  /\ caller \in [AllCallers -> {"idle", "creating", "served", "refused"}]
  /\ current \in AllCallers \cup {NoPool}
  /\ openPools \in SUBSET AllCallers
  /\ raced \in SUBSET AllCallers

PoolInit ==
  /\ app = "down" /\ caller = [c \in AllCallers |-> "idle"]
  /\ current = NoPool /\ openPools = {} /\ raced = {}

Creating == {c \in AllCallers : caller[c] = "creating"}

GoesTo(c, place) == caller' = [caller EXCEPT ![c] = place]

Start == app = "down" /\ app' = "starting" /\ UNCHANGED <<caller, current, openPools, raced>>

(* Mutation: the global is not tested.                                     *)
GetPoolAnew(c) ==
  /\ caller[c] = "idle" /\ app = (IF c = Lifespan THEN "starting" ELSE "up")
  /\ GoesTo(c, "creating")
  /\ raced' = IF Creating # {} THEN raced \cup Creating \cup {c} ELSE raced
  /\ UNCHANGED <<app, current, openPools>>

(* The test of the global, up to the await of create_pool.                 *)
GetPool(c) ==
  /\ caller[c] = "idle" /\ app = (IF c = Lifespan THEN "starting" ELSE "up")
  /\ GoesTo(c, IF current = NoPool THEN "creating" ELSE "served")
  /\ raced' = IF current = NoPool /\ Creating # {} THEN raced \cup Creating \cup {c}
                                                   ELSE raced
  /\ UNCHANGED <<app, current, openPools>>

(* create_pool returns; whatever the global holds by now is replaced.      *)
PoolCreated(c) ==
  /\ caller[c] = "creating" /\ GoesTo(c, "served")
  /\ openPools' = openPools \cup {c} /\ current' = c
  /\ UNCHANGED <<app, raced>>

(* Any exception becomes None; the next caller tries again.                *)
PoolRefused(c) ==
  /\ caller[c] = "creating" /\ GoesTo(c, "refused")
  /\ UNCHANGED <<app, current, openPools, raced>>

(* The search application serves with or without a pool.                   *)
Serve ==
  /\ app = "starting" /\ caller[Lifespan] \in {"served", "refused"}
  /\ app' = "up"
  /\ UNCHANGED <<caller, current, openPools, raced>>

(* The server ends its requests before the lifespan goes on.               *)
Stop == app = "up" /\ Creating = {} /\ app' = "closing"
        /\ UNCHANGED <<caller, current, openPools, raced>>

(* close_pg_pool: the pool of the global is closed, and no other.          *)
ClosePool ==
  /\ app = "closing" /\ app' = "stopped"
  /\ openPools' = openPools \ {current} /\ current' = NoPool
  /\ UNCHANGED <<caller, raced>>

PoolNext(calls) ==
  \/ Start \/ Serve \/ Stop \/ ClosePool
  \/ \E c \in calls \cup {Lifespan} : GetPool(c) \/ PoolCreated(c) \/ PoolRefused(c)

----------------------------------------------------------------------------
(* A pool that nobody can close any more was made by one of two calls that *)
(* overlapped: without such a race there is one pool at most, the one the  *)
(* global names, and none after the shutdown; of n calls that raced n - 1  *)
(* pools at most are lost (db_probe.py:25-60, api.py:44-61).               *)
PoolLostOnlyByRace ==
  LET lost == openPools \ {current}
  IN  /\ lost \subseteq raced
      /\ lost # {} => Cardinality(lost) < Cardinality(raced)
      /\ current # NoPool => current \in openPools
      /\ app = "stopped" => current = NoPool

============================================================================
