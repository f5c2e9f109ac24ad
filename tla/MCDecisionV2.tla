-------------------------- MODULE MCDecisionV2 -----------------------------
(* Four artifacts of the tenant "t1" on two snapshots, so that TopK = 2    *)
(* leaves one out, and one of "t2".  "a1" is valid for about a second of a *)
(* clock with two ticks per second, "a2" is for editors and has the score  *)
(* of "a1", "a3" is the most similar and "a4" is not ready; the synonym    *)
(* "syn" stands for the term "rain", "old" for a term without stable_id.   *)
EXTENDS DecisionV2

MCArtifact(tenant, snapshot, roles, own, similarity, ts) ==
  [tenant |-> tenant, snapshot |-> snapshot, ready |-> TRUE, from |-> NoTime,
   to |-> NoTime, roles |-> roles, own |-> own, similarity |-> similarity,
   tables |-> ts]

River   == [s \in {"river"} |-> 8]
NoNames == [s \in {} |-> 0]

MCRow ==
  [a \in {"a1", "a2", "a3", "a4", "b1"} |->
     CASE a = "a1" -> [MCArtifact("t1", "s1", {}, River, 0, {"T"})
                         EXCEPT !.from = 1, !.to = 3]
       [] a = "a2" -> MCArtifact("t1", "s2", {"EDITOR"}, NoNames, 4, {"T", "U"})
       [] a = "a3" -> MCArtifact("t1", "s1", {}, NoNames, 9, {"U"})
       [] a = "a4" -> [MCArtifact("t1", "s1", {}, River, -2, {"U"})
                         EXCEPT !.ready = FALSE]
       [] OTHER -> [MCArtifact("t2", "s3", {"CONSUMER"}, NoNames, 1, {"T"})
                      EXCEPT !.to = 2]]

MCSnapshotTenant == [s \in {"s1", "s2", "s3"} |-> IF s = "s3" THEN "t2" ELSE "t1"]
MCSnapshotTables == [s \in {"s1", "s2", "s3"} |-> {"T", "U"}]
MCSynonymOf == [s \in {"syn", "old"} |-> IF s = "syn" THEN "rain" ELSE "draft"]
MCIdRank == [a \in {"a1", "a2", "a3", "a4", "b1"} |->
               CASE a = "a1" -> 1 [] a = "a2" -> 2 [] a = "a3" -> 3
                 [] a = "a4" -> 4 [] OTHER -> 5]
MCCallers == {[tenant |-> "t1", roles |-> {"CONSUMER", "EDITOR"}],
              [tenant |-> "t2", roles |-> {"CONSUMER"}],
              [tenant |-> "t2", roles |-> {"EDITOR"}]}
============================================================================
