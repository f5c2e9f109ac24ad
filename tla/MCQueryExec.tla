--------------------------- MODULE MCQueryExec -----------------------------
(* Two tenants with one artifact each.  a1 allows one table with a         *)
(* mandatory filter; a2's mandatory filter does not parse.  Of the two     *)
(* statements "filtered" passes every guard and "bare" lacks the filter,   *)
(* which only a request without an artifact may.                           *)
EXTENDS QueryExec

Keep == [op |-> "keep", cols |-> {<<"T", "USE">>}, parens |-> 0]

Payload(t, filters) ==
  {[base |-> t, cols |-> {<<t, "ID">>, <<t, "USE">>}, joins |-> {},
    filters |-> filters]}

MCRow ==
  [a \in {"a1", "a2"} |->
     IF a = "a1" THEN [tenant |-> "t1", payload |-> Payload("T", {Keep})]
     ELSE [tenant |-> "t2", payload |-> Payload("T", {Unparsable})]]

MCNoRows == [s \in {} |-> "none"]

Select(t, where) ==
  [parts |-> 1, first |-> "SELECT", analyze |-> FALSE, tokens |-> {"SELECT"},
   parses |-> TRUE, command |-> FALSE, ctes |-> {},
   tables |-> {[catalog |-> "c", schema |-> "s", name |-> t]},
   selects |-> {[from |-> [x \in {"X"} |-> t], outs |-> {},
                 cols |-> {<<"X", "ID">>} \cup UNION {p.cols : p \in where},
                 eqs |-> {}, where |-> where]}]

MCSql ==
  [q \in {"filtered", "bare"} |->
     IF q = "filtered"
     THEN Select("T", {[op |-> "keep", cols |-> {<<"X", "USE">>}, parens |-> 0]})
     ELSE Select("T", {})]

Arg(q, a, t) == [sql |-> q, artifact |-> a, token |-> t]

MCArgs ==
  {Arg("bare", NoArtifact, "missing"),
   Arg("filtered", "a1", "t1"), Arg("filtered", "a1", "invalid"),
   Arg("bare", "a1", "t2"), Arg("filtered", "a2", "t2")}
============================================================================
