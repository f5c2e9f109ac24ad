--------------------------- MODULE MCMetaService ---------------------------
(* Tables 1 and 2 have one name in two dbs, 3 and 4 names that differ in   *)
(* case.  A key links 2 to 1 and one links 3 to 4.  Three requests share   *)
(* two connections, and one query may hang.                                *)
EXTENDS MetaService

MCDb == [t \in 1..4 |-> IF t = 2 THEN "b" ELSE "a"]

MCName == [t \in 1..4 |-> IF t \in {1, 2} THEN "orders" ELSE "items"]

MCColumns == {<<1, "id">>, <<2, "id">>, <<2, "ref">>, <<3, "ref">>, <<4, "id">>}

MCEnding == [n \in {"id", "ref"} |-> "other"]

MCFks == {[from |-> <<2, "ref">>, to |-> <<1, "id">>, name |-> "k1"],
          [from |-> <<3, "ref">>, to |-> <<4, "id">>, name |-> "k2"]}

MCSimilarity == [t \in 1..4 |-> 10 * t]

MCColumnOf == [m \in {} |-> NoColumn]

Ask(route, db, name, column) == [route |-> route, db |-> db, name |-> name, column |-> column]

Orders == Ask("table", AnyDb, "orders", "none")

Items == Ask("table", "a", "items", "none")

Unknown == Ask("table", "b", "items", "none")

Mix(a, b, c) == [call \in {"c1", "c2", "c3"} |->
                   CASE call = "c1" -> a [] call = "c2" -> b [] OTHER -> c]

Setting(file, missing, auth, secrets, metadata, v2) ==
  [file |-> file, missing |-> missing, auth |-> auth, secrets |-> secrets,
   metadata |-> metadata, execution |-> "mindsdb", v2 |-> v2]

Good == Setting(TRUE, {}, "bearer", {"password", "api_key"}, "postgres", TRUE)

Bad ==
  {[Good EXCEPT !.file = FALSE], [Good EXCEPT !.missing = {"api_key_ref"}],
   [Good EXCEPT !.missing = {"sql_api_url"}], [Good EXCEPT !.secrets = {"api_key"}],
   [Good EXCEPT !.secrets = {"password"}], [Good EXCEPT !.auth = "other"],
   [Good EXCEPT !.metadata = "neo4j"], [Good EXCEPT !.execution = "other"]}

(* No key reference is needed without bearer, no second pool without v2.   *)
Sparse == Setting(TRUE, {"api_key_ref"}, "none", {"password"}, "postgres", FALSE)

Begin(setting, mix) == [settings |-> setting, request |-> mix]

MCStarts ==
  {Begin(Good, Mix(Orders, Ask("column", "b", "orders", "ref"), Items)),
   Begin(Good, Mix(Ask("ref", AnyDb, "orders", "none"), Unknown, Unknown)),
   Begin(Sparse, Mix(Unknown, Ask("column", "b", "orders", "gone"),
                     Ask("batch", AnyDb, "none", "none")))}
  \cup {Begin(bad, Mix(Orders, Orders, Items)) : bad \in Bad}
============================================================================
