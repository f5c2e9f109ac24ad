----------------------- MODULE MCDecisionPostgres --------------------------
(* Four tables.  1 and 2 are near the question, 3 is too far and 4 is not  *)
(* valid.  A mapping names 3, which the search misses, one names 2, which  *)
(* it finds, and one has no column.  A key links 4 to 3 and two link 1 to  *)
(* 2 by the same columns.  2, 3 and 4 share an identifier column, 2 and 3  *)
(* a code column and 1 and 2 the name of their key.  2 and 4 have one name *)
(* in two databases, so the key from 4 to 3 has the same ends as the       *)
(* convention from 2 to 3.                                                 *)
EXTENDS DecisionPostgres

MCSimilarity == [t \in 1..4 |-> CASE t = 1 -> 80 [] t = 2 -> 30 [] t = 3 -> 10 [] OTHER -> 60]

MCColumns ==
  {<<1, "ID">>, <<2, "ID">>, <<2, "X_CODE">>, <<3, "X_CODE">>,
   <<2, "TAGSN">>, <<3, "TAGSN">>, <<4, "TAGSN">>}

MCEnding ==
  [n \in {"ID", "X_CODE", "TAGSN"} |->
     CASE n = "X_CODE" -> "_CODE" [] n = "TAGSN" -> "SN" [] OTHER -> "other"]

MCName == [t \in 1..4 |-> CASE t = 1 -> "S.A" [] t = 3 -> "S.C" [] OTHER -> "S.B"]

MCKeys == {<<1, "ID">>}

Fk(t, u, column, name) == [from |-> <<t, column>>, to |-> <<u, column>>, name |-> name]

MCFks == {Fk(4, 3, "TAGSN", "k1"), Fk(1, 2, "ID", "k2"), Fk(1, 2, "ID", "k3")}

MCColumnOf ==
  [m \in {"far", "near", "loose"} |->
     CASE m = "far" -> <<3, "X_CODE">> [] m = "near" -> <<2, "ID">> [] OTHER -> NoColumn]
============================================================================
