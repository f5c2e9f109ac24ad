--------------------------- MODULE MCGraphServing ---------------------------
(* Six tables: 1 and 2 have the same name in two datasources, 3 and 4 are *)
(* marts, 5 is outside the allowlist.  Workloads: decisions over a graph   *)
(* that stands still, with every combination of the edges and several      *)
(* rankings; a decision while a job and the ingest work; two jobs and the  *)
(* ingest; the resolution of entities over all small code tables; and the  *)
(* pool with two callers beside the lifespan.                              *)
EXTENDS GraphServing

MCKey == [t \in 1..6 |-> IF t = 2 THEN 1 ELSE t]

MCDbLabel == [t \in 1..6 |-> IF t = 2 THEN "other" ELSE "main"]

MCArea == [t \in 1..6 |-> CASE t = 1 -> "agg" [] t = 3 -> "raw" [] t = 4 -> "hist" [] OTHER -> "none"]

MCLabelsWith == [w \in {"plant", "unit"} |->
                   IF w = "plant" THEN {"plant A", "plant B"} ELSE {"unit X"}]

----------------------------------------------------------------------------
Edge(from, to, via) == [from |-> from, to |-> to, via |-> via]

MCEdges ==
  {Edge(3, 4, "fk"), Edge(1, 1, "fk"), Edge(1, 4, "fk"), Edge(1, 3, "ontology"),
   Edge(3, 6, "ontology"), Edge(1, 6, "convention"), Edge(3, 4, "convention")}

Score(a, b, c, d, e, f) == <<a, b, c, d, e, f>>

Rankings ==
  {[hyde |-> Score(90, 40, 88, 87, 95, 86), question |-> Score(90, 40, 88, 87, 95, 86)],
   [hyde |-> Score(80, 20, 80, 80, 80, 79), question |-> Score(40, 20, 80, 78, 80, 30)],
   [hyde |-> Score(50, 90, 89, 70, 95, 60), question |-> Score(90, 91, 30, 70, 10, 60)]}

Ask(limit, openai, sim, edges) ==
  [limit |-> limit, openai |-> openai, sim |-> sim, edges |-> edges, resolve |-> FALSE,
   words |-> Score(500, 0, 500, 495, 1000, 490)]

AnyRanking == CHOOSE r \in Rankings : TRUE

Row(column, code, label, padded, copy) ==
  [column |-> column, code |-> code, text |-> label, padded |-> padded, copy |-> copy]

MCRows ==
  {Row("name", 1, "plant A", FALSE, 1), Row("name", 1, "plant A", FALSE, 2),
   Row("name", 2, "plant A", FALSE, 1), Row("name", 3, "plant B", TRUE, 1),
   Row("alias", 4, "plant B", FALSE, 1), Row("alias", 5, "unit X", FALSE, 1)}

Entity(words, columns, rows) ==
  [enabled |-> TRUE, registry |-> TRUE, columns |-> columns, words |-> words, rows |-> rows]

NoEntity == [enabled |-> FALSE, registry |-> FALSE, columns |-> <<>>, words |-> <<>>, rows |-> {}]

Entities ==
  {Entity(<<"plant", "show", "plant", "unit", "plant">>, <<"name", "alias">>, R) :
     R \in SUBSET MCRows} \cup
  {NoEntity, [Entity(<<"plant">>, <<"name">>, {}) EXCEPT !.registry = FALSE],
   Entity(<<"plant">>, <<>>, {})}

----------------------------------------------------------------------------
Quiet(ask0) ==
  [ask |-> ask0, entity |-> NoEntity, vectorised |-> {1, 2, 3, 4, 5, 6}, decides |-> TRUE,
   serves |-> FALSE, jobs |-> {}, callers |-> {}, changing |-> {}, changes |-> 0]

Selections ==
  {Quiet(Ask(limit, openai, sim, edges)) :
     limit \in {NoLimit, 2}, openai \in {TRUE}, sim \in Rankings, edges \in SUBSET MCEdges}
  \cup {Quiet(Ask(NoLimit, FALSE, AnyRanking, edges)) : edges \in SUBSET MCEdges}

Busy ==
  [ask |-> Ask(NoLimit, TRUE, AnyRanking, {}), entity |-> NoEntity, vectorised |-> {1, 3, 5, 6},
   decides |-> FALSE, serves |-> TRUE, jobs |-> {"j1", "j2"}, callers |-> {},
   changing |-> {2, 3}, changes |-> 2]

Serving ==
  [Busy EXCEPT !.jobs = {"j1"}, !.decides = TRUE, !.changes = 1, !.changing = {3, 4},
               !.vectorised = {1, 3, 4, 5, 6}]

Resolving ==
  {[Quiet([Ask(NoLimit, FALSE, AnyRanking, {}) EXCEPT !.resolve = TRUE, !.words = Score(0, 0, 0, 0, 0, 0)])
      EXCEPT !.entity = e] : e \in Entities}

Opening == [Busy EXCEPT !.jobs = {}, !.callers = {"c1", "c2"}, !.changes = 0]

MCWorkloads == Selections \cup Resolving \cup {Busy, Serving, Opening}
============================================================================
