-------------------------- MODULE MCQueryGuards ----------------------------
(* The laws of the guards on a small world: two tables that share a column *)
(* name, up to two aliases (one of them a table's own name), an optional   *)
(* CTE, join and filters, among them an OR with and without parentheses,   *)
(* and subqueries that use an alias of the outer SELECT.                   *)
EXTENDS GuardLaws

MCNames == {"T", "U", "X", "P", "Q"}
Table   == {"T", "U"}
Column  == {"ID", "USE"}

Keep(q) == [op |-> "keep", cols |-> {<<q, "USE">>}, parens |-> 0]

Either(q, n) == [op |-> "either", cols |-> {<<q, "USE">>}, parens |-> n]

(* FROM clauses with one or two of the aliases X and T.                    *)
Froms == UNION {[A -> Table] : A \in SUBSET {"X", "T"} \ {{}}}

(* The SELECTs over a FROM clause with qualifiers from qs; their columns   *)
(* are those of the select list, of the join and of the WHERE.             *)
Selects(from, qs) ==
  LET joins == {<<<<q1, "ID">>, <<q2, "ID">>>> : q1, q2 \in DOMAIN from}
      sel(c, outs, eqs, where) ==
        [from |-> from, outs |-> outs, eqs |-> eqs, where |-> where,
         cols |-> {c} \cup UNION {{e[1], e[2]} : e \in eqs}
                      \cup UNION {p.cols : p \in where}]
  IN  {sel(<<q, c>>, outs, eqs, where) :
         q \in qs, c \in Column, outs \in {{}, {"USE"}},
         eqs \in {{}} \cup {{j} : j \in joins},
         where \in {{}} \cup UNION {{{Keep(r)}, {Either(r, 0)}, {Either(r, 1)},
                                       {Keep(r), Either(r, 1)}} : r \in qs}}

MCStatement(sels, ctes) ==
  [parts |-> 1, first |-> "SELECT", analyze |-> FALSE, tokens |-> {"SELECT"},
   parses |-> TRUE, command |-> FALSE, ctes |-> ctes, selects |-> sels,
   tables |-> {IF t \in ctes THEN [catalog |-> None, schema |-> None, name |-> t]
               ELSE [catalog |-> "c", schema |-> "s", name |-> t]
                 : t \in UNION {{sel.from[x] : x \in DOMAIN sel.from} : sel \in sels}}]

Outer(t) ==
  [from |-> [x \in {"X"} |-> t], outs |-> {}, cols |-> {}, eqs |-> {}, where |-> {}]

(* One SELECT, with the name U bound by WITH in some statements; or a      *)
(* subquery on T inside a SELECT that calls its table X.                   *)
MCStatements ==
  {MCStatement({sel}, ctes) :
     sel \in UNION {Selects(f, DOMAIN f \cup {None}) : f \in Froms}, ctes \in {{}, {"U"}}}
  \cup {MCStatement({sel, Outer(t)}, {}) :
          sel \in Selects([x \in {"T"} |-> "T"], {"X", "T"}), t \in Table}

(* Bindings of an artifact: columns of one table, or a join of the two.    *)
Plain(t, cs, fs) ==
  [base |-> t, cols |-> {<<t, c>> : c \in cs}, joins |-> {}, filters |-> fs]

JoinTU ==
  [base |-> None, cols |-> {}, filters |-> {},
   joins |-> {{<<"T", "ID">>, <<"U", "ID">>}}]

MCGrants == {Plain(t, cs, {}) : t \in Table, cs \in SUBSET Column} \cup {JoinTU}

MCPayloads ==
  {{Plain("T", cs, fs)} \cup g : cs \in SUBSET Column,
     fs \in {{}, {Keep("T")}, {Either("T", 0)}, {Either("T", 1)}},
     g \in {{}, {JoinTU}, {Plain("U", {"USE"}, {Keep("U")})}}}
  \cup {{Plain("T", {"ID"}, {Unparsable})}, {Plain("U", Column, {})}}

MCConjuncts ==
  {[op |-> "extra", cols |-> {<<q, c>>}, parens |-> 0] : q \in {"X", "T", None}, c \in Column}
  \cup {Either(q, 0) : q \in {"X", "T", None}}

(* X and T for two new names, X and T for each other.                      *)
MCRenamings ==
  {[x \in MCNames |-> CASE x = "X" -> "P" [] x = "T" -> "Q" [] x = "P" -> "X"
                        [] x = "Q" -> "T" [] OTHER -> x],
   [x \in MCNames |-> CASE x = "X" -> "T" [] x = "T" -> "X" [] OTHER -> x]}
============================================================================
