------------------------------ MODULE GuardLaws -----------------------------
(***************************************************************************)
(* What the guards of QueryGuards promise of two related inputs.  A        *)
(* behaviour picks one statement and one artifact and judges them; each    *)
(* property compares that verdict with the one on the statement under      *)
(* other aliases, on a narrowed statement, or on a richer artifact.        *)
(***************************************************************************)
EXTENDS QueryGuards

CONSTANTS
  Names,        \* identifiers: tables, aliases and names bound by WITH
  ColumnNames,  \* column names, Star among them
  Shapes,       \* shapes of predicates
  Disjunctions, \* those that are an OR: AND binds stronger
  Statements,   \* the statements judged
  Payloads,     \* the artifacts they are judged against
  Grants,       \* bindings that grant something and demand no filter
  Conjuncts,    \* conjuncts that may be added to a WHERE
  Renamings     \* exchanges of identifiers, to give tables other aliases

ColumnRef == (Names \cup {None}) \X ColumnNames
Predicate == [op : Shapes, cols : SUBSET ColumnRef, parens : Nat]
TableRef  == [catalog : STRING, schema : STRING, name : Names]

(* A SELECT and a statement as the parser returns them.                    *)
SelectScope ==
  [from : UNION {[A -> Names] : A \in SUBSET Names},
   outs : SUBSET ColumnNames, cols : SUBSET ColumnRef,
   eqs : SUBSET (ColumnRef \X ColumnRef), where : SUBSET Predicate]

Statement ==
  [parts : Nat, first : STRING, analyze : BOOLEAN, tokens : SUBSET STRING,
   parses : BOOLEAN, command : BOOLEAN, ctes : SUBSET Names,
   tables : SUBSET TableRef, selects : SUBSET SelectScope]

(* An OR without parentheses, and a predicate as a conjunct among others:  *)
(* beside an AND an OR must be put in parentheses.                         *)
BareOr(p) == p.op \in Disjunctions /\ p.parens = 0

Bracketed(p) == IF BareOr(p) THEN [p EXCEPT !.parens = 1] ELSE p

(* An unqualified name is no identifier, a table in the FROM of a SELECT   *)
(* is one of the tables of the statement, and an OR without parentheses is *)
(* a WHERE of its own.                                                     *)
ASSUME StatementsAssumption ==
  /\ None \notin Names
  /\ Statements \subseteq Statement
  /\ \A s \in Statements : \A sel \in s.selects :
       /\ \A a \in DOMAIN sel.from : sel.from[a] \in {t.name : t \in s.tables}
       /\ \A p \in sel.where : BareOr(p) => sel.where = {p}

ASSUME ConjunctsAssumption == Conjuncts \subseteq Predicate

ASSUME GrantsAssumption == \A g \in Grants : g.filters = {}

ASSUME RenamingsAssumption ==
  /\ Renamings \subseteq [Names -> Names]
  /\ \A new \in Renamings : \A x, y \in Names : new[x] = new[y] => x = y

VARIABLES
  stmt,     \* the statement, one of Statements
  payload,  \* the artifact it is judged against
  verdict   \* what the guards made of it, None before

vars == <<stmt, payload, verdict>>

Init ==
  /\ stmt \in Statements
  /\ payload \in Payloads
  /\ verdict = None

(* The try block of execute for a request that names an artifact.          *)
Judge ==
  /\ verdict = None
  /\ verdict' = Guard(stmt, TRUE, payload)
  /\ UNCHANGED <<stmt, payload>>

Next == Judge

Spec == Init /\ [][Next]_vars

----------------------------------------------------------------------------
(* Statement s with every alias, and every qualifier, x written new[x].    *)
NewName(new, q) == IF q = None THEN None ELSE new[q]

NewColumn(new, c) == <<NewName(new, c[1]), c[2]>>

NewPredicate(new, p) == [p EXCEPT !.cols = {NewColumn(new, c) : c \in @}]

NewFrom(new, from) ==
  [a \in {new[x] : x \in DOMAIN from} |-> from[CHOOSE x \in DOMAIN from : new[x] = a]]

NewScope(new, sel) ==
  [sel EXCEPT !.from  = NewFrom(new, @),
              !.cols  = {NewColumn(new, c) : c \in @},
              !.eqs   = {<<NewColumn(new, e[1]), NewColumn(new, e[2])>> : e \in @},
              !.where = {NewPredicate(new, p) : p \in @}]

Renamed(new, s) == [s EXCEPT !.selects = {NewScope(new, sel) : sel \in @}]

(* The qualifiers of a scope, and those alias_map does not resolve: names  *)
(* of CTEs, aliases of CTEs, and aliases of an enclosing SELECT.           *)
Qualifiers(sel) ==
  {c[1] : c \in sel.cols \cup (UNION {p.cols : p \in sel.where})
                         \cup (UNION {{e[1], e[2]} : e \in sel.eqs})}

Unresolved(s, sel) == Qualifiers(sel) \ ({None} \cup DOMAIN AliasMap(s, sel))

(* The tables an artifact allows, and all the names it mentions.           *)
TablesOf(p) == BuildAllowlist(p).tables

NamesOf(p) ==
  TablesOf(p) \cup {c[1] : c \in UNION {f.cols : f \in BuildAllowlist(p).filters}}

(* new only chooses other aliases: it neither takes nor gives up the name  *)
(* of a CTE, and a qualifier alias_map does not resolve is either kept or  *)
(* means nothing to the artifact, before and after.                        *)
OnlyAliases(new, s, p) ==
  \A sel \in s.selects :
    /\ \A q \in DOMAIN sel.from \cup Qualifiers(sel) :
         q # None => (q \in s.ctes <=> new[q] \in s.ctes)
    /\ \A q \in Unresolved(s, sel) :
         new[q] = q \/ {q, new[q]} \cap NamesOf(p) = {}

(* The conjuncts of a WHERE after AND p was added to it.                   *)
Conjoined(where, p) ==
  IF where = {} THEN {p} ELSE {Bracketed(q) : q \in where \cup {p}}

(* Statement s with one more conjunct in the WHERE of one of its SELECTs.  *)
NarrowedScope(sel, p) == [sel EXCEPT !.where = Conjoined(@, p)]

Narrowed(s, sel, p) ==
  [s EXCEPT !.selects = (@ \ {sel}) \cup {NarrowedScope(sel, p)}]

(* A mandatory filter on a table of sel is an OR without parentheses.      *)
OrDemanded(s, sel, q) ==
  \E f \in BuildAllowlist(q).filters :
    /\ {c[1] : c \in f.cols} \cap ScopeTables(s, sel) # {}
    /\ BareOr(f)

----------------------------------------------------------------------------
(* artifact_sql_guard.py:125-131 and 59-68: aliases are the caller's       *)
(* choice.  Giving the tables of a statement other aliases never changes   *)
(* the verdict, neither on columns nor on joins nor on mandatory filters.  *)
(* The one exception is a qualifier alias_map does not resolve (an alias   *)
(* of a CTE reference or of an enclosing SELECT) that borrows a name of    *)
(* the artifact.                                                           *)
AliasesDoNotMatter ==
  verdict # None =>
    \A new \in Renamings :
      OnlyAliases(new, stmt, payload)
        => Guard(Renamed(new, stmt), TRUE, payload) = verdict

(* artifact_sql_guard.py:71-76 and 178-197: a statement that was accepted  *)
(* stays accepted when one of its SELECTs is narrowed by one more conjunct *)
(* on columns that SELECT already refers to, except where the artifact     *)
(* demands a filter that is an OR without parentheses: such a filter can   *)
(* only be met by a WHERE that says nothing else, so every narrowed        *)
(* statement is rejected.                                                  *)
NarrowingIsSafe ==
  verdict = "pass" =>
    \A sel \in stmt.selects, p \in Conjuncts :
      p.cols \subseteq sel.cols =>
        (Guard(Narrowed(stmt, sel, p), TRUE, payload) = "pass"
           <=> ~OrDemanded(stmt, sel, payload))

(* artifact_sql_guard.py:26-56 and 116-176: an artifact that grants more   *)
(* tables, columns or joins, and demands nothing more, accepts all that    *)
(* the smaller artifact accepts.  The exception is a qualifier alias_map   *)
(* does not resolve: a grant of the table it happens to be called after    *)
(* makes the guard look at its columns for the first time.                 *)
GrantsAreMonotone ==
  verdict = "pass" =>
    \A g \in Grants :
      (\A sel \in stmt.selects :
         Unresolved(stmt, sel) \cap TablesOf({g}) \subseteq stmt.ctes \cup TablesOf(payload))
        => Guard(stmt, TRUE, payload \cup {g}) = "pass"
=============================================================================
