---------------------------- MODULE QueryGuards ----------------------------
(***************************************************************************)
(* The three guards a statement passes before /query/execute sends it to   *)
(* the backend: the read-only guard (sql_guard.check), the namespace guard *)
(* (query_runner_mindsdb._validate_namespaces) and, on the Semantic View   *)
(* route, the artifact allowlist (artifact_sql_guard).                     *)
(*                                                                         *)
(* A statement is what the lexer and the SQL parser make of the text, a    *)
(* record with the fields                                                  *)
(*   parts    number of non-empty statements between semicolons            *)
(*   first    leading keyword                                              *)
(*   analyze  is it an EXPLAIN ANALYZE                                     *)
(*   tokens   keywords outside literals, comments and quoted identifiers   *)
(*   parses   does the dialect's parser accept it                          *)
(*   command  is the tree a command / DDL / DML node                       *)
(*   tables   table references, [catalog, schema, name]                    *)
(*   ctes     names bound by WITH                                          *)
(*   selects  its SELECT scopes, each a record of                          *)
(*              from   function from the aliases in FROM/JOIN to tables    *)
(*              outs   aliases of the select list                          *)
(*              cols   column references <<qualifier, name>>               *)
(*              eqs    column equalities <<column, column>>                *)
(*              where  conjuncts of WHERE                                  *)
(* and a predicate is [op, cols, parens]: its shape, the columns it        *)
(* mentions and the pairs of parentheses around it.  Predicates are        *)
(* compared as text, and `conjuncts' takes an AND apart but nothing else,  *)
(* so a predicate and the same one in parentheses are different.           *)
(* Upper-casing is part of reading the text, so names are already folded.  *)
(*                                                                         *)
(* An artifact payload is a set of bindings [base, cols, joins, filters];  *)
(* a mandatory filter sqlglot cannot parse is the predicate Unparsable.    *)
(***************************************************************************)
EXTENDS Naturals, FiniteSets

CONSTANTS
  AllowedStarts,    \* _ALLOWED_STARTS
  DenyTokens,       \* _DENY_TOKENS
  AllowedCatalogs,  \* execution.allowed_catalogs
  AllowedSchemas    \* execution.allowed_schemas

(* The empty string of the parser: an unqualified name.                    *)
None == "none"

Star == "*"

Unparsable == [op |-> "unparsable", cols |-> {}, parens |-> 0]

----------------------------------------------------------------------------
(* sql_guard.check: TRUE when it returns a report, FALSE on GuardError.    *)
Check(stmt) ==
  LET hit == stmt.tokens \cap DenyTokens
  IN  /\ stmt.parts = 1
      /\ stmt.first \in AllowedStarts
      /\ ~stmt.analyze
      /\ \/ hit = {}
         \/ stmt.first = "EXPLAIN" /\ hit = {"SET"}

(* _validate_namespaces: an unqualified CTE name is exempt, every other    *)
(* table must be fully qualified inside the allowed catalogs and schemas.  *)
ValidateNamespaces(stmt) ==
  /\ stmt.parses
  /\ \A t \in stmt.tables :
       \/ t.catalog = None /\ t.schema = None /\ t.name \in stmt.ctes
       \/ /\ t.catalog \in AllowedCatalogs
          /\ t.schema \in AllowedSchemas

----------------------------------------------------------------------------
(* artifact_sql_guard.build_allowlist.                                     *)
BuildAllowlist(payload) ==
  LET joined == UNION {UNION b.joins : b \in payload}
      listed == joined \cup UNION {b.cols : b \in payload}
  IN  [tables  |-> {b.base : b \in {x \in payload : x.base # None}}
                     \cup {c[1] : c \in listed},
       columns |-> {c \in listed : c[2] # None},
       edges   |-> UNION {b.joins : b \in payload},
       filters |-> UNION {b.filters : b \in payload}]

(* The tables of a scope, CTE references left out.                         *)
AliasMap(stmt, sel) ==
  [x \in {y \in DOMAIN sel.from : sel.from[y] \notin stmt.ctes} |-> sel.from[x]]

ScopeTables(stmt, sel) ==
  LET m == AliasMap(stmt, sel) IN {m[x] : x \in DOMAIN m}

(* Mutation: conjuncts are compared as written.                            *)
PredicateAsWritten(pred, m, tables) == pred

(* _canonical_predicate: qualify every column of a conjunct by the real    *)
(* table, an unqualified one only when the scope has a single table.       *)
CanonicalPredicate(pred, m, tables) ==
  [pred EXCEPT !.cols =
     {<<IF c[1] \in DOMAIN m THEN m[c[1]]
        ELSE IF c[1] = None /\ Cardinality(tables) = 1
             THEN CHOOSE t \in tables : TRUE
             ELSE c[1], c[2]>> : c \in @}]

(* Mutation: an unqualified column must belong to exactly one table.       *)
BadColumnAmbiguous(stmt, sel, allow, c) ==
  LET m        == AliasMap(stmt, sel)
      resolved == IF c[1] \in DOMAIN m THEN m[c[1]] ELSE c[1]
      owners   == {t \in ScopeTables(stmt, sel) : <<t, c[2]>> \in allow.columns}
  IN  /\ c[2] # Star
      /\ IF c[1] # None
         THEN resolved \in allow.tables /\ <<resolved, c[2]>> \notin allow.columns
         ELSE c[2] \notin sel.outs /\ Cardinality(owners) # 1

(* A column reference the allowlist does not know.                         *)
BadColumn(stmt, sel, allow, c) ==
  LET m        == AliasMap(stmt, sel)
      resolved == IF c[1] \in DOMAIN m THEN m[c[1]] ELSE c[1]
      scope    == ScopeTables(stmt, sel)
  IN  IF c[1] # None
      THEN /\ c[1] \notin stmt.ctes
           /\ resolved \notin stmt.ctes
           /\ resolved \in allow.tables
           /\ c[2] # Star
           /\ <<resolved, c[2]>> \notin allow.columns
      ELSE /\ c[2] # Star
           /\ c[2] \notin sel.outs
           /\ IF Cardinality(scope) = 1
              THEN \A t \in scope : <<t, c[2]>> \notin allow.columns
              ELSE /\ scope # {}
                   /\ \A k \in allow.columns : k[2] # c[2]

(* A join condition between two tables that no artifact join declares.     *)
BadJoin(stmt, sel, allow, eq) ==
  LET m == AliasMap(stmt, sel)
      l == eq[1]
      r == eq[2]
  IN  /\ l[1] \in DOMAIN m
      /\ r[1] \in DOMAIN m
      /\ m[l[1]] # m[r[1]]
      /\ {<<m[l[1]], l[2]>>, <<m[r[1]], r[2]>>} \notin allow.edges

(* Mutation: only a WHERE of exactly one predicate is looked at.           *)
MissingSoleFilter(stmt, sel, f) ==
  LET m     == AliasMap(stmt, sel)
      scope == ScopeTables(stmt, sel)
  IN  /\ {c[1] : c \in f.cols} \cap scope # {}
      /\ {f} # {CanonicalPredicate(p, m, scope) : p \in sel.where}

(* A mandatory filter on a table of the scope that is not a conjunct.      *)
MissingFilter(stmt, sel, f) ==
  LET m     == AliasMap(stmt, sel)
      scope == ScopeTables(stmt, sel)
  IN  /\ {c[1] : c \in f.cols} \cap scope # {}
      /\ f \notin {CanonicalPredicate(p, m, scope) : p \in sel.where}

(* Parsing a mandatory filter raises inside the scope loop.                *)
FilterRaises(stmt, allow) ==
  /\ Unparsable \in allow.filters
  /\ \E sel \in stmt.selects : ScopeTables(stmt, sel) # {}

(* validate_sql_against_artifact returned no violation.                    *)
Allowed(stmt, allow) ==
  /\ stmt.selects # {}
  /\ ~stmt.command
  /\ \A t \in stmt.tables : t.name \in stmt.ctes \cup allow.tables
  /\ \A sel \in stmt.selects :
       /\ \A c \in sel.cols : ~BadColumn(stmt, sel, allow, c)
       /\ \A eq \in sel.eqs : ~BadJoin(stmt, sel, allow, eq)
       /\ \A f \in allow.filters : ~MissingFilter(stmt, sel, f)

(* enforce: an early return of the validator comes before any filter is    *)
(* parsed, so a broken filter only raises on a SELECT.                     *)
Enforce(stmt, payload) ==
  LET allow == BuildAllowlist(payload)
  IN  IF stmt.selects # {} /\ ~stmt.command /\ FilterRaises(stmt, allow)
      THEN "raise"
      ELSE IF Allowed(stmt, allow) THEN "pass" ELSE "reject"

(* The try block of query_runner_mindsdb.execute: all guards in order, the *)
(* artifact guard only when the request named an artifact.                 *)
Guard(stmt, hasPayload, payload) ==
  IF ~Check(stmt) \/ ~ValidateNamespaces(stmt) THEN "reject"
  ELSE IF hasPayload THEN Enforce(stmt, payload)
  ELSE "pass"

============================================================================
