-------------------------- MODULE GuardLaws_proofs --------------------------
(***************************************************************************)
(* The laws of GuardLaws for every set of statements, artifacts, grants,   *)
(* conjuncts and renamings.  A behaviour has one step, so the work is in   *)
(* the lemmas: each check of a scope is compared on the two inputs, then   *)
(* Allowed, then Guard.                                                    *)
(***************************************************************************)
EXTENDS GuardLaws, TLAPS

(* What a verdict is: the guards' answer on the inputs picked at first.    *)
Judged ==
  /\ stmt \in Statements
  /\ payload \in Payloads
  /\ verdict # None => verdict = Guard(stmt, TRUE, payload)

THEOREM VerdictIsGuard == Spec => []Judged
<1>1. Init => Judged
  BY DEF Init, Judged
<1>2. Judged /\ [Next]_vars => Judged'
  BY DEF Judged, Next, Judge, vars
<1> QED
  BY <1>1, <1>2, PTL DEF Spec

----------------------------------------------------------------------------
(* A new name for a qualifier is a name again, two qualifiers get the same *)
(* name only if they are the same, and None stays None.                    *)
LEMMA NewNames ==
  ASSUME NEW new \in Renamings
  PROVE  /\ \A q \in Names \cup {None} : NewName(new, q) \in Names \cup {None}
         /\ \A q \in Names \cup {None} : NewName(new, q) = None <=> q = None
         /\ \A q, r \in Names \cup {None} : NewName(new, q) = NewName(new, r) => q = r
  BY StatementsAssumption, RenamingsAssumption DEF NewName

(* The aliases of a scope and what they stand for, under new names.        *)
LEMMA NewFroms ==
  ASSUME NEW new \in Renamings, NEW sel \in SelectScope
  PROVE  /\ sel.from \in [DOMAIN sel.from -> Names]
         /\ DOMAIN sel.from \subseteq Names
         /\ DOMAIN NewFrom(new, sel.from) = {new[x] : x \in DOMAIN sel.from}
         /\ \A x \in DOMAIN sel.from : NewFrom(new, sel.from)[new[x]] = sel.from[x]
<1>1. sel.from \in [DOMAIN sel.from -> Names] /\ DOMAIN sel.from \subseteq Names
  BY DEF SelectScope
<1>2. ASSUME NEW x \in DOMAIN sel.from
      PROVE  NewFrom(new, sel.from)[new[x]] = sel.from[x]
  <2>1. (CHOOSE y \in DOMAIN sel.from : new[y] = new[x]) = x
    BY <1>1, RenamingsAssumption
  <2> QED
    BY <2>1 DEF NewFrom
<1> QED
  BY <1>1, <1>2 DEF NewFrom

(* The parts of a statement and of a scope that new names leave alone, and *)
(* those they rewrite.                                                     *)
LEMMA NewStatement ==
  ASSUME NEW new \in Renamings, NEW s \in Statement
  PROVE  /\ Renamed(new, s).selects = {NewScope(new, sel) : sel \in s.selects}
         /\ Renamed(new, s).ctes = s.ctes
         /\ Renamed(new, s).tables = s.tables
         /\ Renamed(new, s).parts = s.parts
         /\ Renamed(new, s).first = s.first
         /\ Renamed(new, s).analyze = s.analyze
         /\ Renamed(new, s).tokens = s.tokens
         /\ Renamed(new, s).parses = s.parses
         /\ Renamed(new, s).command = s.command
  BY DEF Renamed, Statement

LEMMA NewScopes ==
  ASSUME NEW new \in Renamings, NEW sel \in SelectScope
  PROVE  /\ NewScope(new, sel).from = NewFrom(new, sel.from)
         /\ NewScope(new, sel).outs = sel.outs
         /\ NewScope(new, sel).cols = {NewColumn(new, c) : c \in sel.cols}
         /\ NewScope(new, sel).eqs =
              {<<NewColumn(new, e[1]), NewColumn(new, e[2])>> : e \in sel.eqs}
         /\ NewScope(new, sel).where = {NewPredicate(new, p) : p \in sel.where}
  BY DEF NewScope, SelectScope

(* alias_map under new names: the same tables under the new aliases.       *)
LEMMA NewAliasMap ==
  ASSUME NEW new \in Renamings, NEW s \in Statement, NEW sel \in s.selects
  PROVE  LET m == AliasMap(s, sel)
             n == AliasMap(Renamed(new, s), NewScope(new, sel))
         IN  /\ DOMAIN m \subseteq Names
             /\ DOMAIN n = {new[x] : x \in DOMAIN m}
             /\ \A x \in DOMAIN m : n[new[x]] = m[x]
             /\ \A x \in DOMAIN m : m[x] \in Names
             /\ ScopeTables(Renamed(new, s), NewScope(new, sel)) = ScopeTables(s, sel)
<1> DEFINE m == AliasMap(s, sel)
           n == AliasMap(Renamed(new, s), NewScope(new, sel))
<1>0. sel \in SelectScope
  BY DEF Statement
<1>1. /\ DOMAIN m = {y \in DOMAIN sel.from : sel.from[y] \notin s.ctes}
      /\ \A x \in DOMAIN m : m[x] = sel.from[x]
  BY DEF AliasMap
<1>2. /\ DOMAIN n = {y \in DOMAIN NewFrom(new, sel.from) :
                       NewFrom(new, sel.from)[y] \notin s.ctes}
      /\ \A x \in DOMAIN n : n[x] = NewFrom(new, sel.from)[x]
  BY <1>0, NewStatement, NewScopes DEF AliasMap
<1> HIDE DEF m, n
<1>f. /\ sel.from \in [DOMAIN sel.from -> Names]
      /\ DOMAIN sel.from \subseteq Names
      /\ DOMAIN NewFrom(new, sel.from) = {new[x] : x \in DOMAIN sel.from}
      /\ \A x \in DOMAIN sel.from : NewFrom(new, sel.from)[new[x]] = sel.from[x]
  BY <1>0, NewFroms
<1>3. DOMAIN m \subseteq Names /\ \A x \in DOMAIN m : m[x] \in Names
  BY <1>1, <1>f
<1>4. DOMAIN n = {new[x] : x \in DOMAIN m}
  <2>1. \A y \in DOMAIN n : \E x \in DOMAIN m : y = new[x]
    BY <1>1, <1>2, <1>f
  <2>2. \A x \in DOMAIN m : new[x] \in DOMAIN n
    BY <1>1, <1>2, <1>f
  <2> QED
    BY <2>1, <2>2
<1>5. \A x \in DOMAIN m : n[new[x]] = m[x]
  BY <1>1, <1>2, <1>4, <1>f
<1>6. {n[y] : y \in DOMAIN n} = {m[x] : x \in DOMAIN m}
  BY <1>4, <1>5
<1> QED
  BY <1>3, <1>4, <1>5, <1>6 DEF m, n, ScopeTables

(* A qualifier resolves under new names exactly when it did before.        *)
LEMMA NewResolution ==
  ASSUME NEW new \in Renamings, NEW s \in Statement, NEW sel \in s.selects,
         NEW q \in Names \cup {None}
  PROVE  NewName(new, q) \in DOMAIN AliasMap(Renamed(new, s), NewScope(new, sel))
           <=> q \in DOMAIN AliasMap(s, sel)
<1> DEFINE m == AliasMap(s, sel)
           n == AliasMap(Renamed(new, s), NewScope(new, sel))
<1>1. DOMAIN m \subseteq Names /\ DOMAIN n = {new[x] : x \in DOMAIN m}
  BY NewAliasMap
<1> HIDE DEF m, n
<1>2. new \in [Names -> Names]
  BY RenamingsAssumption
<1>3. CASE q = None
  BY <1>1, <1>2, <1>3, StatementsAssumption DEF NewName, m, n
<1>4. CASE q \in Names
  BY <1>1, <1>4, RenamingsAssumption, StatementsAssumption DEF NewName, m, n
<1> QED
  BY <1>3, <1>4

(* The columns of a scope are typed and their qualifiers are the scope's.  *)
LEMMA ScopeColumns ==
  ASSUME NEW sel \in SelectScope
  PROVE  /\ \A c \in sel.cols : c \in ColumnRef /\ c[1] \in Qualifiers(sel)
         /\ \A p \in sel.where : /\ p = [op |-> p.op, cols |-> p.cols, parens |-> p.parens]
                                 /\ \A c \in p.cols : c \in ColumnRef /\ c[1] \in Qualifiers(sel)
         /\ \A e \in sel.eqs : /\ e[1] \in ColumnRef /\ e[1][1] \in Qualifiers(sel)
                               /\ e[2] \in ColumnRef /\ e[2][1] \in Qualifiers(sel)
<1> DEFINE ends == {{e[1], e[2]} : e \in sel.eqs}
           refs == sel.cols \cup (UNION {p.cols : p \in sel.where}) \cup (UNION ends)
<1>1. \A c \in refs : c[1] \in Qualifiers(sel)
  BY DEF Qualifiers
<1>2. /\ sel.cols \subseteq ColumnRef
      /\ sel.eqs \subseteq ColumnRef \X ColumnRef
      /\ sel.where \subseteq Predicate
  BY DEF SelectScope
<1>3. \A c \in sel.cols : c \in refs
  OBVIOUS
<1>4. \A p \in sel.where : \A c \in p.cols : c \in refs
  OBVIOUS
<1>5. ASSUME NEW e \in sel.eqs
      PROVE  e[1] \in refs /\ e[2] \in refs
  <2>1. {e[1], e[2]} \in ends
    OBVIOUS
  <2> HIDE DEF ends
  <2>2. e[1] \in UNION ends /\ e[2] \in UNION ends
    BY <2>1
  <2> QED
    BY <2>2
<1> HIDE DEF refs
<1>6. \A p \in sel.where : p = [op |-> p.op, cols |-> p.cols, parens |-> p.parens] /\ p.cols \subseteq ColumnRef
  BY <1>2 DEF Predicate
<1>7. \A e \in sel.eqs : e[1] \in ColumnRef /\ e[2] \in ColumnRef
  BY <1>2
<1> QED
  BY <1>1, <1>2, <1>3, <1>4, <1>5, <1>6, <1>7

LEMMA ColumnRefs ==
  ASSUME NEW c \in ColumnRef
  PROVE  c = <<c[1], c[2]>> /\ c[1] \in Names \cup {None}
  BY DEF ColumnRef

(* The column check gives the same answer on a column under new names.     *)
LEMMA SameColumns ==
  ASSUME NEW new \in Renamings, NEW s \in Statement, NEW p, OnlyAliases(new, s, p),
         NEW sel \in s.selects, NEW c \in sel.cols
  PROVE  BadColumn(Renamed(new, s), NewScope(new, sel), BuildAllowlist(p), NewColumn(new, c))
           <=> BadColumn(s, sel, BuildAllowlist(p), c)
<1> DEFINE allow == BuildAllowlist(p)
           m == AliasMap(s, sel)
           n == AliasMap(Renamed(new, s), NewScope(new, sel))
           d == NewColumn(new, c)
<1>0. sel \in SelectScope
  BY DEF Statement
<1>1. c \in ColumnRef /\ c[1] \in Qualifiers(sel) /\ c[1] \in Names \cup {None}
  BY <1>0, ScopeColumns, ColumnRefs
<1>2. d[1] = NewName(new, c[1]) /\ d[2] = c[2]
  BY DEF NewColumn
<1>3. ScopeTables(Renamed(new, s), NewScope(new, sel)) = ScopeTables(s, sel)
  BY NewAliasMap
<1>4. Renamed(new, s).ctes = s.ctes /\ NewScope(new, sel).outs = sel.outs
  BY <1>0, NewStatement, NewScopes
<1>5. d[1] \in DOMAIN n <=> c[1] \in DOMAIN m
  BY <1>1, <1>2, NewResolution
<1>6. d[1] = None <=> c[1] = None
  BY <1>1, <1>2, NewNames
<1>7. CASE c[1] = None
  BY <1>2, <1>3, <1>4, <1>6, <1>7 DEF BadColumn
<1>8. CASE c[1] # None /\ c[1] \in DOMAIN m
  <2>1. n[d[1]] = m[c[1]]
    BY <1>2, <1>8, NewAliasMap DEF NewName
  <2>2. d[1] \in s.ctes <=> c[1] \in s.ctes
    BY <1>1, <1>2, <1>8 DEF OnlyAliases, NewName
  <2> QED
    BY <1>2, <1>4, <1>5, <1>6, <1>8, <2>1, <2>2 DEF BadColumn
<1>9. CASE c[1] # None /\ c[1] \notin DOMAIN m
  <2>1. d[1] = new[c[1]]
    BY <1>2, <1>9 DEF NewName
  <2>2. d[1] \in s.ctes <=> c[1] \in s.ctes
    BY <1>1, <1>9, <2>1 DEF OnlyAliases
  <2>3. d[1] = c[1] \/ (d[1] \notin allow.tables /\ c[1] \notin allow.tables)
    BY <1>1, <1>9, <2>1 DEF OnlyAliases, Unresolved, NamesOf, TablesOf
  <2> QED
    BY <1>2, <1>4, <1>5, <1>6, <1>9, <2>2, <2>3 DEF BadColumn
<1> QED
  BY <1>7, <1>8, <1>9

(* The join check gives the same answer on an equality under new names.    *)
LEMMA SameJoins ==
  ASSUME NEW new \in Renamings, NEW s \in Statement, NEW allow,
         NEW sel \in s.selects, NEW e \in sel.eqs
  PROVE  BadJoin(Renamed(new, s), NewScope(new, sel), allow,
                 <<NewColumn(new, e[1]), NewColumn(new, e[2])>>)
           <=> BadJoin(s, sel, allow, e)
<1> DEFINE m == AliasMap(s, sel)
           n == AliasMap(Renamed(new, s), NewScope(new, sel))
           l == NewColumn(new, e[1])
           r == NewColumn(new, e[2])
<1>1. e[1][1] \in Names \cup {None} /\ e[2][1] \in Names \cup {None}
  BY ScopeColumns, ColumnRefs DEF Statement
<1>2. /\ l[1] = NewName(new, e[1][1]) /\ l[2] = e[1][2]
      /\ r[1] = NewName(new, e[2][1]) /\ r[2] = e[2][2]
  BY DEF NewColumn
<1>3. /\ l[1] \in DOMAIN n <=> e[1][1] \in DOMAIN m
      /\ r[1] \in DOMAIN n <=> e[2][1] \in DOMAIN m
  BY <1>1, <1>2, NewResolution
<1>4. /\ e[1][1] \in DOMAIN m => n[l[1]] = m[e[1][1]]
      /\ e[2][1] \in DOMAIN m => n[r[1]] = m[e[2][1]]
  <2>1. DOMAIN m \subseteq Names /\ \A x \in DOMAIN m : n[new[x]] = m[x]
    BY NewAliasMap
  <2>2. \A x \in DOMAIN m : NewName(new, x) = new[x]
    BY <2>1, StatementsAssumption DEF NewName
  <2> QED
    BY <1>2, <2>1, <2>2
<1> QED
  BY <1>2, <1>3, <1>4 DEF BadJoin

(* A conjunct is the mandatory filter f under new names exactly when it    *)
(* was before: a qualifier that resolves is replaced by the same table,    *)
(* and one that does not resolve is kept, or no filter mentions it.        *)
LEMMA SameConjunct ==
  ASSUME NEW new \in Renamings, NEW s \in Statement, NEW p, OnlyAliases(new, s, p),
         NEW sel \in s.selects, NEW w \in sel.where, NEW tables,
         NEW f \in BuildAllowlist(p).filters
  PROVE  CanonicalPredicate(NewPredicate(new, w),
                            AliasMap(Renamed(new, s), NewScope(new, sel)), tables) = f
           <=> CanonicalPredicate(w, AliasMap(s, sel), tables) = f
<1> DEFINE m == AliasMap(s, sel)
           n == AliasMap(Renamed(new, s), NewScope(new, sel))
           sole == CHOOSE t \in tables : TRUE
           Pred(C) == [op |-> w.op, cols |-> C, parens |-> w.parens]
           Real(c, k) == <<IF c[1] \in DOMAIN k THEN k[c[1]]
                           ELSE IF c[1] = None /\ Cardinality(tables) = 1
                                THEN sole ELSE c[1], c[2]>>
           Kept(c) == c[1] = None \/ c[1] \in DOMAIN m \/ new[c[1]] = c[1]
<1>1. /\ w = Pred(w.cols)
      /\ \A c \in w.cols : c[1] \in Names \cup {None} /\ c[1] \in Qualifiers(sel)
  BY ScopeColumns, ColumnRefs DEF Statement
<1>2. /\ CanonicalPredicate(w, m, tables) = Pred({Real(c, m) : c \in w.cols})
      /\ CanonicalPredicate(NewPredicate(new, w), n, tables)
           = Pred({Real(c, n) : c \in {NewColumn(new, d) : d \in w.cols}})
  <2>1. \A C : NewPredicate(new, Pred(C)) = Pred({NewColumn(new, d) : d \in C})
    <3>1. \A C, D : [Pred(C) EXCEPT !.cols = D] = Pred(D)
      OBVIOUS
    <3>2. \A C : Pred(C).cols = C
      OBVIOUS
    <3> HIDE DEF Pred
    <3> QED
      BY <3>1, <3>2 DEF NewPredicate
  <2>2. \A C, k : CanonicalPredicate(Pred(C), k, tables) = Pred({Real(c, k) : c \in C})
    BY DEF CanonicalPredicate
  <2> DEFINE v == Pred(w.cols)
  <2>3. w = v
    BY <1>1
  <2>4. CanonicalPredicate(v, m, tables) = Pred({Real(c, m) : c \in w.cols})
    BY <2>2
  <2> DEFINE C == {NewColumn(new, d) : d \in w.cols}
  <2>5. NewPredicate(new, v) = Pred(C)
    BY <2>1
  <2> HIDE DEF v, m, n, sole, C
  <2>6. CanonicalPredicate(Pred(C), n, tables) = Pred({Real(c, n) : c \in C})
    BY <2>2
  <2> HIDE DEF Real
  <2> QED
    BY <2>3, <2>4, <2>5, <2>6 DEF C
<1>3. /\ DOMAIN m \subseteq Names
      /\ \A x \in DOMAIN m : n[new[x]] = m[x]
  BY NewAliasMap
<1>4. \A c \in w.cols : NewColumn(new, c)[1] \in DOMAIN n <=> c[1] \in DOMAIN m
  BY <1>1, NewResolution DEF NewColumn
<1>5. \A c \in w.cols : NewColumn(new, c)[1] = None <=> c[1] = None
  BY <1>1, NewNames DEF NewColumn
<1>6. \A c \in w.cols : NewColumn(new, c)[2] = c[2]
  BY DEF NewColumn
<1>7. \A c \in w.cols : c[1] # None => NewColumn(new, c)[1] = new[c[1]]
  BY DEF NewColumn, NewName
<1> HIDE DEF m, n, sole
<1>8. CASE \A c \in w.cols : Kept(c)
  <2>1. ASSUME NEW c \in w.cols
        PROVE  Real(NewColumn(new, c), n) = Real(c, m)
    <3>1. CASE c[1] \in DOMAIN m
      BY <1>3, <1>4, <1>6, <1>7, <3>1, StatementsAssumption
    <3>2. CASE c[1] \notin DOMAIN m /\ c[1] = None
      BY <1>4, <1>5, <1>6, <3>2
    <3>3. CASE c[1] \notin DOMAIN m /\ c[1] # None
      BY <1>4, <1>5, <1>6, <1>7, <1>8, <3>3
    <3> QED
      BY <3>1, <3>2, <3>3
  <2>2. {Real(c, n) : c \in {NewColumn(new, d) : d \in w.cols}} = {Real(c, m) : c \in w.cols}
    BY <2>1
  <2> QED
    BY <1>2, <2>2 DEF m, n
<1>9. CASE \E c \in w.cols : ~Kept(c)
  <2>1. PICK c \in w.cols : ~Kept(c)
    BY <1>9
  <2>2. {c[1], new[c[1]]} \cap NamesOf(p) = {}
    BY <1>1, <2>1 DEF OnlyAliases, Unresolved, m
  <2>3. \A d \in f.cols : d[1] \in NamesOf(p)
    BY DEF NamesOf
  <2>4. Real(c, m)[1] = c[1] /\ Real(NewColumn(new, c), n)[1] = new[c[1]]
    BY <1>4, <1>5, <1>7, <2>1
  <2>5. Real(c, m) \notin f.cols /\ Real(NewColumn(new, c), n) \notin f.cols
    BY <2>2, <2>3, <2>4
  <2>6. /\ Real(c, m) \in CanonicalPredicate(w, m, tables).cols
        /\ Real(NewColumn(new, c), n) \in CanonicalPredicate(NewPredicate(new, w), n, tables).cols
    BY <1>2, <2>1
  <2> QED
    BY <2>5, <2>6 DEF m, n
<1> QED
  BY <1>8, <1>9

(* The filter check gives the same answer on a scope under new names.      *)
LEMMA SameFilters ==
  ASSUME NEW new \in Renamings, NEW s \in Statement, NEW p, OnlyAliases(new, s, p),
         NEW sel \in s.selects, NEW f \in BuildAllowlist(p).filters
  PROVE  MissingFilter(Renamed(new, s), NewScope(new, sel), f) <=> MissingFilter(s, sel, f)
<1> DEFINE m == AliasMap(s, sel)
           n == AliasMap(Renamed(new, s), NewScope(new, sel))
           T == ScopeTables(s, sel)
<1>1. ScopeTables(Renamed(new, s), NewScope(new, sel)) = T
  BY NewAliasMap
<1>2. NewScope(new, sel).where = {NewPredicate(new, w) : w \in sel.where}
  BY NewScopes DEF Statement
<1>3. \A w \in sel.where :
        CanonicalPredicate(NewPredicate(new, w), n, T) = f <=> CanonicalPredicate(w, m, T) = f
  BY SameConjunct
<1>4. f \in {CanonicalPredicate(w, n, T) : w \in NewScope(new, sel).where}
        <=> f \in {CanonicalPredicate(w, m, T) : w \in sel.where}
  BY <1>2, <1>3
<1> QED
  BY <1>1, <1>4 DEF MissingFilter

----------------------------------------------------------------------------
(* The guards' verdict does not depend on the aliases.                     *)
LEMMA SameVerdict ==
  ASSUME NEW new \in Renamings, NEW s \in Statement, NEW p, OnlyAliases(new, s, p)
  PROVE  Guard(Renamed(new, s), TRUE, p) = Guard(s, TRUE, p)
<1> DEFINE r == Renamed(new, s)
           allow == BuildAllowlist(p)
<1>1. Check(r) <=> Check(s)
  BY NewStatement DEF Check
<1>2. ValidateNamespaces(r) <=> ValidateNamespaces(s)
  BY NewStatement DEF ValidateNamespaces
<1>3. r.selects = {NewScope(new, sel) : sel \in s.selects}
  BY NewStatement
<1>4. r.selects = {} <=> s.selects = {}
  BY <1>3
<1>5. FilterRaises(r, allow) <=> FilterRaises(s, allow)
  <2>1. \A sel \in s.selects : ScopeTables(r, NewScope(new, sel)) = ScopeTables(s, sel)
    BY NewAliasMap
  <2> QED
    BY <1>3, <2>1 DEF FilterRaises
<1>6. Allowed(r, allow) <=> Allowed(s, allow)
  <2> DEFINE Good(st, sel) ==
        /\ \A c \in sel.cols : ~BadColumn(st, sel, allow, c)
        /\ \A eq \in sel.eqs : ~BadJoin(st, sel, allow, eq)
        /\ \A f \in allow.filters : ~MissingFilter(st, sel, f)
  <2>1. ASSUME NEW sel \in s.selects
        PROVE  Good(r, NewScope(new, sel)) <=> Good(s, sel)
    <3>1. /\ NewScope(new, sel).cols = {NewColumn(new, c) : c \in sel.cols}
          /\ NewScope(new, sel).eqs =
               {<<NewColumn(new, e[1]), NewColumn(new, e[2])>> : e \in sel.eqs}
      BY NewScopes DEF Statement
    <3>2. \A c \in sel.cols : BadColumn(r, NewScope(new, sel), allow, NewColumn(new, c))
                               <=> BadColumn(s, sel, allow, c)
      BY SameColumns
    <3>3. \A e \in sel.eqs :
            BadJoin(r, NewScope(new, sel), allow, <<NewColumn(new, e[1]), NewColumn(new, e[2])>>)
              <=> BadJoin(s, sel, allow, e)
      BY SameJoins
    <3>4. \A f \in allow.filters :
            MissingFilter(r, NewScope(new, sel), f) <=> MissingFilter(s, sel, f)
      BY SameFilters
    <3>5. (\A c \in NewScope(new, sel).cols : ~BadColumn(r, NewScope(new, sel), allow, c))
            <=> (\A c \in sel.cols : ~BadColumn(s, sel, allow, c))
      BY <3>1, <3>2
    <3>6. (\A e \in NewScope(new, sel).eqs : ~BadJoin(r, NewScope(new, sel), allow, e))
            <=> (\A e \in sel.eqs : ~BadJoin(s, sel, allow, e))
      BY <3>1, <3>3
    <3> QED
      BY <3>4, <3>5, <3>6
  <2>2. Allowed(r, allow) <=> /\ r.selects # {} /\ ~r.command
                              /\ \A t \in r.tables : t.name \in r.ctes \cup allow.tables
                              /\ \A sel \in r.selects : Good(r, sel)
    BY DEF Allowed
  <2>3. Allowed(s, allow) <=> /\ s.selects # {} /\ ~s.command
                              /\ \A t \in s.tables : t.name \in s.ctes \cup allow.tables
                              /\ \A sel \in s.selects : Good(s, sel)
    BY DEF Allowed
  <2> HIDE DEF Good
  <2>4. (\A sel \in r.selects : Good(r, sel)) <=> (\A sel \in s.selects : Good(s, sel))
    BY <1>3, <2>1
  <2> QED
    BY <1>4, <2>2, <2>3, <2>4, NewStatement
<1>7. Enforce(r, p) = Enforce(s, p)
  BY <1>4, <1>5, <1>6, NewStatement DEF Enforce
<1> QED
  BY <1>1, <1>2, <1>7 DEF Guard

(* artifact_sql_guard.py:125-131 and 59-68: no choice of aliases changes   *)
(* the verdict on a statement, whatever the statement and the artifact.    *)
THEOREM AliasesAreFree == Spec => []AliasesDoNotMatter
<1>1. Judged => AliasesDoNotMatter
  BY SameVerdict, StatementsAssumption DEF Judged, AliasesDoNotMatter
<1> QED
  BY <1>1, VerdictIsGuard, PTL

----------------------------------------------------------------------------
(* What an accepted statement satisfies, and the converse: the guards are  *)
(* a conjunction of their checks.                                          *)
LEMMA PassIsAllowed ==
  ASSUME NEW s, NEW p
  PROVE  Guard(s, TRUE, p) = "pass"
           <=> /\ Check(s) /\ ValidateNamespaces(s)
               /\ ~FilterRaises(s, BuildAllowlist(p))
               /\ Allowed(s, BuildAllowlist(p))
  BY DEF Guard, Enforce, Allowed

(* A mandatory filter found in a WHERE is found in a longer one, unless it *)
(* is an OR without parentheses.                                           *)
LEMMA FilterStays ==
  ASSUME NEW s \in Statement, NEW sel \in s.selects, NEW p \in Predicate, NEW f,
         ~MissingFilter(s, sel, f)
  PROVE  MissingFilter(Narrowed(s, sel, p), NarrowedScope(sel, p), f)
           <=> {c[1] : c \in f.cols} \cap ScopeTables(s, sel) # {} /\ BareOr(f)
<1> DEFINE t == NarrowedScope(sel, p)
           n == Narrowed(s, sel, p)
           m == AliasMap(s, sel)
           T == ScopeTables(s, sel)
           Applies == {c[1] : c \in f.cols} \cap T # {}
<1>1. t.from = sel.from /\ t.where = Conjoined(sel.where, p)
  BY DEF Statement, SelectScope, NarrowedScope
<1>2. n.ctes = s.ctes
  BY DEF Narrowed, Statement
<1>3. AliasMap(n, t) = m
  BY <1>1, <1>2 DEF AliasMap
<1>4. ScopeTables(n, t) = T
  BY <1>3 DEF ScopeTables
<1>5. MissingFilter(n, t, f)
        <=> Applies /\ f \notin {CanonicalPredicate(q, m, T) : q \in Conjoined(sel.where, p)}
  BY <1>1, <1>3, <1>4 DEF MissingFilter
<1>6. Applies => \E q \in sel.where : f = CanonicalPredicate(q, m, T)
  BY DEF MissingFilter
<1>7. \A q \in sel.where \cup {p} :
        /\ q \in Predicate
        /\ CanonicalPredicate(q, m, T).op = q.op
        /\ CanonicalPredicate(q, m, T).parens = q.parens
  <2>1. \A q \in sel.where \cup {p} : q \in Predicate
    BY DEF Statement, SelectScope
  <2> HIDE DEF m, T
  <2>2. \A q \in Predicate : /\ CanonicalPredicate(q, m, T).op = q.op
                             /\ CanonicalPredicate(q, m, T).parens = q.parens
    BY DEF Predicate, CanonicalPredicate
  <2> QED
    BY <2>1, <2>2
<1> HIDE DEF t, n, m, T
<1>8. CASE ~Applies
  BY <1>5, <1>8 DEF n, t, T
<1>9. CASE Applies /\ ~BareOr(f)
  <2>1. PICK q \in sel.where : f = CanonicalPredicate(q, m, T)
    BY <1>6, <1>9
  <2>2. ~BareOr(q)
    BY <1>7, <1>9, <2>1 DEF BareOr
  <2>3. q \in Conjoined(sel.where, p)
    BY <2>2 DEF Conjoined, Bracketed
  <2> QED
    BY <1>5, <1>9, <2>1, <2>3 DEF n, t
<1>10. CASE Applies /\ BareOr(f)
  <2>1. ASSUME NEW r \in Conjoined(sel.where, p) PROVE f # CanonicalPredicate(r, m, T)
    <3>1. PICK q \in sel.where \cup {p} : r = Bracketed(q)
      BY <1>6, <1>10 DEF Conjoined
    <3>2. r \in Predicate /\ ~BareOr(r)
      BY <1>7, <3>1 DEF Bracketed, BareOr, Predicate
    <3>3. CanonicalPredicate(r, m, T).op = r.op /\ CanonicalPredicate(r, m, T).parens = r.parens
      BY <3>2 DEF Predicate, CanonicalPredicate
    <3> QED
      BY <1>10, <3>2, <3>3 DEF BareOr
  <2> QED
    BY <1>5, <1>10, <2>1 DEF n, t, T
<1> QED
  BY <1>8, <1>9, <1>10

(* The verdict on a narrowed statement, from that on the original.         *)
LEMMA NarrowedPasses ==
  ASSUME NEW s \in Statement, NEW sel \in s.selects, NEW p \in Predicate, NEW q,
         Guard(s, TRUE, q) = "pass"
  PROVE  Guard(Narrowed(s, sel, p), TRUE, q) = "pass" <=> ~OrDemanded(s, sel, q)
<1> DEFINE t == NarrowedScope(sel, p)
           n == Narrowed(s, sel, p)
           allow == BuildAllowlist(q)
<1>1. /\ Check(s) /\ ValidateNamespaces(s)
      /\ ~FilterRaises(s, allow) /\ Allowed(s, allow)
  BY PassIsAllowed
<1>2. /\ n.parts = s.parts /\ n.first = s.first /\ n.analyze = s.analyze
      /\ n.tokens = s.tokens /\ n.parses = s.parses /\ n.command = s.command
      /\ n.ctes = s.ctes /\ n.tables = s.tables
      /\ n.selects = (s.selects \ {sel}) \cup {t}
  BY DEF Narrowed, Statement
<1>3. /\ t.from = sel.from /\ t.outs = sel.outs /\ t.cols = sel.cols /\ t.eqs = sel.eqs
  BY DEF Statement, SelectScope, NarrowedScope
<1>4. /\ AliasMap(n, t) = AliasMap(s, sel)
      /\ \A x \in s.selects : AliasMap(n, x) = AliasMap(s, x)
  BY <1>2, <1>3 DEF AliasMap
<1>5. /\ ScopeTables(n, t) = ScopeTables(s, sel)
      /\ \A x \in s.selects : ScopeTables(n, x) = ScopeTables(s, x)
  BY <1>4 DEF ScopeTables
<1>6. Check(n) /\ ValidateNamespaces(n)
  BY <1>1, <1>2 DEF Check, ValidateNamespaces
<1>7. ~FilterRaises(n, allow)
  BY <1>1, <1>2, <1>5 DEF FilterRaises
<1>8. Allowed(n, allow) <=> ~OrDemanded(s, sel, q)
  <2>1. n.selects # {} /\ ~n.command /\ \A x \in n.tables : x.name \in n.ctes \cup allow.tables
    BY <1>1, <1>2 DEF Allowed
  <2>2. ASSUME NEW x \in s.selects
        PROVE  /\ \A c \in x.cols : ~BadColumn(n, x, allow, c)
               /\ \A eq \in x.eqs : ~BadJoin(n, x, allow, eq)
               /\ \A f \in allow.filters : ~MissingFilter(n, x, f)
    <3>1. /\ \A c \in x.cols : ~BadColumn(s, x, allow, c)
          /\ \A eq \in x.eqs : ~BadJoin(s, x, allow, eq)
          /\ \A f \in allow.filters : ~MissingFilter(s, x, f)
      BY <1>1 DEF Allowed
    <3>2. \A c \in x.cols : BadColumn(n, x, allow, c) <=> BadColumn(s, x, allow, c)
      BY <1>2, <1>4, <1>5 DEF BadColumn
    <3>3. \A eq \in x.eqs : BadJoin(n, x, allow, eq) <=> BadJoin(s, x, allow, eq)
      BY <1>4 DEF BadJoin
    <3>4. \A f \in allow.filters : MissingFilter(n, x, f) <=> MissingFilter(s, x, f)
      BY <1>4, <1>5 DEF MissingFilter
    <3> QED
      BY <3>1, <3>2, <3>3, <3>4
  <2>3. /\ \A c \in t.cols : ~BadColumn(n, t, allow, c)
        /\ \A eq \in t.eqs : ~BadJoin(n, t, allow, eq)
    <3>1. /\ \A c \in sel.cols : ~BadColumn(s, sel, allow, c)
          /\ \A eq \in sel.eqs : ~BadJoin(s, sel, allow, eq)
      BY <1>1 DEF Allowed
    <3>2. \A c \in t.cols : ~BadColumn(n, t, allow, c)
      BY <1>2, <1>3, <1>4, <1>5, <3>1 DEF BadColumn
    <3> HIDE DEF n, t, allow
    <3>3. \A eq \in t.eqs : ~BadJoin(n, t, allow, eq)
      BY <1>3, <1>4, <3>1 DEF BadJoin
    <3> QED
      BY <3>2, <3>3
  <2>4. (\A f \in allow.filters : ~MissingFilter(n, t, f)) <=> ~OrDemanded(s, sel, q)
    <3>1. \A f \in allow.filters : ~MissingFilter(s, sel, f)
      BY <1>1 DEF Allowed
    <3>2. \A f \in allow.filters :
            MissingFilter(n, t, f)
              <=> {c[1] : c \in f.cols} \cap ScopeTables(s, sel) # {} /\ BareOr(f)
      BY <3>1, FilterStays
    <3> QED
      BY <3>2 DEF OrDemanded
  <2> HIDE DEF n, t, allow
  <2> QED
    BY <1>2, <2>1, <2>2, <2>3, <2>4 DEF Allowed
<1> QED
  BY <1>6, <1>7, <1>8, PassIsAllowed

(* artifact_sql_guard.py:71-76 and 178-197: one more conjunct turns an     *)
(* accepted statement into a rejected one exactly if the artifact demands  *)
(* a filter that is an OR without parentheses.                             *)
THEOREM NarrowingStaysAllowed == Spec => []NarrowingIsSafe
<1>1. Judged => NarrowingIsSafe
  BY NarrowedPasses, StatementsAssumption, ConjunctsAssumption DEF Judged, NarrowingIsSafe, None
<1> QED
  BY <1>1, VerdictIsGuard, PTL

----------------------------------------------------------------------------
(* The allowlist of an artifact grows with its bindings, and a grant adds  *)
(* no mandatory filter.                                                    *)
LEMMA AllowlistGrows ==
  ASSUME NEW p, NEW g, g.filters = {}
  PROVE  /\ TablesOf(p \cup {g}) = TablesOf(p) \cup TablesOf({g})
         /\ BuildAllowlist(p).columns \subseteq BuildAllowlist(p \cup {g}).columns
         /\ BuildAllowlist(p).edges \subseteq BuildAllowlist(p \cup {g}).edges
         /\ BuildAllowlist(p \cup {g}).filters = BuildAllowlist(p).filters
<1> DEFINE Based(q)  == {b.base : b \in {x \in q : x.base # None}}
           Listed(q) == (UNION {UNION b.joins : b \in q}) \cup (UNION {b.cols : b \in q})
<1>1. ASSUME NEW q
      PROVE  /\ TablesOf(q) = Based(q) \cup {c[1] : c \in Listed(q)}
             /\ BuildAllowlist(q).columns = {c \in Listed(q) : c[2] # None}
             /\ BuildAllowlist(q).edges = UNION {b.joins : b \in q}
             /\ BuildAllowlist(q).filters = UNION {b.filters : b \in q}
  BY DEF BuildAllowlist, TablesOf
<1>2. Based(p \cup {g}) = Based(p) \cup Based({g})
  OBVIOUS
<1>3. Listed(p \cup {g}) = Listed(p) \cup Listed({g})
  OBVIOUS
<1>4. (UNION {b.joins : b \in p}) \subseteq UNION {b.joins : b \in p \cup {g}}
  OBVIOUS
<1>5. UNION {b.filters : b \in p \cup {g}} = UNION {b.filters : b \in p}
  OBVIOUS
<1> HIDE DEF Based, Listed
<1>6. {c[1] : c \in Listed(p \cup {g})} = {c[1] : c \in Listed(p)} \cup {c[1] : c \in Listed({g})}
  BY <1>3
<1>7. TablesOf(p \cup {g}) = TablesOf(p) \cup TablesOf({g})
  <2> DEFINE Heads(q) == {c[1] : c \in Listed(q)}
  <2>1. \A q : TablesOf(q) = Based(q) \cup Heads(q)
    BY <1>1
  <2>2. Heads(p \cup {g}) = Heads(p) \cup Heads({g})
    BY <1>6
  <2> HIDE DEF Heads
  <2>3. /\ TablesOf(p) = Based(p) \cup Heads(p)
        /\ TablesOf({g}) = Based({g}) \cup Heads({g})
        /\ TablesOf(p \cup {g}) = Based(p \cup {g}) \cup Heads(p \cup {g})
    BY <2>1
  <2> QED
    BY <1>2, <2>2, <2>3
<1>8. BuildAllowlist(p).columns \subseteq BuildAllowlist(p \cup {g}).columns
  BY <1>1, <1>3
<1>9. BuildAllowlist(p).edges \subseteq BuildAllowlist(p \cup {g}).edges
  BY <1>1, <1>4
<1>10. BuildAllowlist(p \cup {g}).filters = BuildAllowlist(p).filters
  BY <1>1, <1>5
<1> QED
  BY <1>7, <1>8, <1>9, <1>10

(* A column an artifact knows is known to a richer one.                    *)
LEMMA ColumnStays ==
  ASSUME NEW s \in Statements, NEW sel \in s.selects, NEW c \in sel.cols,
         NEW p, NEW g, g.filters = {},
         Allowed(s, BuildAllowlist(p)),
         Unresolved(s, sel) \cap TablesOf({g}) \subseteq s.ctes \cup TablesOf(p)
  PROVE  ~BadColumn(s, sel, BuildAllowlist(p \cup {g}), c)
<1> DEFINE old == BuildAllowlist(p)
           rich == BuildAllowlist(p \cup {g})
           m == AliasMap(s, sel)
           resolved == IF c[1] \in DOMAIN m THEN m[c[1]] ELSE c[1]
<1>1. ~BadColumn(s, sel, old, c)
  BY DEF Allowed
<1>2. /\ rich.tables = old.tables \cup TablesOf({g})
      /\ old.columns \subseteq rich.columns
  <2>1. /\ TablesOf(p \cup {g}) = TablesOf(p) \cup TablesOf({g})
        /\ old.columns \subseteq rich.columns
    BY AllowlistGrows
  <2>2. TablesOf(p \cup {g}) = rich.tables /\ TablesOf(p) = old.tables
    BY DEF TablesOf
  <2> QED
    BY <2>1, <2>2
<1>3. ASSUME c[1] # None, c[1] \notin s.ctes, resolved \notin s.ctes, resolved \in rich.tables
      PROVE  resolved \in old.tables
  <2>1. CASE c[1] \in DOMAIN m
    <3>1. c[1] \in DOMAIN sel.from /\ resolved = sel.from[c[1]]
      BY <2>1 DEF AliasMap
    <3>2. resolved \in {t.name : t \in s.tables}
      BY <3>1, StatementsAssumption
    <3> QED
      BY <1>3, <3>2 DEF Allowed
  <2>2. CASE c[1] \notin DOMAIN m
    <3>1. c[1] \in Unresolved(s, sel)
      BY <1>3, <2>2 DEF Unresolved, Qualifiers
    <3> QED
      BY <1>2, <1>3, <2>2, <3>1 DEF TablesOf
  <2> QED
    BY <2>1, <2>2
<1> QED
  BY <1>1, <1>2, <1>3 DEF BadColumn

LEMMA RicherPasses ==
  ASSUME NEW s \in Statements, NEW p, NEW g, g.filters = {},
         \A sel \in s.selects :
           Unresolved(s, sel) \cap TablesOf({g}) \subseteq s.ctes \cup TablesOf(p),
         Guard(s, TRUE, p) = "pass"
  PROVE  Guard(s, TRUE, p \cup {g}) = "pass"
<1> DEFINE old == BuildAllowlist(p)
           rich == BuildAllowlist(p \cup {g})
<1>1. /\ Check(s) /\ ValidateNamespaces(s)
      /\ ~FilterRaises(s, old) /\ Allowed(s, old)
  BY PassIsAllowed
<1>2. /\ rich.tables = old.tables \cup TablesOf({g})
      /\ old.edges \subseteq rich.edges
      /\ rich.filters = old.filters
  BY AllowlistGrows DEF TablesOf
<1>3. ~FilterRaises(s, rich)
  BY <1>1, <1>2 DEF FilterRaises
<1>4. \A sel \in s.selects : \A c \in sel.cols : ~BadColumn(s, sel, rich, c)
  BY <1>1, ColumnStays
<1>5. \A sel \in s.selects : \A eq \in sel.eqs : ~BadJoin(s, sel, rich, eq)
  BY <1>1, <1>2 DEF Allowed, BadJoin
<1>6. Allowed(s, rich)
  BY <1>1, <1>2, <1>4, <1>5 DEF Allowed
<1> QED
  BY <1>1, <1>3, <1>6, PassIsAllowed

(* artifact_sql_guard.py:26-56 and 116-176: a richer artifact accepts all  *)
(* that the smaller one accepts.                                           *)
THEOREM GrantsOnlyAdd == Spec => []GrantsAreMonotone
<1>1. Judged => GrantsAreMonotone
  BY RicherPasses, StatementsAssumption, GrantsAssumption DEF Judged, GrantsAreMonotone, None
<1> QED
  BY <1>1, VerdictIsGuard, PTL
=============================================================================
