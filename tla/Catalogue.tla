----------------------------- MODULE Catalogue -----------------------------
(***************************************************************************)
(* The table catalogue behind /data_decision, as                           *)
(* app/services/metadata_repository.py reads it, and the loader that       *)
(* writes it (external).  Table ids are numbers, a column is a pair        *)
(* <<table, name>> and goes with its table.  What one question makes of    *)
(* the catalogue is constant: the similarity of each table, and the        *)
(* verified value mappings whose natural value the question contains.      *)
(***************************************************************************)
EXTENDS Naturals, FiniteSets

CONSTANTS
  Tables,       \* ids of t2s_tables
  Similarity,   \* [Tables -> percent], 1 - cosine distance to the question
  Searchable,   \* tables with a vector and text_to_sql_is_valid
  Minimum,      \* decision.minimum_similarity, in percent
  Columns,      \* columns, pairs of a table and a name
  Keys,         \* columns that are a primary key
  Ending,       \* what each column name ends in, as far as a query asks
  Name,         \* [Tables -> schema and name], without the database
  Fks,          \* rows of t2s_fk_constraints, [from, to, name]
  Mappings,     \* rows of t2s_value_mappings that match the question
  ColumnOf,     \* [Mappings -> Columns \cup {NoColumn}]
  NoColumn,     \* column_id is null
  MaxEdits      \* bound: number of writes the loader makes

VARIABLES
  tables,       \* table rows that exist
  fks,          \* foreign keys that exist
  mappings,     \* value mappings that exist and are verified
  edits         \* number of writes made so far (bounds the loader)

catalogueVars == <<tables, fks, mappings, edits>>

ASSUME CatalogueAssumption ==
  /\ Tables \subseteq Nat /\ IsFiniteSet(Tables)
  /\ Similarity \in [Tables -> 0..100] /\ Searchable \subseteq Tables
  /\ \A t, u \in Searchable : Similarity[t] = Similarity[u] => t = u
  /\ Minimum \in 0..100 /\ MaxEdits \in Nat
  /\ \A c \in Columns : c[1] \in Tables
  /\ Keys \subseteq Columns
  /\ \A f \in Fks : f.from \in Columns /\ f.to \in Columns
  /\ Ending \in [{c[2] : c \in Columns} -> {"_CODE", "[_]CODE", "SN", "other"}]
  /\ ColumnOf \in [Mappings -> Columns \cup {NoColumn}]

CatalogueTypeOK ==
  /\ tables \in SUBSET Tables
  /\ fks \in SUBSET Fks
  /\ mappings \in SUBSET Mappings
  /\ edits \in 0..MaxEdits

CatalogueInit ==
  tables = Tables /\ fks = Fks /\ mappings = Mappings /\ edits = 0

----------------------------------------------------------------------------
(* The queries of PostgresMetadataRepository, each one SELECT.             *)

(* search_tables, before its LIMIT                                         *)
Near == {t \in tables \cap Searchable : Similarity[t] >= Minimum}

(* Mutation: a null table_id counts as table 0.                            *)
MappedTablesNull(found) ==
  {IF ColumnOf[m] \in Columns /\ ColumnOf[m][1] \in tables
   THEN ColumnOf[m][1] ELSE 0 : m \in found}

(* find_value_mappings: a mapping whose table is gone has table_id null.   *)
MappedTables(found) ==
  {ColumnOf[m][1] : m \in {n \in found : /\ ColumnOf[n] \in Columns
                                         /\ ColumnOf[n][1] \in tables}}

(* fetch_tables_by_ids; text_to_sql_is_valid is not looked at              *)
FetchTables(ids) == tables \cap ids

(* The joins over t2s_columns drop a key whose tables are not both there.  *)
JoinedFks == {f \in fks : f.from[1] \in tables /\ f.to[1] \in tables}

(* Mutation: keys that point at the given tables are not followed.         *)
FkTargets(ids) == {f.to[1] : f \in {g \in JoinedFks : g.from[1] \in ids}}

(* fk_neighbor_table_ids: the other end, the target when both are given.   *)
FkNeighbours(ids) ==
  {IF f.from[1] \in ids THEN f.to[1] ELSE f.from[1] :
     f \in {g \in JoinedFks : g.from[1] \in ids \/ g.to[1] \in ids}}

(* A bridge is a row of one of the two queries below.  The response names  *)
(* its ends schema.table.column: tables of different databases may agree.  *)
Bridge(from, to, via, row) == [from |-> from, to |-> to, via |-> via, row |-> row]

EndsOf(b) ==
  <<<<Name[b.from[1]], b.from[2]>>, <<Name[b.to[1]], b.to[2]>>>>

(* fk_bridges: one bridge per row, also when two rows have the same ends.  *)
FkBridge(f) == Bridge(f.from, f.to, "fk", f.name)

FkBridges(ids) ==
  {FkBridge(f) : f \in {g \in JoinedFks : g.from[1] \in ids /\ g.to[1] \in ids}}

(* LIKE '%[_]CODE' and LIKE '%SN': to PostgreSQL the brackets are letters, *)
(* so a name that ends in _CODE does not match.                            *)
LikeIdentifier(name) == Ending[name] \in {"[_]CODE", "SN"}

(* convention_bridges: equal names, the smaller table id first             *)
ConventionBridges(ids) ==
  {Bridge(p[1], p[2], "convention", "none") :
     p \in {q \in Columns \X Columns :
              /\ q[1][1] \in ids \cap tables /\ q[2][1] \in ids \cap tables
              /\ q[1][1] < q[2][1] /\ q[1][2] = q[2][2]
              /\ q[1] \in Keys \/ q[2] \in Keys \/ LikeIdentifier(q[1][2])}}

----------------------------------------------------------------------------
(* The loader: a row is inserted when it is missing, deleted when there.   *)
Toggled(set, row) == IF row \in set THEN set \ {row} ELSE set \cup {row}

Edit == edits < MaxEdits /\ edits' = edits + 1

LoadTable(t) == Edit /\ tables' = Toggled(tables, t) /\ UNCHANGED <<fks, mappings>>

LoadFk(f) == Edit /\ fks' = Toggled(fks, f) /\ UNCHANGED <<tables, mappings>>

LoadMapping(m) == Edit /\ mappings' = Toggled(mappings, m) /\ UNCHANGED <<tables, fks>>

============================================================================
