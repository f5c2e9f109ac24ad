------------------------------ MODULE V2Store ------------------------------
(***************************************************************************)
(* The metadata store behind the Semantic View routes, as                  *)
(* app/services/v2_store.py reads it, together with the publisher that     *)
(* writes it.  The publisher (another service) is external: it is modelled *)
(* only by the rows the queries can find changed between two awaits of one *)
(* request.                                                                *)
(*                                                                         *)
(* An artifact row is immutable except for its status, and its vectors are *)
(* written with it; what never changes is the constant function Row.       *)
(***************************************************************************)
EXTENDS Naturals, FiniteSets

CONSTANTS
  Artifacts,      \* artifact_id values
  Tenants,        \* tenant_id values
  Snapshots,      \* snapshot_id values
  Terms,          \* rows of t2s_terms, by term
  Synonyms,       \* rows of t2s_synonyms, by synonym
  Row,            \* [Artifacts -> immutable columns of t2s_semantic_artifacts]
  SnapshotTenant, \* [Snapshots -> Tenants], tenant_id of t2s_physical_snapshots
  Stable,         \* terms whose stable_id is not null
  SynonymOf,      \* [Synonyms -> Terms], term_id of t2s_synonyms
  MaxEdits        \* bound: number of writes the publisher makes

VARIABLES
  status,         \* [Artifacts -> {"PUBLISHED", "INACTIVE"}]
  snapshots,      \* snapshot rows that exist
  terms,          \* term rows that exist
  synonyms,       \* synonym rows that exist
  edits           \* number of writes made so far (bounds the publisher)

storeVars == <<status, snapshots, terms, synonyms, edits>>

Status == {"PUBLISHED", "INACTIVE"}

ASSUME StoreAssumption ==
  /\ MaxEdits \in Nat
  /\ SnapshotTenant \in [Snapshots -> Tenants]
  /\ DOMAIN Row = Artifacts
  /\ \A a \in Artifacts : Row[a].tenant \in Tenants
  /\ Stable \subseteq Terms
  /\ SynonymOf \in [Synonyms -> Terms]

StoreTypeOK ==
  /\ status \in [Artifacts -> Status]
  /\ snapshots \in SUBSET Snapshots
  /\ terms \in SUBSET Terms
  /\ synonyms \in SUBSET Synonyms
  /\ edits \in 0..MaxEdits

StoreInit ==
  /\ status = [a \in Artifacts |-> "PUBLISHED"]
  /\ snapshots = Snapshots
  /\ terms = Terms
  /\ synonyms = Synonyms
  /\ edits = 0

----------------------------------------------------------------------------
(* The queries of PostgresV2Store.  Each is one SELECT, so it sees one     *)
(* committed state of the store; no transaction spans two of them.         *)

(* Mutation: the filter of the in-memory store, without the status.        *)
ListAnyStatus(tenant) == {a \in Artifacts : Row[a].tenant = tenant}

(* WHERE tenant_id = $1 AND status = 'PUBLISHED'                           *)
ListPublished(tenant) ==
  {a \in Artifacts : Row[a].tenant = tenant /\ status[a] = "PUBLISHED"}

(* Mutation: the filter of the in-memory store, the published ones only.   *)
EmbeddingsListed(tenant) == ListPublished(tenant)

(* The artifacts whose vectors are returned: the join is for the tenant,   *)
(* the status is not looked at.                                            *)
ArtifactEmbeddings(tenant) == {a \in Artifacts : Row[a].tenant = tenant}

(* SELECT snapshot_id ... WHERE tenant_id = $1                             *)
KnownSnapshotIds(tenant) == {s \in snapshots : SnapshotTenant[s] = tenant}

(* ... AND snapshot_id = ANY($2): rows that are gone are not returned.     *)
SnapshotPayloads(tenant, ids) == KnownSnapshotIds(tenant) \cap ids

(* WHERE stable_id IS NOT NULL, for every tenant                           *)
GlossaryTerms == terms \cap Stable

(* Mutation: no join, orphaned synonyms included.                          *)
SynonymRows == synonyms

(* JOIN t2s_terms: the stable_id of the joined term is not looked at.      *)
GlossarySynonyms == {s \in synonyms : SynonymOf[s] \in terms}

----------------------------------------------------------------------------
(* The publisher.  `what' names the row a write touches.                   *)

Edit == edits < MaxEdits /\ edits' = edits + 1

EditArtifact(what) ==
  /\ Edit /\ what \in Artifacts
  /\ \E s \in Status \ {status[what]} : status' = [status EXCEPT ![what] = s]
  /\ UNCHANGED <<snapshots, terms, synonyms>>

(* Insert the row when it is missing, delete it when it is there.          *)
Toggled(set, row) == IF row \in set THEN set \ {row} ELSE set \cup {row}

EditSnapshot(what) ==
  /\ Edit /\ what \in Snapshots
  /\ snapshots' = Toggled(snapshots, what)
  /\ UNCHANGED <<status, terms, synonyms>>

EditTerm(what) ==
  /\ Edit /\ what \in Terms
  /\ terms' = Toggled(terms, what)
  /\ UNCHANGED <<status, snapshots, synonyms>>

EditSynonym(what) ==
  /\ Edit /\ what \in Synonyms
  /\ synonyms' = Toggled(synonyms, what)
  /\ UNCHANGED <<status, snapshots, terms>>

Rows == Artifacts \cup Snapshots \cup Terms \cup Synonyms

Publisher(what) ==
  \/ EditArtifact(what) \/ EditSnapshot(what)
  \/ EditTerm(what) \/ EditSynonym(what)

============================================================================
