SPECIFICATION Spec
CONSTANTS
  Artifacts = {"a1", "a2"}
  Tenants = {"t1", "t2"}
  Snapshots = {}
  Row <- MCRow
  Terms = {}
  Synonyms = {}
  Stable = {}
  SnapshotTenant <- MCNoRows
  SynonymOf <- MCNoRows
  MaxEdits = 1
  AllowedStarts = {"SELECT", "WITH", "EXPLAIN"}
  DenyTokens = {"UPDATE", "SET"}
  AllowedCatalogs = {"c"}
  AllowedSchemas = {"s"}
  Requests = {1, 2}
  Args <- MCArgs
  Sql <- MCSql
  NoArtifact = NoArtifact
  NoArg = NoArg
  DefaultTenant = "t1"
  MaxFaults = 1
  MaxCrashes = 1
INVARIANTS
  TypeOK
  AuditTellsTruth
  UnauditedOnlyByFault
  SentUnderPublishedArtifact
  DamageBounded
PROPERTIES
  KeepsAuditPromise
CHECK_DEADLOCK FALSE
