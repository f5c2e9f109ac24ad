SPECIFICATION Spec
CONSTANTS
  Artifacts = {"a1", "a2", "a3", "a4", "b1"}
  Tenants = {"t1", "t2"}
  Snapshots = {"s1", "s2", "s3"}
  Terms = {"rain", "draft"}
  Synonyms = {"syn", "old"}
  Row <- MCRow
  SnapshotTenant <- MCSnapshotTenant
  Stable = {"rain"}
  SynonymOf <- MCSynonymOf
  MaxEdits = 2
  Callers <- MCCallers
  DefaultTenant = "t1"
  Question = {"river", "rain"}
  SnapshotTables <- MCSnapshotTables
  IdRank <- MCIdRank
  TopK = 2
  NoTime = NoTime
  TicksPerSecond = 2
  MaxClock = 4
INVARIANTS
  TypeOK
  ReadyBundleEligible
  NothingBetterLeftOut
  ScoredOnOwnVectors
  BlockedExplained
  ContextCompleteIfUntouched
  GlossaryTornOnlyByEdit
CHECK_DEADLOCK FALSE
