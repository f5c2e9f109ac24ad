SPECIFICATION Spec
CONSTANTS
  Tables = {1, 2, 3, 4}
  Similarity <- MCSimilarity
  Searchable = {1, 2, 3}
  Minimum = 20
  Columns <- MCColumns
  Keys <- MCKeys
  Ending <- MCEnding
  Name <- MCName
  Fks <- MCFks
  Mappings = {"far", "near", "loose"}
  ColumnOf <- MCColumnOf
  NoColumn = NoColumn
  MaxEdits = 3
  LimitArgs = {Unset, 1, 4}
  Unset = Unset
  DefaultTopK = 2
INVARIANTS
  TypeOK
  QuietCallIsAtomic
  MappedNotCrowdedOut
  BridgesJoinCandidates
CHECK_DEADLOCK FALSE
