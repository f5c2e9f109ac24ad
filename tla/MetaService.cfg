SPECIFICATION Spec
CONSTANTS
  Tables = {1, 2, 3, 4}
  Similarity <- MCSimilarity
  Searchable = {}
  Minimum = 0
  Columns <- MCColumns
  Keys = {}
  Ending <- MCEnding
  Fks <- MCFks
  Mappings = {}
  ColumnOf <- MCColumnOf
  NoColumn = NoColumn
  MaxEdits = 1
  Calls = {"c1", "c2", "c3"}
  Starts <- MCStarts
  AnyDb = AnyDb
  Db <- MCDb
  Name <- MCName
  PoolSize = 2
  MaxHung = 1
INVARIANTS
  TypeOK
  PoolsCoverCalls
PROPERTIES
  DetailAgreesIfUndisturbed
  HungQueriesSpareOthers
CHECK_DEADLOCK FALSE
