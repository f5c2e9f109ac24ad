SPECIFICATION Spec
CONSTANTS
  AllowedStarts = {"SELECT", "WITH", "EXPLAIN"}
  DenyTokens = {"UPDATE", "SET"}
  AllowedCatalogs = {"c"}
  AllowedSchemas = {"s"}
  Names <- MCNames
  ColumnNames = {"ID", "USE", "*"}
  Shapes = {"keep", "extra", "either"}
  Disjunctions = {"either"}
  Statements <- MCStatements
  Payloads <- MCPayloads
  Grants <- MCGrants
  Conjuncts <- MCConjuncts
  Renamings <- MCRenamings
INVARIANTS
  AliasesDoNotMatter
  
  GrantsAreMonotone
CHECK_DEADLOCK FALSE
