SPECIFICATION Spec
CONSTANTS
  Tables = {1, 2, 3, 4, 5, 6}
  Key <- MCKey
  InScope = {1, 2, 3, 4, 6}
  Mart = {3, 4}
  DbLabel <- MCDbLabel
  Anonymous = {1}
  JoinLimit = 2
  MaxChanges = 2
  TopK = 4
  TableMax = 0
  HardLimit = 50
  GapRatio = 85
  MinStep = 15
  TopRadius = 40
  HydeWeight = 6
  QuestionWeight = 4
  JoinExpand = TRUE
  ExpandVia = {"fk"}
  AnalyticFrom = 850
  SourceFrom = 600
  Area <- MCArea
  WithColumns = {3}
  JoinOntology = TRUE
  JoinConvention = TRUE
  Jobs = {"j1", "j2"}
  BatchSize = 1
  Texts = {"plant A", "plant B", "unit X"}
  LabelsWith <- MCLabelsWith
  StopWords = {"show"}
  MaxMentions = 2
  ValueLimit = 2
  LookupLimit = 2
  MaxValues = 2
  Callers = {"c1", "c2"}
  Lifespan = "lifespan"
  Workloads <- Resolving
INVARIANT
  EveryMentionResolved
CHECK_DEADLOCK FALSE
