SPECIFICATION Spec
CONSTANTS
  DefaultTimeout = 2
  MaximumTimeout = 3
  DefaultRows = 2
  MaximumRows = 3
  MaximumBytes = 9
  Unset = Unset
  TimeoutArgs <- MCTimeoutArgs
  RowArgs <- MCRowArgs
  RowBytes <- MCRowBytes
  MaxAnswer = 4
  MaxChunks = 2
INVARIANTS
  TypeOK
  RowsWithinCaps
  ResponseBytesWithinCap
  TruncationExact
  ResultHonest
  ElapsedPerOperation
PROPERTY
  SilenceEndsCall
CHECK_DEADLOCK FALSE
