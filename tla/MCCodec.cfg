CONSTANTS
  Data <- MCData
  Reports <- MCReports
  Lengths <- MCLengths
  Error <- MCError
  CastSaturates = TRUE
SPECIFICATION BridgeSpec
INVARIANTS
  TablesAgree
  RoundTrip
  CountsInBounds
  ShortReadsZero
  WriteBackExact
  PublishedWhole
CHECK_DEADLOCK FALSE
