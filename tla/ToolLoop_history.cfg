SPECIFICATION FairSpec
CONSTANTS
  MaxToolTurns = 1
  MaxIdentical = 1
  Limit = 6
  MaxCalls = 2
  MaxRuns = 2
  MaxRows = 8
INVARIANTS
  RebuiltIsValid
  CacheParity
PROPERTIES
  RunsEnd
