SPECIFICATION FairSpec
CONSTANTS
  Graphs <- AllGraphs
  Limits <- AllLimits
INVARIANTS
  NothingRunsAfterTheEnd
  CacheIsFresh
  AccountsAreRight
PROPERTIES
  RunEnds
CHECK_DEADLOCK FALSE
