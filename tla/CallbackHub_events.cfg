SPECIFICATION FairSpec
CONSTANTS
  MaxGeneration = 2
  Operations = {1}
  MaxCallbacks = 2
  MaxCorrelations = 1
  MaxBuckets = 1
  MaxJunk = 1
INVARIANTS
  HubIsConsistent
  CallbacksAreAccounted
PROPERTIES
  CallbacksLeave
CHECK_DEADLOCK FALSE
