SPECIFICATION FairSpec
CONSTANTS
  Runs = {r1, r2}
  NoRun = NoRun
INVARIANTS
  DriversAreExclusive
  CleanCloseIsQuiet
  CancellationIsHonest
  LateCancelAgreesWithEvent
PROPERTIES
  ImplementsRunSlot
  SlotIsFreed
  DeliveredCancelEndsRun
  StoppingEnds
