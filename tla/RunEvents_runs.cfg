CONSTANTS
  r1 = r1
  r2 = r2
  Runs = {r1, r2}
  NoRun = NoRun
  Scenarios <- AllScenarios
SPECIFICATION FairSpec
INVARIANTS
  ViewAgrees
  ShownEndIsTrue
  EndComesLast
PROPERTIES
  UncancelledRunUnlocks
\* every attempt has been made and heard of
CHECK_DEADLOCK FALSE
