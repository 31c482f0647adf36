CONSTANTS
  q1 = q1
  q2 = q2
  NoRequest = NoRequest
  Requests = {q1, q2}
  MaxGeneration = 2
  MaxFaults = 2
SPECIFICATION Spec
SYMMETRY Symmetry
CHECK_DEADLOCK FALSE
INVARIANTS
  GenerationsAgree
  NoOrphan
  ExecutedRunIsShown
  RestartReleasesTheDocument
