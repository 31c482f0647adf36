CONSTANTS
  Runs = {r1}
  NoRun = NoRun
SPECIFICATION Spec
INVARIANTS
  CancelIsDelivered
