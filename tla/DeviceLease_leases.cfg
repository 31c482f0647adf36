CONSTANTS
  Callers = {c1, c2, c3}
  Keys = {k1}
  Entries = {e1, e2}
  NoEntry = NoEntry
SPECIFICATION FairSpec
INVARIANTS
  NothingLeaks
  CancelledWaiterIsNeverBlocked
PROPERTIES
  CancelledScopeStaysOut
  ImplementsDeviceMutex
  EveryWaiterIsServed
