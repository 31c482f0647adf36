CONSTANTS
  mine = mine
  yours = yours
  broken = broken
  fresh = fresh
  t1 = t1
  None = None
  Damaged = Damaged
  Saver = Saver
  Dirs = {mine, broken, fresh}
  Existing = {mine, broken}
  Legacy = {mine}
  Unreadable = {broken}
  Tasks = {t1}
  MaxEdits = 2
  MaxFaults = 1
  MaxActions = 4
SPECIFICATION Spec
CHECK_DEADLOCK FALSE
INVARIANT PausedEditsAreRecoverable
