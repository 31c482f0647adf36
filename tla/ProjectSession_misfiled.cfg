CONSTANTS
  mine = mine
  yours = yours
  broken = broken
  fresh = fresh
  t1 = t1
  None = None
  Damaged = Damaged
  Saver = Saver
  Dirs = {mine, yours}
  Existing = {mine, yours}
  Legacy = {}
  Unreadable = {}
  Tasks = {t1}
  MaxEdits = 1
  MaxFaults = 0
  MaxActions = 4
SPECIFICATION Spec
CHECK_DEADLOCK FALSE
INVARIANT OfferedIsOwn
