SPECIFICATION FairSpec
CONSTANTS
  Topos = {t1}
  Requests = {r1, r2}
  Objects = {o1, o2}
  None = None
  Free = Free
  MaxEdits = 1
INVARIANTS
  SessionAgrees
  NoEditLost
PROPERTIES
  LockIsReleased
CHECK_DEADLOCK FALSE
