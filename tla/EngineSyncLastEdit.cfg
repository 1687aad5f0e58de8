SPECIFICATION FairSpec
CONSTANTS
  Requests = {r1, r2}
  Timers = {t1, t2}
  Engines = {e1, e2}
  None = None
  Free = Free
  MaxEdits = 3
PROPERTIES
  LastEditReachesEngine
