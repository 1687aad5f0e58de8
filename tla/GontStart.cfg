SPECIFICATION GontSpec
CONSTANTS
  Callers = {c1, c2}
  RouterCount = 1
  None = none
PROPERTIES
  EngineIsReturned
CHECK_DEADLOCK FALSE
