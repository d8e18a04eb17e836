SPECIFICATION LiveSpec
CONSTANTS
  c1 = c1
  c2 = c2
  worker = worker
  keeper = keeper
  none = none
  Callers = {c1, c2}
  Worker = worker
  Keeper = keeper
  None = none
  MaxCalls = 3
  MaxFails = 1
INVARIANTS
  TypeOK
  
PROPERTIES
  ConfiguredRowStays
  
CHECK_DEADLOCK FALSE
