SPECIFICATION LiveSpec
CONSTANTS
  o1 = o1
  o2 = o2
  nobody = nobody
  Owners <- TwoOwners
  Nobody = nobody
  TtlOf <- Ttls
  MaxClock = 3
INVARIANTS
  TypeOK
  ExclusiveOwners
  HolderIsLocked
PROPERTIES
  DeadHolderFreed
CHECK_DEADLOCK FALSE
