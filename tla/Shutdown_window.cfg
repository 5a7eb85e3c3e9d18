CONSTANTS
  c1 = c1
  c2 = c2
  Master = master
  Child <- OneChild
  MaxSignals = 1
SPECIFICATION Spec
CHECK_DEADLOCK FALSE
INVARIANT MasterFindsItsLock
