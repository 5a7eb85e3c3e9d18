CONSTANTS
  c1 = c1
  c2 = c2
  Master = master
  Child <- TwoChildren
  MaxSignals = 2
SPECIFICATION FairSpec
CHECK_DEADLOCK FALSE
INVARIANTS
  TypeOK
  StoppedCleanly
  LockHeldWhileServing
  
PROPERTIES
  MasterStops
  ChildrenGone
