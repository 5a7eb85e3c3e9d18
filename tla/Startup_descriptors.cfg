CONSTANTS
  MaxFd <- Descriptors
SPECIFICATION Spec
CHECK_DEADLOCK FALSE
INVARIANTS
  TypeOK
  LogIsLog
  StdReserved
  NothingLeaks
  ChildDetached
  CheckOnly
