CONSTANTS
  c1 = c1
  c2 = c2
  c3 = c3
  c4 = c4
  Child <- FourPids
  maxchild = 3
  AcceptErrors <- TwoErrors
  LogSyncFails = TRUE
SPECIFICATION FairSpec
CHECK_DEADLOCK FALSE
INVARIANTS
  TypeOK
  ClientsLimited
  ReaperFindsChild
  PanicOnlyOnRealError
  StreamsBalanced
PROPERTIES
  RefusedOnlyWhenBusy
  ImplementsLimit
  ConnectionReleased
  SlotReturns
