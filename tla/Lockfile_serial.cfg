CONSTANTS
  p1 = p1
  p2 = p2
  p3 = p3
  p4 = p4
  Proc <- FourPids
  Port <- OwnPorts
  User <- ManyUsers
  Root = "root"
  NoPid = NoPid
  Serial = TRUE
  Faults <- FaultKinds
SPECIFICATION Spec
CHECK_DEADLOCK FALSE
SYMMETRY Pids
INVARIANTS
  TypeOK
  MutualExclusion
  LockNamesServer
PROPERTY NeverStolen
