CONSTANTS
  p1 = p1
  p2 = p2
  p3 = p3
  p4 = p4
  Proc <- ThreePids
  Port <- SamePort
  User <- ManyUsers
  Root = "root"
  NoPid = NoPid
  Serial = FALSE
  Faults <- FaultKinds
SPECIFICATION Spec
CHECK_DEADLOCK FALSE
SYMMETRY Pids
INVARIANT MutualExclusion
