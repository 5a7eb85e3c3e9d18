CONSTANTS
  p1 = p1
  p2 = p2
  p3 = p3
  p4 = p4
  Proc <- ThreePids
  Port <- OwnPorts
  User <- OneUser
  Root = "root"
  NoPid = NoPid
  Serial = FALSE
  Faults <- CrashOnly
SPECIFICATION Spec
CHECK_DEADLOCK FALSE
INVARIANT MutualExclusion
