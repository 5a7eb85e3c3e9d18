CONSTANTS
  p1 = p1
  p2 = p2
  p3 = p3
  p4 = p4
  Proc <- ThreePids
  Port <- SamePort
  User <- OneUser
  Root = "root"
  NoPid = NoPid
  Serial = TRUE
  Faults <- NoFaults
SPECIFICATION Spec
CHECK_DEADLOCK FALSE
INVARIANT StaleIsRemovable
