CONSTANTS
  c1 = c1
  c2 = c2
  d1 = d1
  junk = junk
  Junk = junk
  long = long
  Long = long
  NoKey = nokey
  Day = {d1}
  Child <- OneChild
  Line <- Lines
  Requested <- JustPost
  Loaded <- Nothing
  Garbage <- Stack
  Output <- Outputs
  max_len = 7
  buf_len = 4
  MaxStops = 0
SPECIFICATION Spec
CHECK_DEADLOCK FALSE
INVARIANT CreatedIsStored
