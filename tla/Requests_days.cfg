CONSTANTS
  c1 = c1
  c2 = c2
  d1 = d1
  junk = junk
  Junk = junk
  long = long
  Long = long
  NoKey = nokey
  Day = {d1}
  Child <- TwoChildren
  Line <- Lines
  Requested <- Pairs
  Loaded <- OneDay
  Garbage <- Stack
  Output <- Outputs
  max_len = 7
  buf_len = 4
  MaxStops = 1
SPECIFICATION FairSpec
CHECK_DEADLOCK FALSE
INVARIANTS
  TypeOK
  DayClassified
  FaultsExplained
  StatisticsFit
  
PROPERTIES
  ImplementsDays
  RequestEnds
