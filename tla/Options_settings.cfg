CONSTANTS
  CONFIG_FILE_LINELEN = 4
  ABSOLUTE_MAX_CHILDREN = 200
  IntRange = 262144
  Commands <- CommandLines
  Files <- ConfigFiles
SPECIFICATION FairSpec
CHECK_DEADLOCK FALSE
INVARIANTS
  TypeOK
  WholeLines
  LastSettingWins
  RangesKept
PROPERTY OptionsSettled
