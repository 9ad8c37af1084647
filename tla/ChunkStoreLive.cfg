SPECIFICATION FairSpec
CONSTANTS
  N = 2
  Offset = 0
  Earlier = {1}
  Puts = {2}
  Gets = {g1}
  Filled <- AllFilled
  StampMod = 8
  MaxCrashes = 1
  Faults = {"put_dies", "put_cut", "save_fails", "short_read", "cut_header"}
  None = none
INVARIANT FreshGet
PROPERTIES
  CleanPutReplicates
  GetEnds
CHECK_DEADLOCK FALSE
