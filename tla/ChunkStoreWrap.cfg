SPECIFICATION Spec
CONSTANTS
  N = 2
  Offset = 0
  Earlier = {3}
  Puts = {4}
  Gets = {g1}
  Filled <- AllFilled
  StampMod = 4
  MaxCrashes = 0
  Faults = {}
  None = none
INVARIANT FreshGet
CHECK_DEADLOCK FALSE
