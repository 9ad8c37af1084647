SPECIFICATION Spec
CONSTANTS
  N = 2
  Offset = 0
  Earlier = {1}
  Puts = {2}
  Gets = {g1}
  Filled <- AllFilled
  StampMod = 8
  MaxCrashes = 0
  Faults = {"put_cut"}
  None = none
INVARIANT GetWhole
CHECK_DEADLOCK FALSE
