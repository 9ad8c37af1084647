SPECIFICATION Spec
CONSTANTS
  N = 4
  Offset = 1
  Earlier = {}
  Puts = {2}
  Gets = {g1}
  Filled <- SecondShort
  StampMod = 8
  MaxCrashes = 0
  Faults = {}
  None = none
INVARIANT AcceptedIsStored
CHECK_DEADLOCK FALSE
