SPECIFICATION Spec
CONSTANTS
  N = 3
  Offset = 1
  Earlier = {1, 2}
  Puts = {4}
  Gets = {g1}
  Filled <- SecondShort
  StampMod = 8
  MaxCrashes = 1
  Faults = {"save_fails"}
  None = none
INVARIANTS
  TypeOK
  GetWhole
  FreshGet
  GetSurvivesFailures
  PutLeavesAll
PROPERTIES
  PublishedStays
  ImplementsFileStore
CHECK_DEADLOCK FALSE
