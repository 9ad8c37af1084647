SPECIFICATION Spec
CONSTANTS
  Sources <- TwoChunks
  Buffer = 4
  Wire = 7
  Directions = {FALSE}
  SplitHeaders = TRUE
  Faults = {}
INVARIANT GotExact
CHECK_DEADLOCK FALSE
