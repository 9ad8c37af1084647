SPECIFICATION FairSpec
CONSTANTS
  Sources <- SomeChunks
  Buffer = 4
  Wire = 9
  Directions = {TRUE, FALSE}
  SplitHeaders = FALSE
  Faults = {"sender_dies", "save_fails"}
INVARIANTS
  TypeOK
  BufferFits
  Framed
  StoredExact
  AllHandedOver
  GotExact
PROPERTIES
  OnlyEmptyLost
  GetReturns
CHECK_DEADLOCK FALSE
