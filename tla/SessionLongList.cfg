SPECIFICATION Spec
CONSTANTS
  N = 2
  Offset = 0
  None = none
  a = a
  b = b
  c = c
  d = d
  Names = {a, b, c, d}
  Hidden = {d}
  Arguments = {a, b}
  Garbled = garbled
  Layouts <- DiskLayouts
  Commands = {"list"}
  NamesInBuffer = 2
  RequestsInBuffer = 2
  MaxStamp = 5
  Faults = {}
PROPERTIES
  NameListRead
CHECK_DEADLOCK FALSE
