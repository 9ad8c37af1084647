SPECIFICATION LuckyMainSpec
CONSTANTS
  Main = main
  Workers = {w1}
  Jobs = {j1, j2, j3, j4}
  MaxJobs = 2
  ReserveSlots = 1
  Nobody = nobody
  BadFd = badfd
  Nothing = nothing
  MayDesync = FALSE
PROPERTY AcceptedGetsOn
