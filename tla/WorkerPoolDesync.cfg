SPECIFICATION Spec
CONSTANTS
  Main = main
  Workers = {w1, w2}
  Jobs = {j1, j2, j3}
  MaxJobs = 2
  ReserveSlots = 2
  Nobody = nobody
  BadFd = badfd
  Nothing = nothing
  MayDesync = TRUE
INVARIANT ServedByOneWorker
