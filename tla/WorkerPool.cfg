SPECIFICATION FairSpec
CONSTANTS
  Main = main
  Workers = {w1, w2}
  Jobs = {j1, j2}
  MaxJobs = 2
  ReserveSlots = 2
  Nobody = nobody
  BadFd = badfd
  Nothing = nothing
  MayDesync = TRUE
INVARIANTS
  TypeOK
  CapacityOK
  MutexReleased
  NoLostWakeUp
  PusherSleepsWhenFull
  EmptyAtDestruct
  SingleOwner
PROPERTIES
  OneOwnerAtATime
  ShutdownCompletes
  NoStall
