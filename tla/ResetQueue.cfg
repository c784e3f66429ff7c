SPECIFICATION FairSpec
CONSTANTS
  Job = {j1, j2}
  Worker = {w1, w2}
  Capacity = 1
  MaxAttempts = 3
  MaxFaults = 3
  NoJob = NoJob
INVARIANTS
  TypeOK
  BoundsHold
  AcceptedIsKept
  OneWorker
PROPERTIES
  RequestsLeave
CHECK_DEADLOCK FALSE
