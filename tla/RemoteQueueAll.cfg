SPECIFICATION FairSpec
CONSTANTS
  Jobs = {j1, j2}
  Interactive = {j2}
  MaxConcurrent = 1
  MaxFaults = 1
  MaxRestarts = 1
  MaxRequests = 1
INVARIANTS
  TypeOK
  NothingDropped
  
PROPERTIES
  KeepsPromise
  EveryLaunchEnds
CHECK_DEADLOCK FALSE
