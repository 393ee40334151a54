SPECIFICATION FairSpec
CONSTANTS
  Configs = 2
  NoDraft = NoDraft
  MaxFaults = 1
  MaxRequests = 1
INVARIANTS
  TypeOK
  NotCompletedEarly
  RequestStands
PROPERTIES
  SweepEnds
CHECK_DEADLOCK FALSE
