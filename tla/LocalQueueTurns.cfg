SPECIFICATION FairSpec
CONSTANTS
  Jobs = {j1, j2, j3}
  Interactive = {j3}
  Instrumented = {}
  Polled = {}
  NoJob = NoJob
  ErrorLimit = 2
  MaxRestarts = 0
  MaxRequests = 0
PROPERTIES
  ServesInOrder
  EveryTurnComes
CHECK_DEADLOCK FALSE
