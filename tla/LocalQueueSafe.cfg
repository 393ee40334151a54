SPECIFICATION Spec
CONSTANTS
  Jobs = {j1, j2}
  Interactive = {}
  Instrumented = {j1}
  Polled = {j1}
  NoJob = NoJob
  ErrorLimit = 3
  MaxRestarts = 1
  MaxRequests = 2
INVARIANTS
  TypeOK
  SingleDrainer
  NobodyStranded
  SerialUnlessEscaped
  NotChargedTwice
CHECK_DEADLOCK FALSE
