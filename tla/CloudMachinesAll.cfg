SPECIFICATION Spec
CONSTANTS
  Jobs = {j1, j2}
  MaxAttempts = 3
  MaxLookups = 2
  MaxFaults = 3
  MaxStops = 3
INVARIANTS
  OneMachineEach
  OrphansExplained
  SharedWhole
  StopsForGood
CHECK_DEADLOCK FALSE
