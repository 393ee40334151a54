SPECIFICATION FairSpec
CONSTANTS
  Nodes = {n1, n2}
  MaxWrites = 2
INVARIANTS
  RightWhileFinal
PROPERTIES
  EventuallyFresh
CHECK_DEADLOCK FALSE
