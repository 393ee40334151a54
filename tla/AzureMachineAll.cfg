SPECIFICATION FairSpec
CONSTANTS
  Launcher = Launcher
  Stops = {s1, s2}
  MaxTries = 2
  Images = 2
  MaxTrouble = 2
INVARIANTS
  TakenDown
PROPERTIES
  IpsFreed
CHECK_DEADLOCK FALSE
