SPECIFICATION Spec
CONSTANTS
  Jobs = {j1, j2}
  Undated = Undated
  MaxMinutes = 1
  MaxVerdicts = 2
  MaxEvents = 1
SYMMETRY Symmetry
INVARIANTS
  TypeOK
  OverdraftExplained
  LeaksExplained
PROPERTIES
  KeepsAccounts
CHECK_DEADLOCK FALSE
