SPECIFICATION Spec
CONSTANTS
  Writers = {w1, w2}
  Fields = {f1, f2}
  Values = {v1, v2}
  Missing = Missing
  Empty = Empty
  Torn = Torn
  MaxUpdates = 3
  MaxFailures = 1
  MaxDeaths = 1
INVARIANTS
  StaysWhole
PROPERTIES
  SetsFields
CHECK_DEADLOCK FALSE
