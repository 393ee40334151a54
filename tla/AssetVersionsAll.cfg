SPECIFICATION Spec
CONSTANTS
  Tasks = {t1, t2}
  Groups = {g1, g2}
  Names = {n1, n2}
  Itself = Itself
  Missing = Missing
  Corrupt = Corrupt
  Requests = {"save", "create", "register", "into", "delete", "tag", "untag", "edit", "drop", "empty", "rename", "describe", "list"}
  MaxOps = 3
  MaxFaults = 1
SYMMETRY Symmetry
INVARIANTS
  TypeOK
  OneHolder
  SavesApart
  AckedStay
  NamesDiffer
PROPERTIES
  NamesStay
CHECK_DEADLOCK FALSE
