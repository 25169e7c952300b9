\* Two operators meet before the row GLOBAL exists.
SPECIFICATION Spec
CONSTANTS
  o1 = o1
  o2 = o2
  g1 = g1
  g2 = g2
  NoRow = NoRow
  Nobody = Nobody
  Operators = {o1, o2}
  Gates = {g1, g2}
  InitialRows <- AnyRow
  MaxVersion = 4
PROPERTIES NoLostUpdate
CHECK_DEADLOCK FALSE
