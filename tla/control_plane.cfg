\* Operators and gates race for the row GLOBAL, made already or not yet.
SPECIFICATION Spec
CONSTANTS
  o1 = o1
  o2 = o2
  g1 = g1
  g2 = g2
  NoRow = NoRow
  Nobody = Nobody
  Operators = {o1, o2}
  Gates = {g1, g2}
  InitialRows <- AnyRow
  MaxVersion = 4
INVARIANTS TypeOK
PROPERTIES NoLostUpdateOfARow NoClaimWhilePaused
CHECK_DEADLOCK FALSE
