\* Two records of equal time are folded in either order.
SPECIFICATION Spec
CONSTANTS
  intent = intent
  stray = stray
  d1 = d1
  d2 = d2
  None = None
  Orphans = Orphans
  Intents = {intent}
  Expectation <- OneExpectation
  Dispatchers = {d1}
  SettledWord = "REFUNDED"
  Rogue <- Others
  Sla = 1
  Buffer = 0
  Tolerance = 1
  MaxNow = 2
  MaxFacts = 4
  MaxMessages = 2
INVARIANTS SameEvidenceSameCase
CHECK_DEADLOCK FALSE
