\* Two dispatchers; one of them sends what it polled before the other had sent it.
SPECIFICATION Spec
CONSTANTS
  intent = intent
  stray = stray
  d1 = d1
  d2 = d2
  None = None
  Orphans = Orphans
  Intents = {intent}
  Expectation <- OneExpectation
  Dispatchers = {d1, d2}
  SettledWord = "REFUNDED"
  Rogue <- OnlyWrong
  Sla = 1
  Buffer = 0
  Tolerance = 1
  MaxNow = 2
  MaxFacts = 3
  MaxMessages = 2
INVARIANTS OneExecutableAction
CHECK_DEADLOCK FALSE
