\* The state of a failed refund against the specification's truth table.
SPECIFICATION Spec
CONSTANTS
  intent = intent
  stray = stray
  d1 = d1
  d2 = d2
  None = None
  Orphans = Orphans
  Intents = {intent}
  Expectation <- OneExpectation
  Dispatchers = {d1}
  SettledWord = "REFUNDED"
  Rogue <- OnlyWrong
  Sla = 1
  Buffer = 0
  Tolerance = 1
  MaxNow = 2
  MaxFacts = 4
  MaxMessages = 2
INVARIANTS FailedIsNotExecuted
CHECK_DEADLOCK FALSE
