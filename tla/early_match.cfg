\* A refund that is still being processed, or has failed, is a clean match.
SPECIFICATION Spec
CONSTANTS
  intent = intent
  stray = stray
  d1 = d1
  d2 = d2
  None = None
  Orphans = Orphans
  Intents = {intent}
  Expectation <- OneExpectation
  Dispatchers = {d1}
  SettledWord = "REFUNDED"
  Rogue <- OnlyRight
  Sla = 1
  Buffer = 0
  Tolerance = 1
  MaxNow = 2
  MaxFacts = 4
  MaxMessages = 2
INVARIANTS MatchIsRefunded
CHECK_DEADLOCK FALSE
