\* A refund of another amount is a clean match behind an incomplete query.
SPECIFICATION Spec
CONSTANTS
  intent = intent
  stray = stray
  d1 = d1
  d2 = d2
  None = None
  Orphans = Orphans
  Intents = {intent}
  Expectation <- OneExpectation
  Dispatchers = {d1}
  SettledWord = "REFUNDED"
  Rogue <- OnlyWrong
  Sla = 1
  Buffer = 0
  Tolerance = 1
  MaxNow = 2
  MaxFacts = 4
  MaxMessages = 2
INVARIANTS MatchIsOfTheAmount
CHECK_DEADLOCK FALSE
