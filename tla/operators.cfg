\* Operators and the kill switch against two workers.
SPECIFICATION Spec
CONSTANTS
  w1 = w1
  w2 = w2
  e1 = e1
  e2 = e2
  NoWorker = NoWorker
  NoEvent = NoEvent
  Workers = {w1, w2}
  Events = {e1}
  Incidents <- OneIncident
  EventOf <- OneEventOf
  StatusIncidents <- OneIncident
  Expected <- ExpectSettledOne
  MaxRetries = 0
  CountLimit <- TwoMutations
  MonetaryLimit <- TwentyUnits
  Amount <- AmountOne
  WorldChanges = {}
  InitialOrders = {"UNPAID"}
  InitialPayments = {"captured"}
  Operations = {"retry", "resolve", "escalate", "pause", "resume"}
  Faults = {}
INVARIANTS TerminalUnleased ExclusiveExecutor
PROPERTIES ImplementsLedger
SYMMETRY AnyWorker
CHECK_DEADLOCK FALSE
