\* The worker that refunds a payment crashes, and an operator has the incident
\* investigated again.
SPECIFICATION Spec
CONSTANTS
  w1 = w1
  w2 = w2
  e1 = e1
  e2 = e2
  NoWorker = NoWorker
  NoEvent = NoEvent
  Workers = {w1}
  Events = {e1}
  Incidents <- OneIncident
  EventOf <- OneEventOf
  StatusIncidents <- OneIncident
  Expected <- ExpectFailedOne
  MaxRetries = 1
  CountLimit <- TwoMutations
  MonetaryLimit <- TwentyUnits
  Amount <- AmountOne
  WorldChanges = {}
  InitialOrders = {"CANCELLED"}
  InitialPayments = {"captured"}
  Operations = {"retry"}
  Faults = {"crash"}
INVARIANTS RejectedNeverLands
CHECK_DEADLOCK FALSE
