\* Two workers refund the payment of a cancelled order; they crash, and
\* refund requests time out and land late.
SPECIFICATION Spec
CONSTANTS
  w1 = w1
  w2 = w2
  e1 = e1
  e2 = e2
  NoWorker = NoWorker
  NoEvent = NoEvent
  Workers = {w1, w2}
  Events = {e1}
  Incidents <- OneIncident
  EventOf <- OneEventOf
  StatusIncidents <- OneIncident
  Expected <- ExpectFailedOne
  MaxRetries = 1
  CountLimit <- OneMutation
  MonetaryLimit <- TenUnits
  Amount <- AmountOne
  WorldChanges = {}
  InitialOrders = {"CANCELLED"}
  InitialPayments = {"captured"}
  Operations = {}
  Faults = {"crash"}
INVARIANTS ResolvedMeansConverged RejectedNeverLands
SYMMETRY AnyWorker
CHECK_DEADLOCK FALSE
