\* Two workers repair an unpaid order, which the payer may pay meanwhile; they
\* lose transactions.
SPECIFICATION Spec
CONSTANTS
  w1 = w1
  w2 = w2
  e1 = e1
  e2 = e2
  NoWorker = NoWorker
  NoEvent = NoEvent
  Workers = {w1, w2}
  Events = {e1}
  Incidents <- OneIncident
  EventOf <- OneEventOf
  StatusIncidents <- OneIncident
  Expected <- ExpectSettledOne
  MaxRetries = 1
  CountLimit <- OneMutation
  MonetaryLimit <- TenUnits
  Amount <- AmountOne
  WorldChanges = {"pay"}
  InitialOrders = {"UNPAID"}
  InitialPayments = {"captured"}
  Operations = {}
  Faults = {"database"}
INVARIANTS TypeOK RetriesBounded
PROPERTIES OnlyTheGateSkipsTheTable
SYMMETRY AnyWorker
CHECK_DEADLOCK FALSE
