\* One worker that does not crash, a payment that may be captured or refunded
\* and an order that may be cancelled meanwhile: every incident is settled.
SPECIFICATION FairSpec
CONSTANTS
  w1 = w1
  w2 = w2
  e1 = e1
  e2 = e2
  NoWorker = NoWorker
  NoEvent = NoEvent
  Workers = {w1}
  Events = {e1, e2}
  Incidents <- OneIncident
  EventOf <- OneEventOf
  StatusIncidents <- OneIncident
  Expected <- ExpectSettledOne
  MaxRetries = 2
  CountLimit <- OneMutation
  MonetaryLimit <- TenUnits
  Amount <- AmountOne
  WorldChanges = {"capture", "cancel", "refund"}
  InitialOrders = {"UNPAID", "CANCELLED"}
  InitialPayments = {"captured", "authorized"}
  Operations = {}
  Faults = {}
INVARIANTS RejectedNeverLands
PROPERTIES IncidentsSettle
CHECK_DEADLOCK FALSE
