\* A worker dies, a new one takes over.
SPECIFICATION FairSpec
CONSTANTS
  w1 = w1
  w2 = w2
  e1 = e1
  e2 = e2
  NoWorker = NoWorker
  NoEvent = NoEvent
  Workers = {w1}
  Events = {e1}
  Incidents <- OneIncident
  EventOf <- OneEventOf
  StatusIncidents <- OneIncident
  Expected <- ExpectSettledOne
  MaxRetries = 1
  CountLimit <- OneMutation
  MonetaryLimit <- TenUnits
  Amount <- AmountOne
  WorldChanges = {}
  InitialOrders = {"UNPAID"}
  InitialPayments = {"captured"}
  Operations = {}
  Faults = {"crash"}
PROPERTIES IncidentsSettleAfterCrashes
CHECK_DEADLOCK FALSE
