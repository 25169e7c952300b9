\* Two workers that crash for a while: every event is handled.
SPECIFICATION FairSpec
CONSTANTS
  w1 = w1
  w2 = w2
  e1 = e1
  e2 = e2
  NoWorker = NoWorker
  NoEvent = NoEvent
  Workers = {w1, w2}
  Events = {e1}
  Incidents <- OneIncident
  EventOf <- OneEventOf
  StatusIncidents <- OneIncident
  Expected <- ExpectSettledOne
  MaxRetries = 0
  CountLimit <- OneMutation
  MonetaryLimit <- TenUnits
  Amount <- AmountOne
  WorldChanges = {}
  InitialOrders = {"UNPAID"}
  InitialPayments = {"captured"}
  Operations = {}
  Faults = {"crash"}
PROPERTIES EventsAreHandled
CHECK_DEADLOCK FALSE
