\* Two incidents of two subjects compete for a budget whose money is enough for
\* either and not for both.
SPECIFICATION Spec
CONSTANTS
  w1 = w1
  w2 = w2
  e1 = e1
  e2 = e2
  NoWorker = NoWorker
  NoEvent = NoEvent
  Workers = {w1, w2}
  Events = {e1, e2}
  Incidents <- TwoSubjects
  EventOf <- TwoSubjectsEventOf
  StatusIncidents <- TwoSubjects
  Expected <- ExpectSettled
  MaxRetries = 0
  CountLimit <- TwoMutations
  MonetaryLimit <- TenUnits
  Amount <- AmountTwo
  WorldChanges = {}
  InitialOrders = {"UNPAID"}
  InitialPayments = {"captured"}
  Operations = {}
  Faults = {}
INVARIANTS WithinBudget
SYMMETRY AnyWorker
CHECK_DEADLOCK FALSE
