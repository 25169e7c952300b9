\* Two workers, two notifications of one payment, one that cannot be normalised.
SPECIFICATION Spec
CONSTANTS
  authorized = authorized
  captured = captured
  garbled = garbled
  pay = pay
  w1 = w1
  w2 = w2
  NoRow = NoRow
  NoTime = NoTime
  Nothing = Nothing
  Webhooks = {authorized, captured, garbled}
  Entities <- OnePayment
  Workers = {w1, w2}
  EntityOf <- PaymentOf
  RawStatus <- StatusOf
  CreatedAt <- TimeOf
  Epoch = 1
  Unparsable = {garbled}
  BatchLimit = 2
  MaxExpiries = 1
  MaxFaults = 1
  MaxCrashes = 1
INVARIANTS TypeOK ProcessedIsStored RowMatchesItsEvidence SharedOnlyAfterExpiry
PROPERTIES StatusNeverRegresses AcceptedIsSettled FirstStatusIsReconciled
CHECK_DEADLOCK FALSE
