\* A refund with a receipt, of a payment that is authorized in a webhook; two investigations.
SPECIFICATION Spec
CONSTANTS
  pay = pay
  sale = sale
  refund = refund
  hook = hook
  hook2 = hook2
  oms = oms
  api = api
  api2 = api2
  looked = looked
  looked2 = looked2
  mine = mine
  other = other
  seen = seen
  seen2 = seen2
  payment = payment
  payment2 = payment2
  order = order
  order2 = order2
  slip = slip
  slip2 = slip2
  fake = fake
  w1 = w1
  w2 = w2
  NoRef = NoRef
  NoRow = NoRow
  All = All
  Expectations = {refund}
  Rows = {hook2, api2, looked2, mine, other, seen, seen2}
  ApiRows = {api2, mine, other}
  Records = {api2, mine, other}
  Capitalised = {looked2, seen, seen2}
  NamesProvider = {refund}
  Workers = {w1}
  Keys <- KeysOf
  Amount <- OneAmount
  Expected <- ExpectedOf
  Reference <- ReferenceOf
  Provider <- ProviderOf
  Domain <- DomainOf
  Created <- CreatedOf
  SeenAs <- SeenOf
  ObsType <- TypeOf
  Reports <- Authorized
  InitialTruths <- Truths
  Hypotheses <- Said
  Elsewhere = {All}
  Now = 3
  Ageing = {}
  MaxMoves = 0
  MaxInquiries = 2
  MaxSetbacks = 1
  MaxTroubles = 0
INVARIANTS TypeOK VouchedBeforeQuery SettledByItsOwnRefund
CHECK_DEADLOCK FALSE
