\* A row that is saved while a batch judges the expectation it belongs to.
SPECIFICATION Spec
CONSTANTS
  pay = pay
  sale = sale
  refund = refund
  hook = hook
  hook2 = hook2
  oms = oms
  api = api
  api2 = api2
  looked = looked
  looked2 = looked2
  mine = mine
  other = other
  seen = seen
  seen2 = seen2
  payment = payment
  payment2 = payment2
  order = order
  order2 = order2
  slip = slip
  slip2 = slip2
  fake = fake
  w1 = w1
  w2 = w2
  NoRef = NoRef
  NoRow = NoRow
  All = All
  Expectations = {pay}
  Rows = {hook, oms}
  ApiRows = {}
  Records = {}
  Capitalised = {oms}
  NamesProvider = {pay}
  Workers = {w1}
  Keys <- KeysOf
  Amount <- AmountOf
  Expected <- ExpectedOf
  Reference <- ReferenceOf
  Provider <- ProviderOf
  Domain <- DomainOf
  Created <- CreatedOf
  SeenAs <- SeenOf
  ObsType <- TypeOf
  Reports <- PaymentAndOrder
  InitialTruths <- NoTruth
  Hypotheses <- Said
  Elsewhere = {All}
  Now = 3
  Ageing = {}
  MaxMoves = 0
  MaxInquiries = 0
  MaxSetbacks = 0
  MaxTroubles = 0
INVARIANTS UnexpectedLacksExpectation
CHECK_DEADLOCK FALSE
