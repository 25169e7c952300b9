\* A captured payment of a cancelled order, its actuation and what is seen of it.
SPECIFICATION Spec
CONSTANTS
  pay = pay
  sale = sale
  refund = refund
  hook = hook
  hook2 = hook2
  oms = oms
  api = api
  api2 = api2
  looked = looked
  looked2 = looked2
  mine = mine
  other = other
  seen = seen
  seen2 = seen2
  payment = payment
  payment2 = payment2
  order = order
  order2 = order2
  slip = slip
  slip2 = slip2
  fake = fake
  w1 = w1
  w2 = w2
  NoRef = NoRef
  NoRow = NoRow
  All = All
  Expectations = {pay}
  Rows = {hook, oms, api, looked}
  ApiRows = {api}
  Records = {api, oms}
  Capitalised = {oms, looked}
  NamesProvider = {pay}
  Workers = {w1}
  Keys <- KeysOf
  Amount <- OneAmount
  Expected <- ExpectedOf
  Reference <- ReferenceOf
  Provider <- ProviderOf
  Domain <- DomainOf
  Created <- CreatedOf
  SeenAs <- SeenOf
  ObsType <- TypeOf
  Reports <- PaymentsAndOrder
  InitialTruths <- Truths
  Hypotheses <- OneQuery
  Elsewhere = {}
  Now = 3
  Ageing = {pay}
  MaxMoves = 1
  MaxInquiries = 1
  MaxSetbacks = 1
  MaxTroubles = 0
INVARIANTS ResolvedIsOnRecord
CHECK_DEADLOCK FALSE
