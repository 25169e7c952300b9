\* A cancelled order and two reports of its payment; two workers.
SPECIFICATION FairSpec
CONSTANTS
  pay = pay
  sale = sale
  refund = refund
  hook = hook
  hook2 = hook2
  oms = oms
  api = api
  api2 = api2
  looked = looked
  looked2 = looked2
  mine = mine
  other = other
  seen = seen
  seen2 = seen2
  payment = payment
  payment2 = payment2
  order = order
  order2 = order2
  slip = slip
  slip2 = slip2
  fake = fake
  w1 = w1
  w2 = w2
  NoRef = NoRef
  NoRow = NoRow
  All = All
  Expectations = {sale}
  Rows = {hook, api}
  ApiRows = {}
  Records = {}
  Capitalised = {oms, looked, looked2, seen, seen2}
  NamesProvider = {}
  Workers = {w1, w2}
  Keys <- KeysOf
  Amount <- AmountOf
  Expected <- ExpectedOf
  Reference <- ReferenceOf
  Provider <- ProviderOf
  Domain <- DomainOf
  Created <- CreatedOf
  SeenAs <- SeenOf
  ObsType <- TypeOf
  Reports <- PaymentTwice
  InitialTruths <- NoTruth
  Hypotheses <- Said
  Elsewhere = {}
  Now = 3
  Ageing = {}
  MaxMoves = 0
  MaxInquiries = 0
  MaxSetbacks = 0
  MaxTroubles = 1
INVARIANTS VerdictMeetsReference ProcessedMeansJudged DirectAlarmsAreTrue
PROPERTIES EveryInsertIsJudged
CHECK_DEADLOCK FALSE
