--------------------------- MODULE MCReconciliation ---------------------------
(***************************************************************************)
(* Instances of Reconciliation for TLC: a payment of an order that the     *)
(* merchant cancelled, and a refund of another one.                        *)
(*   pay     the expectation services/live_slice.py opens: no payment      *)
(*   sale    the same, known only by its order                             *)
(*   refund  its receipt's refund is processed, as the integration tests   *)
(*           open it                                                       *)
(*   hook, hook2    the payments in a webhook                              *)
(*   api, api2      the payments, queried                                  *)
(*   looked, looked2  the payments, as the observer reads them             *)
(*   oms     the merchant's order, ingested or observed                    *)
(*   mine, other    two refunds of the second payment, queried, with their *)
(*   slip, slip2    receipts                                               *)
(*   seen, seen2    the refunds, as the observer reads them                *)
(* A webhook and a query both carry created_at, 1; what has none carries   *)
(* the time it is read at, 2; the observer reads from 3 on.                *)
(***************************************************************************)
EXTENDS Reconciliation, TLC

CONSTANTS pay, sale, refund, hook, hook2, oms, api, api2, looked, looked2, mine, other,
  seen, seen2, payment, payment2, order, order2, slip, slip2, fake, w1, w2

K(internal, provider, domain) == [internal |-> internal, provider |-> provider, domain |-> domain]

KeysOf ==
  pay :> K(order, payment, NoRef) @@ sale :> K(order, NoRef, NoRef) @@
  refund :> K(slip, payment2, NoRef) @@
  hook :> K(order, payment, "PAYMENT") @@ hook2 :> K(order2, payment2, "PAYMENT") @@
  api :> K(order, payment, "PAYMENT") @@ api2 :> K(order2, payment2, "PAYMENT") @@
  looked :> K(order, payment, NoRef) @@ looked2 :> K(order2, payment2, NoRef) @@
  oms :> K(order, NoRef, NoRef) @@
  mine :> K(slip, payment2, "REFUND") @@ other :> K(slip2, payment2, "REFUND") @@
  seen :> K(payment2, mine, NoRef) @@ seen2 :> K(payment2, other, NoRef)
AmountOf == [x \in Expectations \union Rows |-> IF x = hook THEN 2 ELSE 1]
OneAmount == [x \in Expectations \union Rows |-> 1]
ExpectedOf == [e \in Expectations |-> IF e \in {pay, sale} THEN "FAILED" ELSE "SETTLED"]
ReferenceOf ==
  [r \in Rows |-> CASE r = oms -> order [] r \in {mine, seen} -> mine [] r \in {other, seen2} -> other
                    [] r \in {hook2, api2, looked2} -> payment2 [] OTHER -> payment]
ProviderOf == [r \in Rows |-> IF r = oms THEN "merchant" ELSE "razorpay"]
DomainOf == [e \in Expectations |-> IF e \in {pay, sale} THEN "PAYMENT" ELSE "REFUND"]
TypeOf == [r \in Rows |-> IF r \in {mine, other, seen, seen2} THEN "REFUND" ELSE "PAYMENT"]

CreatedOf == [r \in ApiRows |-> 1]
SeenOf == [r \in Records |-> CASE r = api -> looked [] r = api2 -> looked2 [] r = oms -> oms
                              [] r = mine -> seen [] r = other -> seen2]
At(status, at) == {[status |-> status, at |-> at]}
\* Two sources that disagree; a webhook and later the order; the order with a webhook
\* of either payment; the second payment is only authorized.
PaymentTwice == [r \in Rows |-> IF r = hook THEN At("SETTLED", 1) ELSE At("FAILED", 2)]
PaymentAndOrder ==
  [r \in Rows |-> CASE r = hook -> At("SETTLED", 1) [] r = oms -> At("FAILED", 2) [] OTHER -> {}]
PaymentsAndOrder ==
  [r \in Rows |-> CASE r = hook -> At("SETTLED", 1) [] r = oms -> At("PENDING", 1) \union At("FAILED", 2)
                    [] r = hook2 -> At("PENDING", 1) [] OTHER -> {}]
Authorized == [r \in Rows |-> IF r = hook2 THEN At("PENDING", 1) ELSE {}]

NoTruth == {[r \in Records |-> "ABSENT"]}
Truths ==
  {[r \in Records |-> IF r = mine THEN s ELSE IF r = oms THEN "FAILED" ELSE "SETTLED"] :
    s \in {"ABSENT", "SETTLED"}}
Unrefunded == {[r \in Records |-> IF r \in {mine, other} THEN "ABSENT" ELSE "SETTLED"]}

Says(supporting, contradicting, disposition, intents) ==
  [supporting |-> supporting, contradicting |-> contradicting,
   disposition |-> disposition, intents |-> intents]
Queries == Says({}, {}, "VERIFICATION_PROPOSED", <<"QUERY_PROVIDER_STATE">>)
OneQuery == {Queries}
Said ==
  {Queries,
   Says({<<hook2, "PENDING">>}, {}, "VERIFICATION_PROPOSED",
        <<"QUERY_PROVIDER_STATE", "QUERY_PROVIDER_TRANSACTION">>),
   Says({}, {<<fake, "SETTLED">>}, "VERIFICATION_PROPOSED", <<"QUERY_PROVIDER_STATE">>),
   Says({}, {}, "INVESTIGATION_EXHAUSTED", <<>>),
   Says({}, {}, "VERIFICATION_PROPOSED", <<"REFUND_PAYMENT">>)}
===============================================================================
