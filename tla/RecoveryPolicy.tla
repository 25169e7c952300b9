-------------------------- MODULE RecoveryPolicy ---------------------------
(***************************************************************************)
(* The pure functions the control loop decides with, over the latest       *)
(* canonical status of each provider: the status vocabularies, the         *)
(* expectation-centric reconciliation and the policy.  Amounts, currencies *)
(* and references are equal on both sides, so the branches that compare    *)
(* them are not taken.                                                     *)
(***************************************************************************)

Providers == {"merchant", "razorpay"}

\* What the external systems hold.
MerchantOrder == {"UNPAID", "PAID", "CANCELLED"}
Payment == {"authorized", "captured", "refunded"}

CanonicalStatus == {"PENDING", "SETTLED", "FAILED", "REFUNDED", "UNKNOWN"}

Actions == {"REPAIR_MERCHANT_STATE", "REFUND_PAYMENT"}
Intents == Actions \union {"ESCALATE"}

\* The status of an order as it is ingested.
IngestedMerchant(order) ==
  CASE order = "PAID"      -> "SETTLED"
    [] order = "UNPAID"    -> "PENDING"
    [] order = "CANCELLED" -> "FAILED"

\* map_razorpay_payment_status: webhooks and the verifier.
IngestedPayment(payment) ==
  CASE payment = "authorized" -> "PENDING"
    [] payment = "captured"   -> "SETTLED"
    [] payment = "refunded"   -> "REFUNDED"

\* observe_merchant_order: everything that is not PAID reads as PENDING, a
\* cancelled order included.
ObservedMerchant(order) == IF order = "PAID" THEN "SETTLED" ELSE "PENDING"

\* observe_provider_payment.
ObservedPayment(payment) ==
  CASE payment = "captured"   -> "SETTLED"
    [] payment = "refunded"   -> "REFUNDED"
    [] payment = "authorized" -> "UNKNOWN"

\* The status comparison: FAILED also accepts REFUNDED.
StatusMatches(expected, status) ==
  \/ status = expected
  \/ expected = "FAILED" /\ status = "REFUNDED"

\* evaluate_expectation_centric on one execution group: every provider's
\* latest status is the expected one.
Matches(expected, view) ==
  \A p \in Providers : StatusMatches(expected, view[p])

\* V2PolicyEvaluator.evaluate.
Evaluate(view) ==
  CASE view["razorpay"] = "SETTLED" /\ view["merchant"] = "PENDING"
         -> "REPAIR_MERCHANT_STATE"
    [] view["razorpay"] = "SETTLED" /\ view["merchant"] = "FAILED"
         -> "REFUND_PAYMENT"
    [] OTHER -> "ESCALATE"
=============================================================================
