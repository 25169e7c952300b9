------------------------ MODULE MCWebhookIngestion ------------------------
(***************************************************************************)
(* Instances of WebhookIngestion for TLC: two notifications of one         *)
(* payment, the second one without created_at, so that the clock stands in *)
(* for it, and one webhook that cannot be normalised.                      *)
(***************************************************************************)
EXTENDS WebhookIngestion, TLC

CONSTANTS authorized, captured, garbled, pay, w1, w2

OnePayment == {pay}
PaymentOf == [h \in Webhooks |-> pay]
StatusOf == [h \in Webhooks |-> IF h = captured THEN "captured" ELSE "authorized"]
TimeOf == [h \in Webhooks |-> IF h = captured THEN NoTime ELSE 1]
=============================================================================
