-------------------------- MODULE MCRefundRecovery --------------------------
(***************************************************************************)
(* Instances of RefundRecovery for TLC: one intent, refunds by others of   *)
(* another amount, of the right one and under a receipt no intent has.     *)
(***************************************************************************)
EXTENDS RefundRecovery, TLC

CONSTANTS intent, stray, d1, d2

OneExpectation == [i \in Intents |-> [at |-> 1, amount |-> 1, currency |-> "INR"]]
WrongAmount == [receipt |-> intent, amount |-> 2, currency |-> "INR"]
StrayRefund == [receipt |-> stray, amount |-> 1, currency |-> "INR"]
Others == {WrongAmount, StrayRefund}
OnlyWrong == {WrongAmount}
OnlyRight == {[WrongAmount EXCEPT !.amount = 1]}
=============================================================================
