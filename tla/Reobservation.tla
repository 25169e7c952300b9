--------------------------- MODULE Reobservation ----------------------------
(***************************************************************************)
(* What follows answers that do not settle a discrepancy: the policy       *)
(* (engine/policy.py) on the observations of the context and the answers,  *)
(* and the observer (engine/observer.py), which reads the record behind an *)
(* observation once more.                                                  *)
(***************************************************************************)
EXTENDS Investigation

CONSTANTS
  Records,    \* ApiRows, and the rows that stand for an order of the merchant
  SeenAs,     \* per record: the row the observer makes of it
  ObsType,    \* per row: observation_type, PAYMENT or REFUND, without its API_
  Capitalised \* the rows whose provider is written Merchant or Razorpay

ASSUME ReobservationAssumption ==
  /\ ApiRows \subseteq Records /\ Records \subseteq Rows
  /\ SeenAs \in [Records -> Rows \ ApiRows]

-----------------------------------------------------------------------------
(* V2PolicyEvaluator.evaluate; context are the observations it was given   *)
(* to investigate, obs all there are by now.                               *)

Heard(p, obs) == \E j \in DOMAIN obs : Provider[obs[j].row] = p

\* ContradictoryEvidenceError: two statuses at the newest time.
Contradicted(p, obs) ==
  \E j \in DOMAIN obs :
    /\ Provider[obs[j].row] = p
    /\ obs[j].at = LatestOf(p, obs).at /\ obs[j].status # LatestOf(p, obs).status

\* Whom the expectation names, else the first of the context whose provider is
\* spelled with a capital.
Subject(p, key, context) ==
  LET spelled == {j \in DOMAIN context : Provider[context[j].row] = p /\ context[j].row \in Capitalised}
  IN  IF key # NoRef THEN key
      ELSE IF spelled = {} THEN NoRef
      ELSE Reference[context[CHOOSE j \in spelled : \A k \in spelled : j <= k].row]

\* Each side is heard, does not contradict itself, and speaks of the subject.
Established(e, context, obs) ==
  LET speaksOf(p, key) == Same(Subject(p, key, context), Reference[LatestOf(p, obs).row])
  IN  /\ \A p \in {"merchant", "razorpay"} : Heard(p, obs) /\ ~Contradicted(p, obs)
      /\ speaksOf("merchant", IF e = NoRef THEN NoRef ELSE Keys[e].internal)
      /\ speaksOf("razorpay", IF e = NoRef THEN NoRef ELSE Keys[e].provider)

Policy(e, context, obs) ==
  LET merchant == LatestOf("merchant", obs)
      provider == LatestOf("razorpay", obs)
  IN  IF ~Established(e, context, obs) \/ provider.status # "SETTLED" THEN "ESCALATE"
      ELSE IF merchant.status = "PENDING" /\ Amount[merchant.row] = Amount[provider.row]
      THEN "REPAIR_MERCHANT_STATE"
      ELSE IF merchant.status = "FAILED" THEN "REFUND_PAYMENT" ELSE "ESCALATE"

-----------------------------------------------------------------------------
(* SimulatedObserver.                                                      *)

\* What is asked for, of a row or about a record.
Kind(r) ==
  IF Provider[r] = "merchant" THEN "ORDER"
  ELSE IF (IF Keys[r].domain = NoRef THEN ObsType[r] ELSE Keys[r].domain) = "REFUND"
  THEN "REFUND" ELSE "PAYMENT"

\* The status of the record, as a query would give it, in the observer's words: a
\* processed refund is REFUNDED here and SETTLED there.
SeenStatus(kind, status) ==
  CASE kind = "ORDER"   -> IF status = "SETTLED" THEN "SETTLED" ELSE "PENDING"
    [] kind = "REFUND"  -> IF status = "SETTLED" THEN "REFUNDED" ELSE "UNKNOWN"
    [] kind = "PAYMENT" -> IF status = "PENDING" THEN "UNKNOWN" ELSE status

\* None, if there is no such record, or the observation of it.
Reads(kind, ref, truth, at) ==
  LET asked == {r \in Records : Kind(r) = kind /\ Reference[r] = ref /\ truth[r] # "ABSENT"}
  IN  IF asked = {} THEN {<<>>}
      ELSE {<<[row |-> SeenAs[r], status |-> SeenStatus(kind, truth[r]), at |-> at]>> : r \in asked}
=============================================================================
