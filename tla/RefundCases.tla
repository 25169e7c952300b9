---------------------------- MODULE RefundCases ----------------------------
(***************************************************************************)
(* From raw records to classified cases, as FinancialControlOrchestrator   *)
(* composes it (src/src/orchestration/financial_orchestrator.py): records  *)
(* are correlated with the refund intents by receipt, each context's       *)
(* observations reconstruct a state, and the state is reconciled with the  *)
(* intent's expectation.  A raw record is [source, event, entity, receipt, *)
(* status, confidence, at, amount, currency]; its `at' is the creation     *)
(* time of the refund it is about, or None.                                *)
(***************************************************************************)
EXTENDS StateEngine

CONSTANTS
  Intents,      \* the refund intents of the OMS
  Expectation,  \* per intent: [at, amount, currency]
  Orphans,      \* the context UNMATCHED, of receipts no intent has
  Sla,          \* ExpectedRefund.sla_seconds
  Buffer,       \* the five minutes a record may precede its intent
  Tolerance     \* temporal_tolerance_days

ASSUME CasesAssumption ==
  /\ Expectation \in [Intents -> [at : Nat, amount : Nat, currency : STRING]]
  /\ Orphans \notin Intents /\ None \notin Intents
  /\ {Sla, Buffer, Tolerance} \subseteq Nat

Contexts == Intents \union {Orphans}

Discrepancies == {"MATCH", "IN_FLIGHT_PENDING", "EPISTEMIC_STALEMATE", "ABSENT_EXECUTION",
                  "VALUE_MISMATCH", "CURRENCY_MISMATCH", "CONTRADICTORY_TERMINALITY",
                  "ORPHANED_EXECUTION", "EXCESS_EFFECT"}

\* Evidence.timestamp: the normalisers fall back on the time of the batch.
Timestamp(r, now) == IF r.at = None THEN now ELSE r.at

\* correlate_refund: the records of a context, by their place in the order they
\* arrived.  A record without a receipt belongs to none.
Records(c, raw) ==
  {k \in DOMAIN raw : IF c = Orphans THEN raw[k].receipt \notin Intents \union {None}
                                     ELSE raw[k].receipt = c}

\* Mutant of Correlated: the bounds of the window are not checked.
CorrelatedAlways(c, r, now) == TRUE

\* CORRELATED, not TEMPORAL_VIOLATION; an orphan is UNMATCHED and observed too.
Correlated(c, r, now) ==
  c = Orphans \/ (/\ Timestamp(r, now) + Buffer >= Expectation[c].at
                  /\ Timestamp(r, now) <= Expectation[c].at + Tolerance)

Observed(c, raw, now) == {k \in Records(c, raw) : Correlated(c, raw[k], now)}

\* derive_observations: the status of a webhook and of an API record, the
\* authority of the latter only.
Observations(c, raw, now) ==
  [k \in Observed(c, raw, now) |->
     [ts |-> IF raw[k].at = None THEN 0 ELSE raw[k].at,
      seen |-> Timestamp(raw[k], now),
      status |-> raw[k].status,
      confidence |-> IF raw[k].source = "razorpay_api" THEN raw[k].confidence ELSE None]]

\* ValueError ends the whole batch: ExpectedRefund raises it for an amount that
\* is not positive, reconstruct_state for the orphans of two different refunds,
\* which do not fit one entity.
Aborts(raw) == \/ \E i \in Intents : Expectation[i].amount = 0
               \/ \E j, k \in Records(Orphans, raw) : raw[j].entity # raw[k].entity

\* The evidence type of the record contains PROCESSED or CREATED.
Counted(r) == \/ r.source = "razorpay_webhook" /\ r.event \in {"CREATED", "PROCESSED"}
              \/ r.source = "razorpay_api" /\ r.status \in {"CREATED", "PROCESSED"}

\* Mutant of Executions: a redelivered notification counts twice.
ExecutionsPerRecord(c, raw) == Cardinality({k \in Records(c, raw) : Counted(raw[k])})

\* matching_executions_count: the refunds counted, by records outside the window
\* too.
Executions(c, raw) ==
  Cardinality({raw[k].entity : k \in {j \in Records(c, raw) : Counted(raw[j])}})

\* The correlated record whose amount and currency are compared: of those with
\* the latest timestamp the one that arrived last (a stable sort).
Latest(c, raw, now) ==
  LET seen == Observed(c, raw, now)
      later(j, k) == \/ Timestamp(raw[j], now) < Timestamp(raw[k], now)
                     \/ Timestamp(raw[j], now) = Timestamp(raw[k], now) /\ j <= k
  IN raw[CHOOSE k \in seen : \A j \in seen : later(j, k)]

EffectuallyExecuted(s) == s.execution = "EXECUTED" \/ s.financial = "REFUNDED"

\* An orphan has no expectation and is never actionable.
ClassifyOrphan(s) ==
  IF EffectuallyExecuted(s) THEN "ORPHANED_EXECUTION" ELSE "EPISTEMIC_STALEMATE"

\* A verified execution is compared with the intent; `record' is the one whose
\* amount and currency were observed, or None.
ClassifyExecution(e, record) ==
  LET differs(field) == record # None /\ record[field] # None /\ record[field] # e[field]
  IN IF differs("currency") THEN "CURRENCY_MISMATCH"
     ELSE IF differs("amount") THEN "VALUE_MISMATCH" ELSE "MATCH"

\* What is not executed waits for its deadline; absence must then be proven.
ClassifyUnexecuted(e, s, now) ==
  IF now < e.at + Sla THEN "IN_FLIGHT_PENDING"
  ELSE IF s.knowledge = "VERIFIED" /\ s.execution = "NOT_EXECUTED" /\ s.financial = None
  THEN "ABSENT_EXECUTION"
  ELSE "EPISTEMIC_STALEMATE"

\* reconcile, in the order of its returns.  Without observations the state is
\* UNKNOWN, which is classified as its branch for a missing state does.
Classify(e, s, now, record, executions) ==
  LET verified == s.knowledge = "VERIFIED"
  IN IF executions > 1 /\ EffectuallyExecuted(s) THEN "EXCESS_EFFECT"
     ELSE IF verified /\ s.financial = "FAILED" THEN "CONTRADICTORY_TERMINALITY"
     ELSE IF verified /\ EffectuallyExecuted(s) THEN ClassifyExecution(e, record)
     ELSE ClassifyUnexecuted(e, s, now)

\* ingest_and_generate_cases for one context: every result one run of it can
\* have.  None where there is no case: no record made the context UNMATCHED.
Case(c, raw, now) ==
  LET observed == Observed(c, raw, now)
      states == {Reconstruct(s) : s \in SortedOrders(Observations(c, raw, now))}
      record == IF observed = {} THEN None ELSE Latest(c, raw, now)
      result(s) == IF c = Orphans THEN ClassifyOrphan(s)
                   ELSE Classify(Expectation[c], s, now, record, Executions(c, raw))
  IN IF c = Orphans /\ observed = {} THEN {None}
     ELSE {[type |-> result(s), state |-> s] : s \in states}

\* evaluate_refund_eligibility: ALLOW_REFUND.
Eligible(s, confidence) ==
  s.knowledge = "VERIFIED" /\ s.financial = None /\ confidence = NotExecuted
=============================================================================
