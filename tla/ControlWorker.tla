--------------------------- MODULE ControlWorker ---------------------------
(***************************************************************************)
(* V2ControlWorker (src/src/engine/worker.py): the steps of any number of  *)
(* worker processes that share the incident rows, the Governance Gate, the *)
(* control-event queue and the external systems.                           *)
(*                                                                         *)
(* A step is one transaction or one external call; between two steps of a  *)
(* worker anything else may happen, a crash of the worker included.  pc[w] *)
(* names the next step of worker w, job[w] holds the local variables of    *)
(* the poll iteration.  From "assemble" to "terminate" the worker is in    *)
(* the try block of _process_investigation: a failing step continues at    *)
(* "abort" (except Exception) or "transient" (InvestigatorError and        *)
(* OperationalError).  Outside it a failing step fails the event.          *)
(***************************************************************************)
EXTENDS GovernanceGate, FiniteSets

CONSTANTS Events,          \* DISCREPANCY_DETECTED events that may be published
          EventOf,         \* the incident each event is about
          NoEvent,
          StatusIncidents, \* incidents whose discrepancy is one of status
          Expected,        \* per subject: expected_canonical_status
          MaxRetries,      \* 5 in the code
          WorldChanges,    \* what the outside world may do: named bound
          InitialOrders, InitialPayments

ASSUME IncidentsAssumption == IsFiniteSet(Incidents) /\ Incidents # {}

ASSUME WorkerAssumption ==
  /\ EventOf \in [Events -> Incidents]
  /\ NoEvent \notin Events
  /\ StatusIncidents \subseteq Incidents
  /\ Expected \in [Subjects -> CanonicalStatus]
  /\ MaxRetries \in Nat
  /\ InitialOrders \subseteq MerchantOrder
  /\ InitialPayments \subseteq Payment

VARIABLES event,           \* status of each control event
          order, payment,  \* the external systems, per subject
          inflight,        \* refund requests that timed out and may still land
          applied,         \* history: mutations that took effect, per key
          obs,             \* persisted latest status, per subject and provider
          pc, job

worldVars == <<order, payment, inflight, applied>>
workerVars == <<pc, job>>
vars == <<storeVars, gateVars, event, worldVars, obs, workerVars>>

EventStatus == {"UNPUBLISHED", "PENDING", "IN_PROGRESS", "PROCESSED", "FAILED"}
Views == [Providers -> CanonicalStatus]

\* In the try block.
InTry == { "assemble", "investigate", "verify", "recheck", "commit", "gate",
           "actuating", "dispatch", "outcome", "reobserving", "observe",
           "persist", "retry", "terminate" }
OutsideTry == {"claiming", "leasing", "guard", "drop", "transient", "abort"}
Labels == {"idle", "ack", "nack"} \union InTry \union OutsideTry

Job == [ inc: Incidents, ev: Events \union {NoEvent}, reuse: BOOLEAN,
         retries: Nat, version: Nat, view: Views, fresh: SUBSET Providers,
         conflict: BOOLEAN, intent: Intents, goal: IncidentState,
         outcome: Outcomes ]

\* The local variables of a worker that is between two iterations.
NoJob(e) ==
  [ inc |-> CHOOSE i \in Incidents : TRUE, ev |-> e, reuse |-> FALSE,
    retries |-> 0, version |-> 0, view |-> [p \in Providers |-> "UNKNOWN"],
    fresh |-> {}, conflict |-> FALSE, intent |-> "ESCALATE",
    goal |-> "RESOLVED", outcome |-> "SUCCESS" ]

TypeOK ==
  /\ StoreTypeOK
  /\ GateTypeOK
  /\ event \in [Events -> EventStatus]
  /\ order \in [Subjects -> MerchantOrder]
  /\ payment \in [Subjects -> Payment]
  /\ inflight \in [Keys -> Nat]
  /\ applied \in [Keys -> Nat]
  /\ obs \in [Subjects -> Views]
  /\ pc \in [Workers -> Labels]
  /\ job \in [Workers -> Job]

Ingested(s) ==
  [p \in Providers |-> IF p = "merchant" THEN IngestedMerchant(order[s])
                                         ELSE IngestedPayment(payment[s])]
Observed(s) ==
  [p \in Providers |-> IF p = "merchant" THEN ObservedMerchant(order[s])
                                         ELSE ObservedPayment(payment[s])]

Init ==
  /\ StoreInit
  /\ GateInit
  /\ event = [e \in Events |-> "UNPUBLISHED"]
  /\ order \in [Subjects -> InitialOrders]
  /\ payment \in [Subjects -> InitialPayments]
  /\ inflight = [k \in Keys |-> 0]
  /\ applied = [k \in Keys |-> 0]
  /\ obs = [s \in Subjects |-> Ingested(s)]
  /\ pc = [w \in Workers |-> "idle"]
  /\ job = [w \in Workers |-> NoJob(NoEvent)]

\* The discrepancy of incident i is gone in the statuses of view v.
Agrees(i, v) == i \in StatusIncidents /\ Matches(Expected[i[1]], v)

Inc(w) == job[w].inc
Subject(w) == job[w].inc[1]
KeyOf(w) == Key(job[w].inc, job[w].intent)

----------------------------------------------------------------------------
Goto(w, label) == pc' = [pc EXCEPT ![w] = label]
Keep(w) == UNCHANGED job

\* Go on to terminate_incident with the state goal.
TerminateWith(w, goal) ==
  /\ Goto(w, "terminate")
  /\ job' = [job EXCEPT ![w].goal = goal]

\* The handler returns (verdict "ack") or raises ("nack"): the event is still
\* to be marked.  A matured retry has no event.
Leave(w, verdict) ==
  /\ Goto(w, IF job[w].ev = NoEvent THEN "idle" ELSE verdict)
  /\ job' = [job EXCEPT ![w] = NoJob(job[w].ev)]

\* poll_pending_events, for one event of the batch.
PollEvent(w, e) ==
  /\ pc[w] = "idle"
  /\ event[e] = "PENDING"
  /\ event' = [event EXCEPT ![e] = "IN_PROGRESS"]
  /\ Goto(w, "claiming")
  /\ job' = [job EXCEPT ![w].ev = e, ![w].inc = EventOf[e]]
  /\ UNCHANGED <<storeVars, gateVars, worldVars, obs>>

\* mark_processed and mark_failed; neither checks who polled the event.
MarkEvent(w) ==
  /\ pc[w] \in {"ack", "nack"}
  /\ event' = [event EXCEPT ![job[w].ev] =
                 IF pc[w] = "ack" THEN "PROCESSED" ELSE "FAILED"]
  /\ Goto(w, "idle")
  /\ job' = [job EXCEPT ![w] = NoJob(NoEvent)]
  /\ UNCHANGED <<storeVars, gateVars, worldVars, obs>>

\* _handle_discrepancy: try_claim_incident, then acquire_lease.
ClaimIncident(w) ==
  /\ pc[w] = "claiming"
  /\ TryClaimIncident(Inc(w))
  /\ Goto(w, "leasing")
  /\ Keep(w)
  /\ UNCHANGED <<gateVars, event, worldVars, obs>>

\* The record the lease returns is the worker's snapshot of the row.
Snapshot(w, i, e, s) ==
  job' = [job EXCEPT ![w].inc = i, ![w].ev = e, ![w].reuse = (s = "VERIFYING"),
                     ![w].retries = retries[i], ![w].version = version[i]]

Lease(w) ==
  /\ pc[w] = "leasing"
  /\ AcquireLease(w, Inc(w))
  /\ Snapshot(w, Inc(w), job[w].ev, state[Inc(w)])
  /\ Goto(w, "guard")
  /\ UNCHANGED <<gateVars, event, worldVars, obs>>

LeaseRefused(w) ==
  /\ pc[w] = "leasing"
  /\ ~CanLease(w, Inc(w))
  /\ Leave(w, "ack")
  /\ UNCHANGED <<storeVars, gateVars, event, worldVars, obs>>

\* acquire_matured_retries and _handle_matured_retry, for one incident.
PollRetry(w, i) ==
  /\ pc[w] = "idle"
  /\ AcquireMaturedRetry(w, i)
  /\ Snapshot(w, i, NoEvent, state[i])
  /\ Goto(w, "guard")
  /\ UNCHANGED <<gateVars, event, worldVars, obs>>

----------------------------------------------------------------------------
\* The stale-event guard reads the persisted observations, before the try.
StaleGuard(w) ==
  /\ pc[w] = "guard"
  /\ Goto(w, IF Agrees(Inc(w), obs[Subject(w)]) THEN "drop" ELSE "assemble")
  /\ Keep(w)
  /\ UNCHANGED <<storeVars, gateVars, event, worldVars, obs>>

\* Its terminate_incident(RESOLVED); an illegal transition fails the event.
DropStale(w) ==
  /\ pc[w] = "drop"
  /\ \/ TerminateIncident(Inc(w), "RESOLVED") /\ Leave(w, "ack")
     \/ /\ ~CanTransition(state[Inc(w)], "RESOLVED")
        /\ UNCHANGED storeVars
        /\ Leave(w, "nack")
  /\ UNCHANGED <<gateVars, event, worldVars, obs>>

\* A2: the context is read once, here; the policy uses it much later.
Assemble(w) ==
  /\ pc[w] = "assemble"
  /\ job' = [job EXCEPT ![w].view = obs[Subject(w)]]
  /\ Goto(w, IF job[w].reuse THEN "verify" ELSE "investigate")
  /\ UNCHANGED <<storeVars, gateVars, event, worldVars, obs>>

\* A3 returns a validated hypothesis: update_hypothesis.  A worker that lost
\* the lease saves nothing and goes on.
Investigate(w) ==
  /\ pc[w] = "investigate"
  /\ Keep(w)
  /\ \/ UpdateHypothesis(w, Inc(w)) /\ Goto(w, "verify")
     \/ /\ Owns(w, Inc(w)) /\ ~CanTransition(state[Inc(w)], "VERIFYING")
        /\ UNCHANGED storeVars
        /\ Goto(w, "abort")
     \/ ~Owns(w, Inc(w)) /\ UNCHANGED storeVars /\ Goto(w, "verify")
  /\ UNCHANGED <<gateVars, event, worldVars, obs>>

\* A3 returns a hypothesis the validator rejects, or raises InvestigatorError.
InvestigationFails(w) ==
  /\ pc[w] = "investigate"
  /\ \/ TerminateWith(w, "ESCALATED_UNKNOWN")
     \/ Goto(w, "transient") /\ Keep(w)
  /\ UNCHANGED <<storeVars, gateVars, event, worldVars, obs>>

\* A4: the provider could not be reached (FAILED) or refused (REJECTED).
VerificationFails(w) ==
  /\ pc[w] = "verify"
  /\ \/ TerminateWith(w, "ESCALATED_MISSING_EVIDENCE")
     \/ /\ job[w].retries < MaxRetries
        /\ Goto(w, "retry")
        /\ Keep(w)
  /\ UNCHANGED <<storeVars, gateVars, event, worldVars, obs>>

\* A4 succeeded.  The verifier's observation of the payment carries the
\* created_at of the payment: a status that differs from the context's either
\* ties with it, which the policy treats as contradictory, or is older than an
\* observation in the context and is ignored.
Verify(w) ==
  /\ pc[w] = "verify"
  /\ \E conflict \in BOOLEAN :
       LET view   == job[w].view
           intent == IF conflict THEN "ESCALATE" ELSE Evaluate(view)
       IN  /\ conflict => IngestedPayment(payment[Subject(w)]) # view["razorpay"]
           /\ job' = [job EXCEPT ![w].conflict = conflict, ![w].intent = intent]
           /\ Goto(w, IF Agrees(Inc(w), view) \/ intent # "ESCALATE"
                      THEN "commit" ELSE "recheck")
  /\ UNCHANGED <<storeVars, gateVars, event, worldVars, obs>>

\* The re-observation guard before an escalation: each provider is observed
\* again unless the fetch fails; a changed status counts as newest, and the
\* policy is evaluated once more.
Recheck(w) ==
  /\ pc[w] = "recheck"
  /\ \E fetched \in SUBSET Providers :
       LET now     == Observed(Subject(w))
           fresh   == {p \in fetched : \/ now[p] # job[w].view[p]
                                       \/ p = "razorpay" /\ job[w].conflict}
           view    == [p \in Providers |-> IF p \in fresh THEN now[p]
                                                          ELSE job[w].view[p]]
           stillConflict == job[w].conflict /\ "razorpay" \notin fresh
       IN  job' = [job EXCEPT ![w].view = view, ![w].fresh = fresh,
                     ![w].conflict = stillConflict,
                     ![w].intent = IF stillConflict \/ fresh = {}
                                   THEN "ESCALATE" ELSE Evaluate(view)]
  /\ Goto(w, "commit")
  /\ UNCHANGED <<storeVars, gateVars, event, worldVars, obs>>

\* The upsert of the statuses observed again.  It advances a row only if it is
\* older; timestamps are abstracted, so either may happen.
SaveObservations(w) ==
  \E saved \in SUBSET job[w].fresh :
    obs' = [obs EXCEPT ![Subject(w)] =
              [p \in Providers |-> IF p \in saved THEN job[w].view[p] ELSE @[p]]]

\* commit_verification_success, then on to RESOLVED, to
\* ESCALATED_POLICY_BLOCKED or to the gate.
Commit(w) ==
  /\ pc[w] = "commit"
  /\ CommitVerified(Inc(w))
  /\ SaveObservations(w)
  /\ \/ Agrees(Inc(w), job[w].view) /\ TerminateWith(w, "RESOLVED")
     \/ /\ ~Agrees(Inc(w), job[w].view)
        /\ job[w].intent = "ESCALATE"
        /\ TerminateWith(w, "ESCALATED_POLICY_BLOCKED")
     \/ /\ ~Agrees(Inc(w), job[w].view)
        /\ job[w].intent # "ESCALATE"
        /\ Goto(w, "gate")
        /\ Keep(w)
  /\ UNCHANGED <<gateVars, event, worldVars>>

----------------------------------------------------------------------------
\* Mutant of BlockedState: the status of the gate, not an incident state.
BlockedStateRaw(decision) == decision

\* The escalation of each refusal of the gate.
BlockedState(decision) ==
  CASE decision = "BLOCKED_BY_KILL_SWITCH" -> "ESCALATED_PAUSED_BY_KILL_SWITCH"
    [] decision = "BLOCKED_BY_BUDGET"      -> "ESCALATED_BUDGET_EXHAUSTED"
    [] OTHER                               -> "ESCALATED_UNKNOWN"

GateBlocks(w) ==
  /\ pc[w] = "gate"
  /\ LET decision == GateDecision(Inc(w), job[w].intent, job[w].version)
     IN  /\ decision # "ALLOWED"
         /\ TerminateWith(w, BlockedState(decision))
  /\ UNCHANGED <<storeVars, gateVars, event, worldVars, obs>>

GateAllows(w) ==
  /\ pc[w] = "gate"
  /\ GateDecision(Inc(w), job[w].intent, job[w].version) = "ALLOWED"
  /\ Claim(Inc(w), job[w].intent)
  /\ Goto(w, "actuating")
  /\ Keep(w)
  /\ UNCHANGED <<event, worldVars, obs>>

\* A transition_to_* call: an illegal transition is an unexpected error.
Advance(w, from, s, to) ==
  /\ pc[w] = from
  /\ Keep(w)
  /\ \/ TransitionTo(Inc(w), s) /\ Goto(w, to)
     \/ /\ ~CanTransition(state[Inc(w)], s)
        /\ UNCHANGED storeVars
        /\ Goto(w, "abort")
  /\ UNCHANGED <<gateVars, event, worldVars, obs>>

StartActuating(w) == Advance(w, "actuating", "ACTUATING", "dispatch")
StartReobserving(w) == Advance(w, "reobserving", "REOBSERVING", "observe")

\* Mutant of Answer: a timeout is taken for a refusal.
AnswerTimeoutRejected(w, outcome) ==
  /\ Goto(w, "outcome")
  /\ job' = [job EXCEPT ![w].outcome =
                IF outcome = "TIMEOUT_UNKNOWN" THEN "REJECTED" ELSE outcome]

Answer(w, outcome) ==
  /\ Goto(w, "outcome")
  /\ job' = [job EXCEPT ![w].outcome = outcome]

CountEffect(k) == applied' = [applied EXCEPT ![k] = @ + 1]

\* update_merchant_order: compare-and-swap on the state of the payment, not of
\* the order; an injected fault answers before anything is changed.
DispatchRepair(w) ==
  LET s == Subject(w)
  IN  /\ pc[w] = "dispatch"
      /\ job[w].intent = "REPAIR_MERCHANT_STATE"
      /\ \/ /\ \E fault \in {"REJECTED", "TIMEOUT_UNKNOWN"} : Answer(w, fault)
            /\ UNCHANGED <<order, applied>>
         \/ /\ payment[s] = "captured"
            /\ Answer(w, "SUCCESS")
            /\ order' = [order EXCEPT ![s] = "PAID"]
            /\ IF order[s] = "PAID" THEN UNCHANGED applied
                                    ELSE CountEffect(KeyOf(w))
      /\ UNCHANGED <<storeVars, gateVars, event, payment, inflight, obs>>

\* create_refund at the provider: refused, done, or timed out with the request
\* lost, still on its way, or done.
DispatchRefund(w) ==
  LET s == Subject(w)
      k == KeyOf(w)
  IN  /\ pc[w] = "dispatch"
      /\ job[w].intent = "REFUND_PAYMENT"
      /\ \/ /\ \E fault \in {"REJECTED", "TIMEOUT_UNKNOWN"} : Answer(w, fault)
            /\ UNCHANGED <<payment, inflight, applied>>
         \/ /\ Answer(w, "TIMEOUT_UNKNOWN")
            /\ inflight' = [inflight EXCEPT ![k] = @ + 1]
            /\ UNCHANGED <<payment, applied>>
         \/ /\ payment[s] = "captured"
            /\ \E reply \in {"SUCCESS", "TIMEOUT_UNKNOWN"} : Answer(w, reply)
            /\ payment' = [payment EXCEPT ![s] = "refunded"]
            /\ CountEffect(k)
            /\ UNCHANGED inflight
      /\ UNCHANGED <<storeVars, gateVars, event, order, obs>>

\* The second transaction of execute_claimed_intent, and the branch on it.
RecordOutcome(w) ==
  /\ pc[w] = "outcome"
  /\ actuation' = [actuation EXCEPT ![KeyOf(w)] = job[w].outcome]
  /\ IF job[w].outcome = "REJECTED"
     THEN TerminateWith(w, "ESCALATED_MUTATION_FAILED")
     ELSE Goto(w, "reobserving") /\ Keep(w)
  /\ UNCHANGED <<storeVars, automation, countUsed, monetaryUsed, event,
                 worldVars, obs>>

\* The provider an action changes, and the only one observed after it.
TargetOf(a) == IF a = "REPAIR_MERCHANT_STATE" THEN "merchant" ELSE "razorpay"

\* Mutant of Observe: the dispatch is taken for its effect.
ObserveNothing(w) ==
  /\ pc[w] = "observe"
  /\ Goto(w, "persist")
  /\ Keep(w)
  /\ UNCHANGED <<storeVars, gateVars, event, worldVars, obs>>

\* OBSERVE AGAIN and VERIFY OUTCOME: the rest of the view is the context's.
Observe(w) ==
  LET p    == TargetOf(job[w].intent)
      view == [job[w].view EXCEPT ![p] = Observed(Subject(w))[p]]
  IN  /\ pc[w] = "observe"
      /\ \/ /\ Agrees(Inc(w), view)
            /\ job' = [job EXCEPT ![w].view = view, ![w].fresh = @ \union {p}]
            /\ Goto(w, "persist")
         \/ ~Agrees(Inc(w), view) /\ TerminateWith(w, "ESCALATED_CONVERGENCE_FAILED")
      /\ UNCHANGED <<storeVars, gateVars, event, worldVars, obs>>

\* The provider refuses (no observation) or cannot be reached (an unexpected
\* error).  The merchant simulator is in-process and always answers.
ObserveFails(w) ==
  /\ pc[w] = "observe"
  /\ job[w].intent = "REFUND_PAYMENT"
  /\ \/ /\ ~Agrees(Inc(w), job[w].view)
        /\ TerminateWith(w, "ESCALATED_CONVERGENCE_FAILED")
     \/ Goto(w, "abort") /\ Keep(w)
  /\ UNCHANGED <<storeVars, gateVars, event, worldVars, obs>>

\* persist_reobservation_and_resolve.  Its second transaction publishes an
\* OBSERVATION_INGESTED event, whose handler is Publish; when only that one
\* fails, the incident is resolved and the error is transient.
Persist(w) ==
  /\ pc[w] = "persist"
  /\ \/ /\ TerminateIncident(Inc(w), "RESOLVED")
        /\ SaveObservations(w)
        /\ Leave(w, "ack") \/ (Goto(w, "transient") /\ Keep(w))
     \/ /\ ~CanTransition(state[Inc(w)], "RESOLVED")
        /\ UNCHANGED <<storeVars, obs>>
        /\ Goto(w, "abort")
        /\ Keep(w)
  /\ UNCHANGED <<gateVars, event, worldVars>>

----------------------------------------------------------------------------
\* terminate_incident inside the try block.
Terminate(w) ==
  /\ pc[w] = "terminate"
  /\ \/ TerminateIncident(Inc(w), job[w].goal) /\ Leave(w, "ack")
     \/ /\ ~CanTransition(state[Inc(w)], job[w].goal)
        /\ UNCHANGED storeVars
        /\ Goto(w, "abort")
        /\ Keep(w)
  /\ UNCHANGED <<gateVars, event, worldVars, obs>>

\* except Exception: escalate; if that is illegal too, the event fails.
Abort(w) ==
  /\ pc[w] = "abort"
  /\ \/ TerminateIncident(Inc(w), "ESCALATED_UNKNOWN") /\ Leave(w, "ack")
     \/ /\ ~CanTransition(state[Inc(w)], "ESCALATED_UNKNOWN")
        /\ UNCHANGED storeVars
        /\ Leave(w, "nack")
  /\ UNCHANGED <<gateVars, event, worldVars, obs>>

\* schedule_retry; without the lease it is a no-op.
RetryLater(w) ==
  \/ ScheduleRetry(w, Inc(w)) /\ Leave(w, "ack")
  \/ ~Owns(w, Inc(w)) /\ UNCHANGED storeVars /\ Leave(w, "ack")

RetryIsIllegal(w) ==
  /\ Owns(w, Inc(w))
  /\ ~CanTransition(state[Inc(w)], "INVESTIGATING")
  /\ UNCHANGED storeVars

\* Called for a FAILED verification.
Retry(w) ==
  /\ pc[w] = "retry"
  /\ RetryLater(w) \/ (RetryIsIllegal(w) /\ Goto(w, "abort") /\ Keep(w))
  /\ UNCHANGED <<gateVars, event, worldVars, obs>>

\* except (InvestigatorError, OperationalError).
Transient(w) ==
  /\ pc[w] = "transient"
  /\ IF job[w].retries < MaxRetries
     THEN RetryLater(w) \/ (RetryIsIllegal(w) /\ Leave(w, "nack"))
     ELSE \/ TerminateIncident(Inc(w), "ESCALATED_UNKNOWN") /\ Leave(w, "ack")
          \/ /\ ~CanTransition(state[Inc(w)], "ESCALATED_UNKNOWN")
             /\ UNCHANGED storeVars
             /\ Leave(w, "nack")
  /\ UNCHANGED <<gateVars, event, worldVars, obs>>

\* A transaction fails with OperationalError and is rolled back; the steps
\* named are calls to the providers.
DatabaseFails(w) ==
  /\ pc[w] \notin {"idle", "ack", "nack", "verify", "recheck", "dispatch", "observe"}
  /\ IF pc[w] \in InTry THEN Goto(w, "transient") /\ Keep(w) ELSE Leave(w, "nack")
  /\ UNCHANGED <<storeVars, gateVars, event, worldVars, obs>>

\* The process dies; a new one starts polling.
Crash(w) ==
  /\ pc[w] # "idle"
  /\ Goto(w, "idle")
  /\ job' = [job EXCEPT ![w] = NoJob(NoEvent)]
  /\ UNCHANGED <<storeVars, gateVars, event, worldVars, obs>>

----------------------------------------------------------------------------
\* Some worker handles an OBSERVATION_INGESTED event: targeted reconciliation
\* of the subject finds the discrepancy of the incident and publishes it.
Publish(e) ==
  /\ event[e] = "UNPUBLISHED"
  /\ ~Agrees(EventOf[e], obs[EventOf[e][1]])
  /\ event' = [event EXCEPT ![e] = "PENDING"]
  /\ UNCHANGED <<storeVars, gateVars, worldVars, obs, workerVars>>

\* Mutant of RecoverStale: the events that were marked failed.
RecoverFailed(e) ==
  /\ event[e] = "FAILED"
  /\ event' = [event EXCEPT ![e] = "PENDING"]
  /\ UNCHANGED <<storeVars, gateVars, worldVars, obs, workerVars>>

\* recover_stale_events: 300 seconds after the poll, whoever has the event.
RecoverStale(e) ==
  /\ event[e] = "IN_PROGRESS"
  /\ event' = [event EXCEPT ![e] = "PENDING"]
  /\ UNCHANGED <<storeVars, gateVars, worldVars, obs, workerVars>>

\* Ingestion advances the persisted status of a provider.
Ingest(s, p) ==
  /\ obs[s][p] # Ingested(s)[p]
  /\ obs' = [obs EXCEPT ![s][p] = Ingested(s)[p]]
  /\ UNCHANGED <<storeVars, gateVars, event, worldVars, workerVars>>

\* The outside world: the merchant and the payer act on their own.
WorldStep(s) ==
  /\ \/ /\ "pay" \in WorldChanges /\ order[s] = "UNPAID"
        /\ order' = [order EXCEPT ![s] = "PAID"]
        /\ UNCHANGED payment
     \/ /\ "cancel" \in WorldChanges /\ order[s] = "UNPAID"
        /\ order' = [order EXCEPT ![s] = "CANCELLED"]
        /\ UNCHANGED payment
     \/ /\ "capture" \in WorldChanges /\ payment[s] = "authorized"
        /\ payment' = [payment EXCEPT ![s] = "captured"]
        /\ UNCHANGED order
     \/ /\ "refund" \in WorldChanges /\ payment[s] = "captured"
        /\ payment' = [payment EXCEPT ![s] = "refunded"]
        /\ UNCHANGED order
  /\ UNCHANGED <<storeVars, gateVars, event, inflight, applied, obs, workerVars>>

\* A refund request that timed out reaches the provider after all.
RequestLands(k) ==
  /\ inflight[k] > 0
  /\ inflight' = [inflight EXCEPT ![k] = @ - 1]
  /\ \/ /\ payment[k[1]] = "captured"
        /\ payment' = [payment EXCEPT ![k[1]] = "refunded"]
        /\ CountEffect(k)
     \/ payment[k[1]] # "captured" /\ UNCHANGED <<payment, applied>>
  /\ UNCHANGED <<storeVars, gateVars, event, order, obs, workerVars>>
=============================================================================
