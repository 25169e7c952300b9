---------------------------- MODULE ControlLoop -----------------------------
(***************************************************************************)
(* The whole control loop: any number of V2ControlWorkers, the operator    *)
(* API, the event queue, ingestion and the external systems, interleaved.  *)
(* poll_and_process repeats forever (scripts/worker_main.py).              *)
(***************************************************************************)
EXTENDS ControlWorker, OperatorApi

CONSTANTS Operations,  \* the operator endpoints in use
          Faults       \* what may fail: {"crash", "database"}

\* One iteration of a worker, step by step.
Iterate(w) ==
  \/ \E e \in Events : PollEvent(w, e)
  \/ \E i \in Incidents : PollRetry(w, i)
  \/ ClaimIncident(w)
  \/ Lease(w)
  \/ LeaseRefused(w)
  \/ StaleGuard(w)
  \/ DropStale(w)
  \/ Assemble(w)
  \/ Investigate(w)
  \/ InvestigationFails(w)
  \/ Verify(w)
  \/ VerificationFails(w)
  \/ Recheck(w)
  \/ Commit(w)
  \/ GateBlocks(w)
  \/ GateAllows(w)
  \/ StartActuating(w)
  \/ DispatchRepair(w)
  \/ DispatchRefund(w)
  \/ RecordOutcome(w)
  \/ StartReobserving(w)
  \/ Observe(w)
  \/ ObserveFails(w)
  \/ Persist(w)
  \/ Terminate(w)
  \/ Abort(w)
  \/ Retry(w)
  \/ Transient(w)
  \/ MarkEvent(w)

Fail(w) ==
  \/ "crash" \in Faults /\ Crash(w)
  \/ "database" \in Faults /\ DatabaseFails(w)

Untouched == UNCHANGED <<event, worldVars, obs, workerVars>>

Operator(i) ==
  /\ \/ "retry" \in Operations /\ OperatorRetry(i)
     \/ "resolve" \in Operations /\ OperatorResolve(i)
     \/ "escalate" \in Operations /\ OperatorEscalate(i)
  /\ UNCHANGED gateVars
  /\ Untouched

KillSwitch ==
  /\ \/ "pause" \in Operations /\ SetAutomation("PAUSED")
     \/ "resume" \in Operations /\ SetAutomation("ENABLED")
  /\ UNCHANGED storeVars
  /\ Untouched

Tick(i) ==
  /\ LeaseExpires(i) \/ BackoffElapses(i)
  /\ UNCHANGED gateVars
  /\ Untouched

Environment ==
  \/ \E e \in Events : Publish(e) \/ RecoverStale(e)
  \/ \E s \in Subjects : WorldStep(s) \/ \E p \in Providers : Ingest(s, p)
  \/ \E k \in Keys : RequestLands(k)

Next ==
  \/ \E w \in Workers : Iterate(w) \/ Fail(w)
  \/ \E i \in Incidents : Operator(i) \/ Tick(i)
  \/ KillSwitch
  \/ Environment

Spec == Init /\ [][Next]_vars

\* A live worker takes its next step, and poll_and_process looks at the
\* matured retries in every iteration, whatever events there are.  The clock
\* passes every deadline.  Nothing is assumed of crashes, of the database, of
\* operators, of the outside world, or of which branch a call takes.
Fairness ==
  /\ \A w \in Workers : /\ WF_vars(Iterate(w))
                        /\ \A i \in Incidents : SF_vars(PollRetry(w, i))
  /\ \A i \in Incidents : WF_vars(Tick(i))
  /\ \A e \in Events : WF_vars(RecoverStale(e))

FairSpec == Spec /\ Fairness

----------------------------------------------------------------------------
(* Safety. *)

\* The durable claims.
Claimed == {k \in Keys : actuation[k] # "NONE"}
ClaimedBy(a) == {k \in Claimed : k[2] = a}

\* The money they have been charged, unit by unit.
Units(a) == UNION {{k} \X (1 .. Amount[k[1]]) : k \in ClaimedBy(a)}
Spent(a) == Cardinality(Units(a))

\* The budget of an action stays within its limits and has been charged once
\* for every durable claim and for nothing else: a claim that loses the
\* compare-and-swap or the unique key gives back what it consumed
\* (governance_gate.py).
WithinBudget ==
  \A a \in Actions :
    /\ countUsed[a] = Cardinality(ClaimedBy(a)) /\ countUsed[a] <= CountLimit[a]
    /\ monetaryUsed[a] = Spent(a) /\ monetaryUsed[a] <= MonetaryLimit[a]

\* The steps at which a worker holds a claim it has not reported on yet.
Executing(w) == pc[w] \in {"actuating", "dispatch", "outcome"}

\* No two workers execute the mutation of one key, however their leases
\* expired under them (evaluate_and_claim, the unique idempotency key).
ExclusiveExecutor ==
  \A v, w \in Workers :
    v # w /\ Executing(v) /\ Executing(w) => KeyOf(v) # KeyOf(w)

\* An actuation recorded as REJECTED had no effect and never will: only then
\* may the worker call the mutation failed (execute_claimed_intent).
RejectedNeverLands ==
  \A k \in Keys : actuation[k] = "REJECTED" => applied[k] = 0 /\ inflight[k] = 0

\* An incident is retried MaxRetries times at most, although the worker
\* compares the count of its snapshot and anyone may have counted since
\* (worker.py, "retry_count >= 5"; schedule_retry filters on the owner).
RetriesBounded == \A i \in Incidents : retries[i] <= MaxRetries

\* A terminated incident has no lease, so an operator's retry is picked up at
\* once: no one leases a terminal row or writes one without clearing it.
TerminalUnleased ==
  \A i \in Incidents :
    state[i] \in Closed \union Escalated => leaseOwner[i] = NoWorker /\ ~leaseLive[i]

\* In a world that only the control loop changes, an incident is resolved only
\* if the order and the payment are as expected: no timeout, lost answer,
\* expired lease or stale context resolves one that is not.
ResolvedMeansConverged ==
  \A i \in Incidents : state[i] = "RESOLVED" =>
    \A p \in Providers : StatusMatches(Expected[i[1]], Ingested(i[1])[p])

\* Only a claim of the gate moves an incident along an edge that is not in
\* VALID_TRANSITIONS (lifecycle.py).
OnlyTheGateSkipsTheTable ==
  [][ \A i \in Incidents :
        \/ state[i] = "NONE" /\ state'[i] \in {"NONE", "DETECTED"}
        \/ CanTransition(state[i], state'[i])
        \/ version'[i] = version[i] + 1 ]_vars

\* The control loop implements its promise: a claim is durable before the
\* effect, is made once, within the count budget and never while automation is
\* paused, and its mutation takes effect at most once.
Ledger == INSTANCE ActuationLedger WITH
            Mutations <- Keys, Limit <- CountLimit,
            enabled <- (automation = "ENABLED"), claimed <- Claimed,
            effects <- applied
ImplementsLedger == Ledger!LedgerSpec

----------------------------------------------------------------------------
(* Liveness, under FairSpec. *)

CrashesCease == <>[][\A w \in Workers : ~Crash(w)]_vars

\* If crashes cease, every published event is handled: a worker that died with
\* it does not keep it (recover_stale_events).
EventsAreHandled ==
  CrashesCease =>
    \A e \in Events : event[e] = "PENDING" ~> event[e] \in {"PROCESSED", "FAILED"}

\* An incident that was opened is resolved or handed to an operator, not left
\* in the middle by its retries, a refused lease or a lost event (worker.py,
\* "Retry policy: 30s * (2 ^ retry_count), max 5 retries").
IncidentsSettle ==
  \A i \in Incidents : state[i] = "DETECTED" ~> state[i] \in Closed \union Escalated

----------------------------------------------------------------------------
(* What the documentation and the comments say and the code does not do. *)

\* lifecycle.py: "Resolved is strictly terminal ... No, strict terminal."
ResolvedIsFinal ==
  [][ \A i \in Incidents : state[i] = "RESOLVED" => state'[i] = "RESOLVED" ]_vars

\* worker.py: on a stale event, "drop this event and resolve the incident".
StaleEventResolves ==
  [][ \A w \in Workers : DropStale(w) => state'[Inc(w)] = "RESOLVED" ]_vars

\* docs/02-architecture.md: "Actions affecting financial entities must prevent
\* conflicting concurrent execution."  A payment is not both refunded and its
\* order repaired to PAID.
NoConflictingEffects ==
  \A s \in Subjects : \E a \in Actions : applied[<<s, a>>] = 0

\* test_deployment_crash_convergence.py: "the worker correctly recovers from a
\* hard crash at specific state boundaries".
IncidentsSettleAfterCrashes == CrashesCease => IncidentsSettle
=============================================================================
