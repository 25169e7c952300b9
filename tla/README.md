# Verification of the Financial Control Engine

This directory holds TLA+ models of the Financial Control Engine: its V2
control loop from the webhook to the repair, its kill switch, and the V1 path
for refunds with its outbox; the TLC configurations that check them on small
instances; and TLAPS proofs of their safety properties for every instance. Paths are those of the repository, below `src/`.

## 1. The system

The engine compares what a merchant's orders and a payment provider
(Razorpay) say about one financial execution, and repairs the difference when
it is sure. Its processes share nothing but a PostgreSQL database and the
external systems.

| Component | State | Operations | Correct when |
|---|---|---|---|
| Webhook ingestion (`api/webhooks.py`, `ingestion/worker.py`, `storage/postgres_ingestion.py`) | payload rows with claim, lease and error | save, claim, save normalised, mark | a payload is normalised once and its observation is announced |
| Observations (`postgres_substrate.py`) | latest status per provider and reference | upsert that only advances | an older status never replaces a newer one |
| Control-event queue (`PostgresControlEventRepository`) | PENDING, IN_PROGRESS, PROCESSED, FAILED | publish, poll, recover stale, mark | every published event is handled |
| Reconciliation (`reconciliation_controls.py`, `execution_identity.py`, `reconciliation_v2.py`) | results | evaluate, sweep | a MATCH means the providers agree with the expectation, and no alarm is raised about what was expected |
| Investigation (`investigation/`, `evidence_assembler.py`) | hypothesis, verification | assemble, ask, validate, query | only hypotheses on known evidence are queried, and a query settles only its own execution |
| Incident repository (`PostgresActiveIncidentRepository`) | one row per (subject, reason): state, lease, retry count, backoff, version | claim, lease, hypothesis, retry, commit, terminate | states follow `VALID_TRANSITIONS`, one worker acts |
| Control worker (`engine/worker.py`) | local variables of one iteration | detect, investigate, verify, decide, act, observe | every incident is resolved truthfully or escalated |
| Governance gate (`governance_gate.py`) | kill switch, budgets, actuation records | evaluate and claim | claimed before sent, once, within budget, never while paused |
| Actuation (`actuator.py`, `external_simulator.py`, `razorpay/client.py`) | record per idempotency key | dispatch, record the outcome | an effect happens at most once, a refusal has none |
| Operator API (`api/operator.py`) | none of its own | retry, resolve, escalate, pause, resume | an operator's verdict is not undone |
| Kill switch (`storage/postgres_governance.py`, `api/operator.py`) | one row with a version | read, update if the version agrees | no update is lost, nothing is claimed while paused |
| V1 cases (`domain/correlation`, `domain/cases`, `state/engine.py`, `reconciliation/engine.py`, `orchestration`) | none | correlate, fold, classify | the class is the one the specification gives |
| V1 recovery (`control/policy.py`, `recovery/outbox.py`, `integrations/razorpay`) | outbox rows | authorise, publish, dispatch, record | an intent is refunded once, and only if its refund is absent |

How they interact. The webhook endpoint stores a payload; an ingestion worker
claims a batch of them under a lease, normalises each one, persists evidence
and observation, and publishes OBSERVATION_INGESTED in a second transaction. A worker that polls it reconciles the expectations it
touches and publishes DISCREPANCY_DETECTED. A worker that polls that one opens
or finds the incident, takes its lease and runs an investigation: stale-event
guard, context, LLM hypothesis, deterministic verification, policy, gate,
mutation, observation, verdict. Incidents whose verification failed are polled
again after a backoff. Operators and the kill switch act on the same rows
without looking at the lease. The V1 path is a library: its tests and section 9
of `docs/specifications/financial_expectation_and_reconciliation_spec.md`
compose it as collect, generate cases, authorise, publish, dispatch.

What is hard. Every step of a worker is a transaction or an external call of
its own, and anything may happen in between: another worker takes over an
expired lease, an operator moves the incident, the merchant cancels, the
process dies, a request that timed out arrives after all. `PROJECT.json` lists
each hazard at its line with the properties that would catch it.

## 2. The modules

Four models stand side by side. They share no variables; what one of them
takes from another is named below.

| Module | Models | How it corresponds |
|---|---|---|
| **Control loop** | | |
| `IncidentLifecycle` | `domain/investigation/lifecycle.py` | the states, `VALID_TRANSITIONS` and `assert_valid_transition` at the constant level |
| `IncidentStore` | `PostgresActiveIncidentRepository` | one variable per column, one action per method; a method that refuses is the caller's branch |
| `RecoveryPolicy` | `policy.py`, `observer.py`, the status maps | operators on the latest status of each provider |
| `GovernanceGate` | `governance_gate.py`, `ActionBudget`, `actuation_key.py` | `GateDecision` in the order of the transaction, `Claim` its commit |
| `OperatorApi` | `api/operator.py` | one action per endpoint |
| `ControlWorker` | `engine/worker.py`, `actuator.py`, `external_simulator.py`, the event queue | one action per step of an iteration; `pc[w]` is the next step, `job[w]` the local variables |
| `ControlLoop` | all of them, interleaved | `Next`, the fairness and the properties |
| `ActuationLedger` | nothing: the abstract specification | claim, effect, switch |
| **Ingestion** | | |
| `WebhookIngestion` | `api/webhooks.py`, `ingestion/worker.py`, `postgres_ingestion.py` | `Deliver` is the endpoint; `Claim`, `Take`, `Save`, `Publish`, `MarkFailed` the transactions of `process_batch`; `HandleEvent` what the control worker does with the event |
| **Kill switch** | | |
| `ControlPlane` | `postgres_governance.py`, the two endpoints, the gate's row lock | `Get`, `Look`, `Insert`/`Update` are the transactions of an operator, `ReadSwitch`, `EndGate` those of a gate |
| **Reconciliation and investigation** | | |
| `ReconciliationControls` | `reconciliation_controls.py`, `execution_identity.py`, the lookups of the repositories | `Verdict` follows the code, the first check that applies returning; `Judgement` is the reference it is compared with |
| `Investigation` | `input_formatter.py`, `agent.py`, `validator.py`, `investigation/verifier.py`, the Razorpay query | the validator's rules, the route of an intent, the rows an answer becomes |
| `Reobservation` | `policy.py` and `observer.py` on rows | `Policy` with its subjects, ties and amounts; `Reads` is one observation made again, in the observer's words and under its keys |
| `Reconciliation` | `engine/worker.py` without lease, gate and actuation, `reconciliation_v2.py`, the event queue in batches | `Observe`, `Announce`: an arrival; `Poll` to `Finish`: a batch; `Inquire` to `Converge`: an investigation, with its three ways to RESOLVED: `Conclude` (the query), `Reobserve` and `Reconsider` (the guard before an escalation), `Converge` (after an actuation) |
| **V1 refunds** | | |
| `StateEngine` | `state/engine.py` | `Absorb` is one observation, the state a fold of it; `Contradictory` says of evidence, not of the fold, that it contradicts itself |
| `RefundCases` | `domain/evidence`, `domain/correlation`, `domain/cases`, `reconciliation/engine.py`, `financial_orchestrator.py`, `control/policy.py` | operators on the sequence of raw records; a context is the indices of its records |
| `RefundRecovery` | `recovery/`, `integrations/razorpay` and the above, with the provider | `Collect`, `GenerateCases`, `Authorize`, and the dispatcher's `Poll`, `Begin`, `Send`, `RecordReply` |

`IncidentStore` <- `GovernanceGate` <- (`OperatorApi`, `ControlWorker`) <-
`ControlLoop`, with `RecoveryPolicy` entering at `GovernanceGate`;
`ReconciliationControls` <- `Investigation` <- `Reobservation` <-
`Reconciliation`;
`StateEngine` <- `RefundCases` <- `RefundRecovery`. `MCControlLoop`,
`MCWebhookIngestion`, `MCControlPlane`, `MCReconciliation` and
`MCRefundRecovery` hold the instances for TLC. The theorems are in
`ControlLoopProofs`, `WebhookIngestionProofs`, `ControlPlaneProofs`,
`ReconciliationProofs` and `RefundRecoveryProofs`, the ones on the two pure
algorithms in `ReconciliationControlsProofs` and `StateEngineProofs`, and the
general facts of induction and recursion they rest on in `Induction`.

### Control loop: the steps of a worker

A step is one transaction or one external call. From `assemble` to `terminate`
a worker is in the `try` of `_process_investigation`: a step that fails goes
to `abort` (`except Exception`: escalate) or to `transient`
(`except (InvestigatorError, OperationalError)`: retry later or escalate).
`claiming`, `leasing`, `guard` and `drop` are outside it, and a failure there
leaves the handler (`nack`, the event is marked FAILED). A matured retry has
no event: its exceptions end `poll_and_process`, and with it the process,
which the model shows as a worker that is idle again.

### Control loop: what is abstracted, and why it is sound for the properties

- Time. `lease_expires_at` and `next_retry_at` are kept as what the queries
  compare: `leaseLive`, `backoff`. Either deadline may pass at any moment.
  Stale events are recovered at any moment after the poll: the default
  threshold (300 s) is longer than a lease, but `docker-compose.yml` sets 2 s.
- Amounts, currencies and references agree on both sides, so the branches of
  policy and reconciliation on them are not taken.
- An observation of the verifier carries the `created_at` of the payment. A
  status that differs from the context's either ties with it, which the policy
  treats as contradictory evidence, or is older and ignored; `Verify` allows
  both.
- The upsert keeps the newer row. Without timestamps any subset of the
  observations made again may advance (`SaveObservations`).
- One DISCREPANCY_DETECTED event per poll and one matured retry per iteration:
  their handlers run one after the other and share nothing. What a batch would
  add is waiting, which an idle worker and an event IN_PROGRESS already show.
  Batches of OBSERVATION_INGESTED events, which do share a context, are in
  `Reconciliation`.
- `Publish` is what handling an OBSERVATION_INGESTED event does here.
- The hypothesis payload is dropped: it is set exactly when the state becomes
  VERIFYING.
- Each repository call is atomic, although several read the row without a lock
  and write it afterwards (see the plan, `IncidentRace`).
- A missing budget row is a limit of 0. The row GLOBAL of the control plane
  exists, and an endpoint that updates it is one step: `ControlPlane` has the
  row that is missing and the steps of an endpoint. It also shows when the one
  value of the switch is right: as long as the row exists, since the gate's
  lock then orders its commit and the pause.
- Every incident has an expectation.
- `applied` is a history variable: how often the mutation of a key took effect.
- The in-process simulator stands for the merchant's system, shared by all
  workers. The provider refuses, does, or times out; a request that timed out
  may be lost, done, or done later (`inflight`, `RequestLands`).
- A crashed worker restarts under its own id, as `WORKER_ID` in
  `docker-compose.yml` gives it.

### The other models: what is abstracted

`WebhookIngestion`. A webhook is a notification of one entity with a status
and a time, or one that no adapter parses. A redelivery is the same payload
under the same idempotency key. The time of a row is the provider's
`created_at`; a payload without one (`NoTime`) gets the time of its
normalisation (`ObservedAt`): normalisations are at different times, in their
order (`taken`), from `Epoch` on. Leases are live or not; a worker that finds its
own lease expired goes on, as in the code. The event names an observation by
its id, and `HandleEvent` finds the row only if the row kept that id.

`ControlPlane`. A row is a state, a version and who wrote it. The gate's
transaction holds the lock of the row if there is a row to lock; what the gate
does besides is in `GovernanceGate`. `claims` says that the last step committed
a claim.

`ReconciliationControls`, `Reconciliation`. A row stands for the rows one
identity (provider, reference) may have, its keys are the references the
lookups compare, and its domain is PAYMENT, REFUND or none. Times are small
numbers. A query without ORDER BY returns any of `Orders`. An observation is
saved and announced in two transactions of the collector. A batch goes through
find, judge, sweep (the alarms on rows no candidate set holds), file and raise,
each a transaction, and any of them may fail or the process die.
Investigations run one at a time, and an investigation's hypothesis is any of
`Hypotheses`, which includes ones on evidence that does not exist: what a
model says is not constrained. Retries of a model call are one `Retry`. An
answer that does not settle the discrepancy goes to the policy. If the policy
escalates, each observation is made again (`Reobserve`), without the receipt
filter of the query and with the keys the observer gives it, and comparison and
policy decide once more (`Reconsider`). If it decides to act, the gate and the
actuator are `ControlWorker`'s: here they escalate, or the target is observed
afterwards (`Converge`), and what the actuator did to it is a move of the
records (`ProviderMoves`). So are crashes after the decision: an incident that is
DECIDED is not investigated again but escalated, which is one of `Converge`'s
branches. An actuation announces the event without an observation (`All`); that
of another incident does so too (`Elsewhere`).
`known` (per row, the expectations open at its insert) and `spent` (what is
used of the named bounds) are history.

`RefundRecovery`. Intents have one amount; a refund of others is of the same or
another one. Raw records are the provider's notifications (each may be lost,
repeated or delayed) and the answers of a query. Scores, explanations and
identifiers of cases are left out. The provider executes one refund per
idempotency key (`honoured`). `Authorize` is the policy and the
publication. `recovery/registry.py` is not modelled: a helper of one test is all
that puts it before the outbox. Ids of observations are random, so a tie of the fold is broken
either way (`SortedOrders`).

## 3. What the runs check

Named bounds. Control loop: `MaxRetries` (5 in the code), `CountLimit`,
`MonetaryLimit`, `Operations`, `Faults`, `WorldChanges`, `InitialOrders`,
`InitialPayments`. Ingestion: `BatchLimit`, `MaxExpiries`, `MaxFaults`,
`MaxCrashes`. Kill switch: `MaxVersion`. Reconciliation: `MaxMoves` of the
provider's records, `MaxInquiries`, `MaxTroubles` of a batch, `MaxSetbacks` of
an investigation, `Ageing`. Refunds: `MaxNow`, `MaxFacts`, `MaxMessages`. In
the control loop no counter needs a constraint: retries are bounded by the code
itself, and the version advances only with a claim, of which each key allows
one. Two workers are enough for every race of a pair; the proofs of section 5
cover any number. Workers are interchangeable in the safety runs, hence the
symmetry.

| Run | Instance | Properties |
|---|---|---|
| `repair` | 2 workers, unpaid order that may be paid meanwhile, captured payment, 1 retry, lost transactions | `TypeOK`, `RetriesBounded`, `OnlyTheGateSkipsTheTable` |
| `refund` | 2 workers, cancelled order, crashes, refunds that land late | `ResolvedMeansConverged`, `RejectedNeverLands` |
| `operators` | 2 workers, all five endpoints, a budget of 2 claims | `ExclusiveExecutor`, `TerminalUnleased`, `ImplementsLedger` |
| `budget` | 2 workers, 2 subjects (amounts 7 and 5), a budget of 10 units | `WithinBudget` |
| `settle` | 1 worker, 2 events of one incident, 2 retries; the payment is captured or refunded and the order cancelled by others | `IncidentsSettle`, `RejectedNeverLands` |
| `events` | 2 workers, crashes that cease | `EventsAreHandled` |
| `webhooks` | 2 workers, 2 notifications of one payment and an unparsable one, batches of 2, an expiry, a fault, a crash | `TypeOK`, `ProcessedIsStored`, `RowMatchesItsEvidence`, `SharedOnlyAfterExpiry`, `StatusNeverRegresses`, `AcceptedIsSettled`, `FirstStatusIsReconciled` |
| `control_plane` | 2 operators, 2 gates, the row seeded or missing, versions to 4 | `TypeOK`, `NoLostUpdateOfARow`, `NoClaimWhilePaused` |
| `refunds` | 1 intent, 1 dispatcher, refunds by others of another amount, 4 records, times to 2, 2 messages | `TypeOK`, `ContradictionIsNotSettled`, `AbsenceIsProven`, `ExcessIsReal`, `OneEffectPerIntent`, `MatchHasARefund` |
| `reconciliation` | 2 workers, an expectation known by its order, the payment in a webhook and in a query, one failure, crash or redelivery | `VerdictMeetsReference`, `ProcessedMeansJudged`, `DirectAlarmsAreTrue`, `EveryInsertIsJudged` |
| `investigation` | the expectation of a refund, its payment in a webhook, 2 refunds, the observer's rows, 2 investigations, 1 setback | `TypeOK`, `VouchedBeforeQuery`, `SettledByItsOwnRefund` |
| `convergence` | the expectation of a payment, its webhook and query, a cancelled or unpaid order, the observer's row, one move of a record, one setback | `ResolvedIsOnRecord` |

Control loop:

- `ExclusiveExecutor`, `RejectedNeverLands` and `ImplementsLedger` are the
  promise about money: whatever leases expire and processes die, a mutation is
  dispatched by one worker, takes effect at most once, only after a durable
  claim that was made while automation was enabled, and what is recorded as
  refused never happens.
- `ResolvedMeansConverged` is claimed of a world that only the control loop
  changes, and without operators, whose resolution is their own word. Where the
  merchant acts on its own it cannot hold of any program that reads the two
  systems one after the other.
- `WithinBudget`: the charge is exactly the durable claims, so a refused claim
  gave back what it had consumed, and neither limit is passed; the run makes
  the money scarce, both limits are proved (`BudgetsHold`). A claim whose
  mutation was refused is not given back; that is what the code does.
- `RetriesBounded` holds although the worker compares an old count: two
  workers never both own the lease, and schedule_retry filters on the owner.
- The runs `operators` and `budget` have no crash. That a mutation whose
  executor died is not requested again, not even when an operator has the
  incident investigated again, is proved for every number of workers and any
  crashes (`RejectedHasNoEffect`, `ExclusiveExecution`). `crash_retry.cfg`,
  beside the runs, passes and checks it for one worker: without the unique key
  a second request would be refused while the first one lands.
- `TerminalUnleased`: an operator's retry is picked up at once.
- `IncidentsSettle` and `EventsAreHandled` are checked under fairness.
  `IncidentsSettle` is false with one worker too if the order may become paid
  between the detection and the guard: see `stale_guard` below.

Ingestion. `ProcessedIsStored` and `RowMatchesItsEvidence` relate the two
tables a worker writes to the payload's mark; `StatusNeverRegresses` orders the
versions of a row whatever order webhooks arrive in; `SharedOnlyAfterExpiry`
says when two workers may have one payload; `AcceptedIsSettled` that none is
left PENDING for ever; `FirstStatusIsReconciled` that an entity's first row leads to a reconciliation
of it if nothing crashes, fails or expires.

Kill switch. `NoLostUpdateOfARow` and `NoClaimWhilePaused` both have the
existence of the row in them; without it both fail.

Reconciliation. `VerdictMeetsReference` compares the code's procedure with a
declarative reading of the reasons, for the rows on file in every reachable
state (ties apart, `Tied`). `ProcessedMeansJudged`: an event is marked only
after a filed and raised result for each expectation that was open at the
insert of its row and that the row belongs to. `DirectAlarmsAreTrue`: an alarm
of the event path concerns a row that no expectation open at its insert shares
a key with. `EveryInsertIsJudged`: an
announced insert is judged, or its event is FAILED. `VouchedBeforeQuery`: no
query follows a hypothesis that names evidence not on file, also when a crash
made it be used again on a context assembled anew. `SettledByItsOwnRefund`: where the query has
found refunds of the receipt a refund expectation names, the incident is settled
on that receipt alone. The condition is needed: the observer's rows name the
payment and not the receipt, so a row it adds makes a second execution beside
the one of the receipt, which is a discrepancy; but where the query found
nothing, the row stands alone and settles (`payment_as_refund`).
`ResolvedIsOnRecord`: the rows an incident is settled on are stored, at their
time or a later one, and so is the evidence of what was queried, on all three
ways to RESOLVED and whatever others saved in between.

Refunds. `ContradictionIsNotSettled`: of evidence that contradicts itself, read
off the records and not off the fold (`Contradictory`), no order of equal times
makes a match, a mismatch or an absence. Evidence that contradicts itself in one
order only is `coin_flip`'s. `AbsenceIsProven`: a case that permits a refund
has an authoritative denial, nothing that says otherwise, and its SLA is past. `ExcessIsReal` and `MatchHasARefund`
relate cases to the provider's records; the latter says nothing of the refund's
status and amount, and `early_match` and `masked_amount` show why. `OneEffectPerIntent`: one refund per
intent, by the dispatchers.

### Where the code departs from what it says

The configurations below end in counterexamples; they are kept beside the runs
and are started with `tlc -config X.cfg M`. Each is a
finding in `PROJECT.json`, with the sentence it contradicts.

| Configuration | Module | Property | What it shows |
|---|---|---|---|
| `resolved_reopened` | `MCControlLoop` | `ResolvedIsFinal` | the gate claims, and the worker executes, an incident an operator has resolved |
| `stale_guard` | `MCControlLoop` | `StaleEventResolves` | "drop this event and resolve the incident" raises instead: INVESTIGATING to RESOLVED is not in the table |
| `conflicting_effects` | `MCControlLoop` | `NoConflictingEffects` | one subject is repaired to PAID and refunded, under two keys |
| `crash_strands` | `MCControlLoop` | `IncidentsSettleAfterCrashes` | after a crash in VERIFYING or later nothing comes back to the incident |
| `lease_livelock` | `MCControlLoop` | `IncidentsSettle` | two workers whose investigations outlive their leases take the incident from each other for ever and no retry is counted |
| `webhook_trigger` | `MCWebhookIngestion` | `EveryStatusIsReconciled` | the event of an update names an observation id the row never gets: only the first status is reconciled |
| `batch_race` | `MCReconciliation` | `UnexpectedLacksExpectation` | a row saved while a batch is judged is reported as unexpected, its expectation being open |
| `first_pause` | `MCControlPlane` | `NoLostUpdate` | two operators meet before the row exists: one replaces the other's pause unseen |
| `coin_flip` | `MCRefundRecovery` | `SameEvidenceSameCase` | one set of records, two classes: ties are broken by random ids |
| `early_match` | `MCRefundRecovery` | `MatchIsRefunded` | the specification's truth table gives MATCH to REFUNDED only; a refund that is PROCESSING is a match, and one that FAILED when a query confirmed it |
| `masked_amount` | `MCRefundRecovery` | `MatchIsOfTheAmount` | a query without an amount hides the wrong amount of an earlier notification |
| `truth_table` | `MCRefundRecovery` | `FailedIsNotExecuted` | the truth table pairs FAILED with NOT_EXECUTED; the engine with EXECUTED |
| `payment_as_refund` | `MCReconciliation` | `RefundIsOfItsReceipt` | the payment, observed again before an escalation, settles a refund that does not exist |
| `double_action` | `MCRefundRecovery` | `OneExecutableAction` | a dispatcher with an old poll revives a message after another action was published |

`IncidentsSettle` therefore passes for one worker (`settle`) and fails for two
(`lease_livelock`) or with a crash (`crash_strands`): the three together say
what the property depends on. `ExcessIsNotCleared` of `RefundRecovery` states
section 8 of the specification and is false as well. The remaining findings
have no configuration: they are disagreements met while translating.

Also met: `retry_incident` refuses incidents escalated by the kill switch, the
budget, a failed mutation or a failed convergence, because the table has no
edge to INVESTIGATING from those states; it leaves the retry count and the
backoff of the earlier attempts; after one claim the same intent ends in
CLAIM_FAILED for ever, its key being taken; `commit_verification_success` saves
the rows of a query and announces none of them; a redelivery of a payload that
FAILED is answered DUPLICATE; a refund that is "processed" is SETTLED for the
normaliser and REFUNDED for the observer.

## 4. Fairness

`scripts/worker_main.py` repeats `poll_and_process` for ever, so a worker takes
its next step (`WF` of `Iterate`). Each iteration ends with the poll for
matured retries, whatever events there are, so a retry that is due again and
again is taken (`SF` of `PollRetry`). The clock passes every deadline (`WF` of
`Tick`), and every iteration recovers stale events (`WF` of `RecoverStale`).
Nothing is assumed of crashes, lost transactions, operators, the outside
world, a request in flight, or of the branch a call takes: an LLM may always
fail. `EventsAreHandled` assumes in its antecedent that crashes cease.

`WebhookIngestion`: the loop of `worker_main.py` takes the next step of a worker
(`WF` of `Work`), a lease that nobody works under runs out (`WF` of `Expire`),
and the control worker handles events (`WF` of `HandleEvent`).
`Reconciliation`: a worker takes its next step (`WF` of `Work`), and events that
stay IN_PROGRESS without a holder are recovered (`WF` of `Recover`). Neither
assumes anything of webhooks, failures and crashes. `ControlPlane` and
`RefundRecovery` have no liveness property: their loops are a request each, or
are called by code outside the repository.

## 5. What is proved

Every theorem is about every set of workers, events, rows or intents, every
bound, and every behaviour of operators, faults and the outside world.

`ControlLoopProofs`:

| Theorem | Property |
|---|---|
| `TypeCorrect` | `TypeOK` |
| `ClaimCorrect`, `ExclusiveExecution`, `RejectedHasNoEffect` | `ClaimInv`, `ExclusiveExecutor`, `RejectedNeverLands` |
| `RetriesAreBounded` | `RetriesBounded` |
| `BudgetsHold` | `WithinBudget` |
| `LedgerImplemented` | `ImplementsLedger` |
| `TerminalIsUnleased` | `TerminalUnleased` |
| `TableRespected` | `OnlyTheGateSkipsTheTable` |
| `ResolvedHasConverged` | `ResolvedMeansConverged`, in a closed world |

Assumptions: `Incidents` is finite and not empty, the limits and amounts are
natural numbers, `NoWorker` is not a worker, `NoEvent` not an event, and the
other constants have their types. TLC evaluates these assumptions in every run.

The argument. `ExclusiveExecutor` is not inductive: nothing in it says why a
second worker cannot enter. `ClaimInv` adds that an executing worker's key is
PENDING, that a key without a record or with a refused one had no effect, that
a worker before its dispatch or with a refusal in its hands (`Effectless`) had
none either, and that effects and requests in flight of one key are at most one
together. The gate claims only a key without a record, which by the first part
no one is executing; a dispatch is made by the only executor of a key that has
had no effect; an outcome is recorded by the only executor. `RetryInv` says
that a worker between its lease and its retry that still owns the row has the
row's count in its snapshot: only the owner counts, so the comparison with the
bound is current exactly when it matters. `WithinBudget` is inductive given
`ClaimInv`: the money charged is the number of units of the claimed keys
(`Units`), a finite set to which a claim adds a disjoint part of known size
(`UnitsAdd`), so no sum over a set is needed. The two together give the
refinement of `ActuationLedger`.

`ResolvedHasConverged` assumes `ClosedWorld`: nothing but the control loop
changes orders and payments, operators do not resolve by hand, and no
expectation is PENDING. The last one is needed: a cancelled order is observed as
PENDING, so of a payment that is only authorised an incident that expects
PENDING would be resolved over an order that was cancelled. The
invariant, `ConvergenceInv`, says what a worker may rely on at each step. A
view, persisted or in a worker's hands, is *honest*: a status in it is true of
the order and the payment, or has been and cannot matter (`Honest`); a worker
that chose a repair or a refund chose one that is still right; a worker that is
about to resolve has the expectation met. The world *drifts* (`Drift`): an
order that is not cancelled may become PAID, the payment of a cancelled order
may be refunded, and nothing else happens, so whatever was honest, chosen or
met stays so (`DriftKeeps`) however long the worker sleeps. The delicate step is
the re-observation before an escalation, which would read a cancelled order as
PENDING and turn a refund into a repair: a worker comes there only when there
is nothing to repair (`NothingToRepair`).

The other modules:

| Module | Theorems | Argument |
|---|---|---|
| `WebhookIngestionProofs` | `IngestionInvariant`, `IngestionTypes`, `ProcessedPayloadsAreStored`, `RowsMatchTheirEvidence`, `RowsMoveForward`, `LeasesKeepWorkersApart` | the marking follows the saving in one transaction, and an upsert only advances, so a row once at least as recent as a payload stays so; `BusyHasOne` ties a worker's step to the payload in its hands. `LeaseInv` counts the holders of a payload: at most the expiries while no one has the lease, one more while someone has |
| `ControlPlaneProofs` | `ControlPlaneInvariant`, `ControlPlaneTypes`, `NoUpdateOfARowIsLost`, `PausedMeansNoClaims` | a version names one content of the row (`VersionsNameRows`), so an equal version is the row that was read; a gate that found a row holds its lock until it commits (`ClaimantsHoldTheLock`), so the row is still the one it saw |
| `RefundRecoveryProofs`, effects | `LedgerInvariant`, `RefundedOnce` | every refund by a dispatcher has its key among the honoured ones and a key is honoured once, however many dispatchers race. One executable action per intent is false, and `double_action` shows it |
| `RefundRecoveryProofs`, cases | `TypeInvariant`, `TypeCorrect`, `ContradictionsAreNotSettled`, `RecordsAreOfTheLedger`, `CasesAreReal`, `MatchesAreReal`, `ExcessesAreReal`, `AbsencesAreProven` | each record speaks of a refund of the ledger with its receipt and time, or of none (`RecordsAreReal`); the ledger only grows (`LedgerGrowth`), so what a case said of it when the batch ran (`CasesReal`) stays true although the case is old; contradicted evidence reaches only the branches of `Classify` that wait, review or alarm |
| `StateEngineProofs` | `EngineHasClosedForm`, `ContradictionInEveryOrder` | `Says` is the loop's invariant: after n observations the flags and the result are a function of the first n. The closed form (`Decided`) is a lemma and no specification; what is claimed of the engine follows from it: an order keeps what lies at strictly different times apart, so a denial after every status and an effect before it meet wherever the loop ends. From it also `ExecutedIsObserved` and `AbsenceIsObserved`, which the cases rest on |
| `ReconciliationControlsProofs` | `VerdictIsJudgement` | the row the loop over a provider's rows keeps is none's elder (`LatestOfIsNewest`), and without ties there is one such row, so the order of reading is not in the result |
| `ReconciliationProofs` | `PipelineInvariant`, `PipelineTypes`, `ProcessedEventsWereJudged`, `NoFalseDirectAlarm`, `HypothesesAreVouchedFor`, `SettledByOwnRefund`, `ResolutionsAreOnRecord`, `VerdictsAreJudgements` | `JudgingInv` follows one event through the steps of its holders: what is still to do, in hand or saved covers each expectation of its row (`NothingDropped`), and a second holder starts again from nothing; `InquiryInv` says what an investigation that has passed the validator or the query knows. A match is about one execution (`MatchIsOneExecution`), so one row of the receipt among those counted makes all of them rows of the receipt. What an investigation starts from is on record, a commit covers what it is given (`UpsertCovers`), and an upsert only advances (`RecordStays`) |

Assumptions of these: sets that name workers, rows and expectations do not
contain the null values; bounds are natural numbers; tables of constants have
their types. They are the named `ASSUME`s of the modules, evaluated by TLC in
the runs. `InvestigationAssumption` says that the null reference is not the name of
a domain, which `QueryDomain` compares. `IngestionAssumption` says that there
are finitely many workers, which `LeasesKeepWorkersApart` counts.

Induction over data. The library states induction with an operator as
parameter, which the provers cannot instantiate. `Induction` states it with
sets instead: `SetInduction` is about a set of numbers, `FiniteSetInduction`
about a family of sets, both from the existence of a least element; `Recursion`
gives the function a recursive definition describes, and `GreatestExists` the
greatest element of a finite set. The state engine's fold is a recursive
function for that reason, and no module declares a RECURSIVE operator.

Two places of the model were changed to be reasoned about. `Verdict` and
`Judgement` of `ReconciliationControls` were CASE expressions with overlapping guards, whose value TLA+
leaves open where two guards hold; the code returns at the first check that
applies, and so do they now. `QueryRefund` chooses from the set of possible
answers (`Answers`) and does not list them as disjuncts.

Only model-checked: the liveness properties `IncidentsSettle`,
`EventsAreHandled`, `AcceptedIsSettled`, `FirstStatusIsReconciled` and
`EveryInsertIsJudged` (fairness and ENABLED are out of the prover's reach).
Every safety invariant and action property of a passing run has a theorem.

## 6. Not modelled, and the plan

Not modelled, with the reason:

- The text of prompts, hypotheses and explanations, scores, audit records,
  metrics and logs: written and never read by the control flow.
- The read endpoints and the wiring of the HTTP application: no state.
- The live-slice demonstration, the scripts that generate data, and the
  frontend: walks through the same components with fixed data. From
  `services/live_slice.py` and `scripts/worker_main.py` the models take how
  expectations and observations are made and which loop runs what.
- The action registry, `recovery/registry.py`: no code puts it before the outbox.
- The prototype evaluation in `engine/reconciliation.py`: only its own tests
  call it.

What is left, in this order:

1. `IncidentRace`: the reads and writes of `terminate_incident`, the
   `transition_to_` methods and the operator endpoints as separate steps.
2. The branch of the worker without a gate (`execute_intent`), and incidents
   without an expectation in `ControlWorker`.
3. `Reconciliation` and `ControlLoop` in one specification: out of TLC's reach
   as they stand (each has tens of thousands of states alone for one subject);
   an abstract specification of either, as the other sees it, would be the way.
4. Proofs: `ResolvedMeansConverged` where the merchant may pay or cancel on its
   own, for a weaker conclusion (the two systems were as expected when they
   were read), and the safety half of the liveness properties: what an
   incident that is not settled still has to happen to it.
