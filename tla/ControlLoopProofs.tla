------------------------- MODULE ControlLoopProofs --------------------------
(***************************************************************************)
(* Theorems about ControlLoop, for any finite set of incidents and any     *)
(* workers, events, budgets and bounds, with their proofs.                 *)
(***************************************************************************)
EXTENDS ControlLoop, TLAPS, FiniteSetTheorems

(***************************************************************************)
(* Typing.  One lemma per helper, then one per group of actions.           *)
(***************************************************************************)

\* What the pure functions return.
LEMMA ViewTypes ==
  ASSUME TypeOK, NEW s \in Subjects
  PROVE  Ingested(s) \in Views /\ Observed(s) \in Views
BY DEF TypeOK, Ingested, Observed, Views, Providers, IngestedMerchant,
       IngestedPayment, ObservedMerchant, ObservedPayment, CanonicalStatus,
       MerchantOrder, Payment

LEMMA EvaluateType == ASSUME NEW v PROVE Evaluate(v) \in Intents
BY DEF Evaluate, Intents, Actions

LEMMA LeasedStateType ==
  ASSUME NEW s \in IncidentState \union {"NONE"}
  PROVE  LeasedState(s) \in IncidentState \union {"NONE"}
BY DEF LeasedState, IncidentState

LEMMA SubjectType == \A i \in Incidents : i[1] \in Subjects
BY DEF Subjects

LEMMA NoJobType == \A e \in Events \union {NoEvent} : NoJob(e) \in Job
<1>1. (CHOOSE i \in Incidents : TRUE) \in Incidents
  BY IncidentsAssumption
<1>2. QED
  BY <1>1 DEF NoJob, Job, Views, CanonicalStatus, Intents, IncidentState,
              Closed, Outcomes

LEMMA InitialTypes == Init => TypeOK
<1> SUFFICES ASSUME Init PROVE TypeOK
  OBVIOUS
<1>1. StoreTypeOK
  BY DEF Init, StoreInit, StoreTypeOK, IncidentState
<1>2. GateTypeOK
  BY DEF Init, GateInit, GateTypeOK, ActuationState
<1>3. order \in [Subjects -> MerchantOrder] /\ payment \in [Subjects -> Payment]
  BY WorkerAssumption DEF Init
<1>4. obs \in [Subjects -> Views]
  BY <1>3 DEF Init, Ingested, Views, Providers, IngestedMerchant, IngestedPayment,
              CanonicalStatus, MerchantOrder, Payment
<1>5. job \in [Workers -> Job]
  BY NoJobType DEF Init
<1>6. QED
  BY <1>1, <1>2, <1>3, <1>4, <1>5
     DEF Init, TypeOK, EventStatus, Labels, InTry, OutsideTry

\* Every repository method keeps the rows well-typed.
LEMMA StoreTypes ==
  ASSUME StoreTypeOK, NEW i \in Incidents, NEW w \in Workers,
         NEW s \in IncidentState,
         \/ UNCHANGED storeVars
         \/ TryClaimIncident(i)
         \/ AcquireLease(w, i)
         \/ AcquireMaturedRetry(w, i)
         \/ UpdateHypothesis(w, i)
         \/ ScheduleRetry(w, i)
         \/ TerminateIncident(i, s)
         \/ CommitVerified(i)
         \/ TransitionTo(i, s)
         \/ LeaseExpires(i)
         \/ BackoffElapses(i)
  PROVE  StoreTypeOK'
<1> DEFINE States == IncidentState \union {"NONE"}
<1>1. {"DETECTED", "VERIFYING", "INVESTIGATING", "ACTIONABLE"} \subseteq IncidentState
  BY DEF IncidentState
<1>2. \A t \in States : LeasedState(t) \in States
  BY LeasedStateType
<1> HIDE DEF States
<1> USE DEF StoreTypeOK, ClearLease, GrantLease
<1>3. CASE UNCHANGED storeVars
  BY <1>3 DEF storeVars
<1>4. CASE TryClaimIncident(i)
  BY <1>1, <1>4 DEF TryClaimIncident, leaseVars
<1>5. CASE AcquireLease(w, i)
  BY <1>2, <1>5 DEF AcquireLease, States
<1>6. CASE AcquireMaturedRetry(w, i)
  BY <1>6 DEF AcquireMaturedRetry
<1>7. CASE UpdateHypothesis(w, i)
  BY <1>1, <1>7 DEF UpdateHypothesis, leaseVars
<1>8. CASE ScheduleRetry(w, i)
  BY <1>1, <1>8 DEF ScheduleRetry
<1>9. CASE TerminateIncident(i, s)
  BY <1>9 DEF TerminateIncident
<1>10. CASE CommitVerified(i)
  BY <1>1, <1>10 DEF CommitVerified, leaseVars
<1>11. CASE TransitionTo(i, s)
  BY <1>11 DEF TransitionTo, leaseVars
<1>12. CASE LeaseExpires(i)
  BY <1>12 DEF LeaseExpires
<1>13. CASE BackoffElapses(i)
  BY <1>13 DEF BackoffElapses, leaseVars
<1>14. QED
  BY <1>3, <1>4, <1>5, <1>6, <1>7, <1>8, <1>9, <1>10, <1>11, <1>12, <1>13

\* The ways a step of a worker continues keep pc and job well-typed.
WorkerTypeOK == pc \in [Workers -> Labels] /\ job \in [Workers -> Job]

LEMMA GotoTypes ==
  ASSUME WorkerTypeOK, NEW w \in Workers, NEW l \in Labels, Goto(w, l), Keep(w)
  PROVE  WorkerTypeOK'
BY DEF WorkerTypeOK, Goto, Keep

LEMMA TerminateWithTypes ==
  ASSUME WorkerTypeOK, NEW w \in Workers, NEW g \in IncidentState, TerminateWith(w, g)
  PROVE  WorkerTypeOK'
BY DEF WorkerTypeOK, TerminateWith, Goto, Job, Labels, InTry

LEMMA LeaveTypes ==
  ASSUME WorkerTypeOK, NEW w \in Workers, NEW v \in {"ack", "nack"}, Leave(w, v)
  PROVE  WorkerTypeOK'
<1>1. job[w].ev \in Events \union {NoEvent}
  BY DEF WorkerTypeOK, Job
<1>2. NoJob(job[w].ev) \in Job
  BY <1>1, NoJobType
<1>3. QED
  BY <1>2 DEF WorkerTypeOK, Leave, Goto, Labels

\* What the local variables of a worker range over.
LEMMA JobTypes ==
  ASSUME TypeOK, NEW w \in Workers
  PROVE  /\ WorkerTypeOK
         /\ job[w] \in Job
         /\ Inc(w) \in Incidents
         /\ Subject(w) \in Subjects
         /\ job[w].intent \in Actions => KeyOf(w) \in Keys
<1>1. job[w] \in Job /\ WorkerTypeOK
  BY DEF TypeOK, WorkerTypeOK
<1>2. Inc(w) \in Incidents
  BY <1>1 DEF Inc, Job
<1>3. Subject(w) \in Subjects
  BY <1>2, SubjectType DEF Subject, Inc
<1>4. ASSUME job[w].intent \in Actions PROVE KeyOf(w) \in Keys
  BY <1>2, <1>4, SubjectType DEF KeyOf, Key, Keys, Inc
<1>5. QED
  BY <1>1, <1>2, <1>3, <1>4

\* From the gate on, the intent of a worker is an action: what the types of
\* the gate's variables rest on.
Acting == {"gate", "actuating", "dispatch", "outcome", "reobserving", "observe",
           "persist"}
ActingOK == \A w \in Workers : pc[w] \in Acting => job[w].intent \in Actions

\* The variables that neither the rows nor the workers hold.
WorldTypeOK ==
  /\ event \in [Events -> EventStatus]
  /\ order \in [Subjects -> MerchantOrder]
  /\ payment \in [Subjects -> Payment]
  /\ inflight \in [Keys -> Nat]
  /\ applied \in [Keys -> Nat]
  /\ obs \in [Subjects -> Views]

LEMMA TypeParts ==
  /\ TypeOK <=> StoreTypeOK /\ GateTypeOK /\ WorldTypeOK /\ WorkerTypeOK
  /\ TypeOK' <=> StoreTypeOK' /\ GateTypeOK' /\ WorldTypeOK' /\ WorkerTypeOK'
BY DEF TypeOK, WorldTypeOK, WorkerTypeOK

LEMMA GateUnchanged == GateTypeOK /\ UNCHANGED gateVars => GateTypeOK'
BY DEF GateTypeOK, gateVars

LEMMA WorldUnchanged ==
  WorldTypeOK /\ UNCHANGED <<event, worldVars, obs>> => WorldTypeOK'
BY DEF WorldTypeOK, worldVars

\* A step that polls, leases or reads: the first half of an iteration.
LEMMA LeaseStepTypes ==
  ASSUME TypeOK, NEW w \in Workers,
         \/ \E e \in Events : PollEvent(w, e)
         \/ \E i \in Incidents : PollRetry(w, i)
         \/ ClaimIncident(w)
         \/ Lease(w)
         \/ LeaseRefused(w)
         \/ StaleGuard(w)
         \/ DropStale(w)
         \/ MarkEvent(w)
  PROVE  TypeOK'
<1>1. StoreTypeOK /\ GateTypeOK /\ WorldTypeOK /\ WorkerTypeOK /\ Inc(w) \in Incidents
  BY TypeParts, JobTypes
<1>2. job[w] \in Job
  BY JobTypes
<1>3. "RESOLVED" \in IncidentState
  BY DEF IncidentState, Closed
<1>4. ASSUME NEW e \in Events, PollEvent(w, e) PROVE TypeOK'
  <2>1. StoreTypeOK' /\ GateTypeOK'
    BY <1>1, <1>4, <1>3, StoreTypes, GateUnchanged DEF PollEvent
  <2>2. WorldTypeOK'
    BY <1>1, <1>4 DEF PollEvent, WorldTypeOK, worldVars, EventStatus
  <2>3. EventOf[e] \in Incidents
    BY WorkerAssumption
  <2>4. WorkerTypeOK'
    BY <1>1, <1>2, <1>4, <2>3 DEF PollEvent, WorkerTypeOK, Goto, Job, Labels, OutsideTry
  <2>5. QED
    BY <2>1, <2>2, <2>4, TypeParts
<1>5. ASSUME NEW i \in Incidents, NEW e \in Events \union {NoEvent}, NEW t,
             StoreTypeOK, Snapshot(w, i, e, t), Goto(w, "guard")
      PROVE  WorkerTypeOK'
  BY <1>1, <1>2, <1>5 DEF Snapshot, WorkerTypeOK, Goto, Job, Labels, OutsideTry, StoreTypeOK
<1>6. ASSUME NEW i \in Incidents, PollRetry(w, i) PROVE TypeOK'
  <2>1. StoreTypeOK' /\ GateTypeOK' /\ WorldTypeOK'
    BY <1>1, <1>3, <1>6, StoreTypes, GateUnchanged, WorldUnchanged DEF PollRetry
  <2>2. WorkerTypeOK'
    BY <1>1, <1>5, <1>6 DEF PollRetry
  <2>3. QED
    BY <2>1, <2>2, TypeParts
<1>7. ASSUME ClaimIncident(w) PROVE TypeOK'
  <2>1. StoreTypeOK' /\ GateTypeOK' /\ WorldTypeOK'
    BY <1>1, <1>3, <1>7, StoreTypes, GateUnchanged, WorldUnchanged DEF ClaimIncident
  <2>2. WorkerTypeOK'
    BY <1>1, <1>7, GotoTypes DEF ClaimIncident, Labels, OutsideTry
  <2>3. QED
    BY <2>1, <2>2, TypeParts
<1>8. ASSUME Lease(w) PROVE TypeOK'
  <2>1. StoreTypeOK' /\ GateTypeOK' /\ WorldTypeOK'
    BY <1>1, <1>3, <1>8, StoreTypes, GateUnchanged, WorldUnchanged DEF Lease
  <2>2. job[w].ev \in Events \union {NoEvent}
    BY <1>2 DEF Job
  <2>3. WorkerTypeOK'
    BY <1>1, <1>5, <1>8, <2>2 DEF Lease
  <2>4. QED
    BY <2>1, <2>3, TypeParts
<1>9. ASSUME LeaseRefused(w) PROVE TypeOK'
  <2>1. StoreTypeOK' /\ GateTypeOK' /\ WorldTypeOK'
    BY <1>1, <1>3, <1>9, StoreTypes, GateUnchanged, WorldUnchanged DEF LeaseRefused
  <2>2. WorkerTypeOK'
    BY <1>1, <1>9, LeaveTypes DEF LeaseRefused
  <2>3. QED
    BY <2>1, <2>2, TypeParts
<1>10. ASSUME StaleGuard(w) PROVE TypeOK'
  <2>1. StoreTypeOK' /\ GateTypeOK' /\ WorldTypeOK'
    BY <1>1, <1>3, <1>10, StoreTypes, GateUnchanged, WorldUnchanged DEF StaleGuard
  <2>2. WorkerTypeOK'
    BY <1>1, <1>10, GotoTypes DEF StaleGuard, Labels, InTry, OutsideTry
  <2>3. QED
    BY <2>1, <2>2, TypeParts
<1>11. ASSUME DropStale(w) PROVE TypeOK'
  <2>1. StoreTypeOK' /\ GateTypeOK' /\ WorldTypeOK'
    BY <1>1, <1>3, <1>11, StoreTypes, GateUnchanged, WorldUnchanged DEF DropStale
  <2>2. WorkerTypeOK'
    BY <1>1, <1>11, LeaveTypes DEF DropStale
  <2>3. QED
    BY <2>1, <2>2, TypeParts
<1>12. ASSUME MarkEvent(w) PROVE TypeOK'
  <2>1. StoreTypeOK' /\ GateTypeOK'
    BY <1>1, <1>3, <1>12, StoreTypes, GateUnchanged DEF MarkEvent
  <2>2. WorldTypeOK'
    BY <1>1, <1>12 DEF MarkEvent, WorldTypeOK, worldVars, EventStatus
  <2>3. NoJob(NoEvent) \in Job
    BY NoJobType
  <2>4. WorkerTypeOK'
    BY <1>1, <1>12, <2>3 DEF MarkEvent, WorkerTypeOK, Goto, Labels
  <2>5. QED
    BY <2>1, <2>2, <2>4, TypeParts
<1>13. QED
  BY <1>4, <1>6, <1>7, <1>8, <1>9, <1>10, <1>11, <1>12

\* The re-observation guard replaces the view and what was decided on it.
LEMMA RecheckUpdates ==
  ASSUME TypeOK, NEW w \in Workers, Recheck(w)
  PROVE  \E v \in Views, f \in SUBSET Providers, c \in BOOLEAN, n \in Intents :
           job' = [job EXCEPT ![w].view = v, ![w].fresh = f,
                              ![w].conflict = c, ![w].intent = n]
<1> DEFINE now      == Observed(Subject(w))
           fresh(g) == {p \in g : \/ now[p] # job[w].view[p]
                                  \/ p = "razorpay" /\ job[w].conflict}
           view(g)  == [p \in Providers |-> IF p \in fresh(g) THEN now[p]
                                                             ELSE job[w].view[p]]
           still(g) == job[w].conflict /\ "razorpay" \notin fresh(g)
           next(g)  == IF still(g) \/ fresh(g) = {} THEN "ESCALATE"
                                                    ELSE Evaluate(view(g))
<1>1. now \in Views /\ job[w].view \in Views
  BY JobTypes, ViewTypes DEF Job
<1>2. "ESCALATE" \in Intents /\ job[w].conflict \in BOOLEAN
  BY JobTypes DEF Intents, Job
<1>3. PICK g \in SUBSET Providers :
        job' = [job EXCEPT ![w].view = view(g), ![w].fresh = fresh(g),
                           ![w].conflict = still(g), ![w].intent = next(g)]
  BY DEF Recheck
<1>4. view(g) \in Views /\ fresh(g) \in SUBSET Providers /\ still(g) \in BOOLEAN
  BY <1>1, <1>2 DEF Views
<1>5. next(g) \in Intents
  BY <1>2, EvaluateType
<1> HIDE DEF view, fresh, still, next
<1>6. QED
  BY <1>3, <1>4, <1>5

\* The steps up to the gate.
LEMMA InvestigationStepTypes ==
  ASSUME TypeOK, ActingOK, NEW w \in Workers,
         \/ Assemble(w)
         \/ Investigate(w)
         \/ InvestigationFails(w)
         \/ VerificationFails(w)
         \/ Verify(w)
         \/ Recheck(w)
         \/ Commit(w)
         \/ GateBlocks(w)
         \/ GateAllows(w)
  PROVE  TypeOK'
<1>1. StoreTypeOK /\ GateTypeOK /\ WorldTypeOK /\ WorkerTypeOK /\ Inc(w) \in Incidents
  BY TypeParts, JobTypes
<1>2. job[w] \in Job /\ Subject(w) \in Subjects
  BY JobTypes
<1>3. obs[Subject(w)] \in Views
  BY <1>1, <1>2 DEF WorldTypeOK
<1>4. {"RESOLVED", "ESCALATED_UNKNOWN", "ESCALATED_MISSING_EVIDENCE",
       "ESCALATED_POLICY_BLOCKED", "ESCALATED_PAUSED_BY_KILL_SWITCH",
       "ESCALATED_BUDGET_EXHAUSTED"} \subseteq IncidentState
  BY DEF IncidentState, Closed, Escalated
<1>5. {"investigate", "verify", "recheck", "commit", "gate", "actuating",
       "retry", "transient", "abort"} \subseteq Labels
  BY DEF Labels, InTry, OutsideTry
<1>6. ASSUME Assemble(w) PROVE TypeOK'
  <2>1. StoreTypeOK' /\ GateTypeOK' /\ WorldTypeOK'
    BY <1>1, <1>4, <1>6, StoreTypes, GateUnchanged, WorldUnchanged DEF Assemble
  <2>2. [job[w] EXCEPT !.view = obs[Subject(w)]] \in Job
    BY <1>2, <1>3 DEF Job
  <2>3. WorkerTypeOK'
    BY <1>1, <1>5, <1>6, <2>2 DEF Assemble, WorkerTypeOK, Goto
  <2>4. QED
    BY <2>1, <2>3, TypeParts
<1>7. ASSUME Investigate(w) PROVE TypeOK'
  <2>1. StoreTypeOK' /\ GateTypeOK' /\ WorldTypeOK'
    BY <1>1, <1>4, <1>7, StoreTypes, GateUnchanged, WorldUnchanged DEF Investigate
  <2>2. WorkerTypeOK'
    BY <1>1, <1>5, <1>7, GotoTypes DEF Investigate
  <2>3. QED
    BY <2>1, <2>2, TypeParts
<1>8. ASSUME InvestigationFails(w) PROVE TypeOK'
  <2>1. StoreTypeOK' /\ GateTypeOK' /\ WorldTypeOK'
    BY <1>1, <1>4, <1>8, StoreTypes, GateUnchanged, WorldUnchanged DEF InvestigationFails
  <2>2. WorkerTypeOK'
    BY <1>1, <1>4, <1>5, <1>8, GotoTypes, TerminateWithTypes DEF InvestigationFails
  <2>3. QED
    BY <2>1, <2>2, TypeParts
<1>9. ASSUME VerificationFails(w) PROVE TypeOK'
  <2>1. StoreTypeOK' /\ GateTypeOK' /\ WorldTypeOK'
    BY <1>1, <1>4, <1>9, StoreTypes, GateUnchanged, WorldUnchanged DEF VerificationFails
  <2>2. WorkerTypeOK'
    BY <1>1, <1>4, <1>5, <1>9, GotoTypes, TerminateWithTypes DEF VerificationFails
  <2>3. QED
    BY <2>1, <2>2, TypeParts
<1>10. ASSUME Verify(w) PROVE TypeOK'
  <2>1. StoreTypeOK' /\ GateTypeOK' /\ WorldTypeOK'
    BY <1>1, <1>4, <1>10, StoreTypes, GateUnchanged, WorldUnchanged DEF Verify
  <2>2. "ESCALATE" \in Intents /\ Evaluate(job[w].view) \in Intents
    BY EvaluateType DEF Intents
  <2>3. PICK c \in BOOLEAN, n \in Intents :
          job' = [job EXCEPT ![w].conflict = c, ![w].intent = n]
    BY <1>10, <2>2 DEF Verify
  <2>4. job' \in [Workers -> Job]
    BY <1>1, <1>2, <2>3 DEF WorkerTypeOK, Job
  <2>5. pc' \in [Workers -> Labels]
    BY <1>1, <1>5, <1>10 DEF Verify, WorkerTypeOK, Goto
  <2>6. QED
    BY <2>1, <2>4, <2>5, TypeParts DEF WorkerTypeOK
<1>11. ASSUME Recheck(w) PROVE TypeOK'
  <2>1. StoreTypeOK' /\ GateTypeOK' /\ WorldTypeOK'
    BY <1>1, <1>4, <1>11, StoreTypes, GateUnchanged, WorldUnchanged DEF Recheck
  <2>2. PICK v \in Views, f \in SUBSET Providers, c \in BOOLEAN, n \in Intents :
          job' = [job EXCEPT ![w].view = v, ![w].fresh = f,
                             ![w].conflict = c, ![w].intent = n]
    BY <1>11, RecheckUpdates
  <2>3. job' \in [Workers -> Job]
    BY <1>1, <1>2, <2>2 DEF WorkerTypeOK, Job
  <2>4. pc' \in [Workers -> Labels]
    BY <1>1, <1>5, <1>11 DEF Recheck, WorkerTypeOK, Goto
  <2>5. QED
    BY <2>1, <2>3, <2>4, TypeParts DEF WorkerTypeOK
<1>12. ASSUME SaveObservations(w) PROVE obs' \in [Subjects -> Views]
  <2>1. job[w].view \in Views
    BY <1>2 DEF Job
  <2>2. QED
    BY <1>1, <1>2, <1>12, <2>1 DEF SaveObservations, WorldTypeOK, Views
<1>13. ASSUME Commit(w) PROVE TypeOK'
  <2>1. StoreTypeOK' /\ GateTypeOK'
    BY <1>1, <1>4, <1>13, StoreTypes, GateUnchanged DEF Commit
  <2>2. WorldTypeOK'
    BY <1>1, <1>12, <1>13 DEF Commit, WorldTypeOK, worldVars
  <2>3. WorkerTypeOK'
    BY <1>1, <1>4, <1>5, <1>13, GotoTypes, TerminateWithTypes DEF Commit
  <2>4. QED
    BY <2>1, <2>2, <2>3, TypeParts
<1>14. ASSUME GateBlocks(w) PROVE TypeOK'
  <2>1. StoreTypeOK' /\ GateTypeOK' /\ WorldTypeOK'
    BY <1>1, <1>4, <1>14, StoreTypes, GateUnchanged, WorldUnchanged DEF GateBlocks
  <2>2. \A d : BlockedState(d) \in IncidentState
    BY <1>4 DEF BlockedState
  <2>3. WorkerTypeOK'
    BY <1>1, <1>14, <2>2, TerminateWithTypes DEF GateBlocks
  <2>4. QED
    BY <2>1, <2>3, TypeParts
<1>15. ASSUME GateAllows(w), job[w].intent \in Actions PROVE TypeOK'
  <2>1. "ACTUATION_PENDING" \in IncidentState /\ "PENDING" \in ActuationState
    BY DEF IncidentState, ActuationState
  <2>2. StoreTypeOK'
    BY <1>1, <1>15, <2>1 DEF GateAllows, Claim, StoreTypeOK, leaseVars
  <2>3. Key(Inc(w), job[w].intent) \in Keys
    BY <1>15, JobTypes DEF KeyOf, Inc
  <2>4. Amount[Inc(w)[1]] \in Nat
    BY <1>1, SubjectType, BudgetAssumption
  <2>5. GateTypeOK'
    BY <1>1, <1>15, <2>1, <2>3, <2>4 DEF GateAllows, Claim, GateTypeOK
  <2>6. WorldTypeOK' /\ WorkerTypeOK'
    BY <1>1, <1>5, <1>15, WorldUnchanged, GotoTypes DEF GateAllows
  <2>7. QED
    BY <2>2, <2>5, <2>6, TypeParts
<1>16. GateAllows(w) => job[w].intent \in Actions
  BY DEF GateAllows, ActingOK, Acting
<1>17. QED
  BY <1>6, <1>7, <1>8, <1>9, <1>10, <1>11, <1>13, <1>14, <1>15, <1>16

\* The steps of a claimed mutation.
LEMMA ActuationStepTypes ==
  ASSUME TypeOK, ActingOK, NEW w \in Workers,
         \/ StartActuating(w)
         \/ DispatchRepair(w)
         \/ DispatchRefund(w)
         \/ RecordOutcome(w)
         \/ StartReobserving(w)
         \/ Observe(w)
         \/ ObserveFails(w)
         \/ Persist(w)
  PROVE  TypeOK'
<1>1. StoreTypeOK /\ GateTypeOK /\ WorldTypeOK /\ WorkerTypeOK /\ Inc(w) \in Incidents
  BY TypeParts, JobTypes
<1>2. job[w] \in Job /\ Subject(w) \in Subjects
  BY JobTypes
<1>3. {"RESOLVED", "ACTUATING", "REOBSERVING", "ESCALATED_MUTATION_FAILED",
       "ESCALATED_CONVERGENCE_FAILED"} \subseteq IncidentState
  BY DEF IncidentState, Closed, Escalated
<1>4. {"dispatch", "outcome", "reobserving", "observe", "persist", "transient",
       "abort"} \subseteq Labels
  BY DEF Labels, InTry, OutsideTry
<1>5. ASSUME NEW s \in IncidentState, NEW from, NEW to \in Labels,
             Advance(w, from, s, to)
      PROVE  TypeOK'
  <2>1. StoreTypeOK' /\ GateTypeOK' /\ WorldTypeOK'
    BY <1>1, <1>5, StoreTypes, GateUnchanged, WorldUnchanged DEF Advance
  <2>2. WorkerTypeOK'
    BY <1>1, <1>4, <1>5, GotoTypes DEF Advance
  <2>3. QED
    BY <2>1, <2>2, TypeParts
<1>6. ASSUME StartActuating(w) \/ StartReobserving(w) PROVE TypeOK'
  BY <1>3, <1>4, <1>5, <1>6 DEF StartActuating, StartReobserving
<1>7. ASSUME NEW o \in Outcomes, Answer(w, o) PROVE WorkerTypeOK'
  BY <1>1, <1>2, <1>4, <1>7 DEF Answer, WorkerTypeOK, Goto, Job
<1>8. {"SUCCESS", "REJECTED", "TIMEOUT_UNKNOWN"} \subseteq Outcomes
  BY DEF Outcomes
<1>9. {"REPAIR_MERCHANT_STATE", "REFUND_PAYMENT"} \subseteq Actions
  BY DEF Actions
<1>10. ASSUME DispatchRepair(w) PROVE TypeOK'
  <2>1. StoreTypeOK' /\ GateTypeOK'
    BY <1>1, <1>3, <1>10, StoreTypes, GateUnchanged DEF DispatchRepair
  <2>2. KeyOf(w) \in Keys
    BY <1>9, <1>10, JobTypes DEF DispatchRepair
  <2>3. WorldTypeOK'
    BY <1>1, <1>2, <1>10, <2>2
       DEF DispatchRepair, WorldTypeOK, CountEffect, MerchantOrder
  <2>4. WorkerTypeOK'
    BY <1>7, <1>8, <1>10 DEF DispatchRepair
  <2>5. QED
    BY <2>1, <2>3, <2>4, TypeParts
<1>11. ASSUME DispatchRefund(w) PROVE TypeOK'
  <2>1. StoreTypeOK' /\ GateTypeOK'
    BY <1>1, <1>3, <1>11, StoreTypes, GateUnchanged DEF DispatchRefund
  <2>2. KeyOf(w) \in Keys
    BY <1>9, <1>11, JobTypes DEF DispatchRefund
  <2>3. WorldTypeOK'
    BY <1>1, <1>2, <1>11, <2>2
       DEF DispatchRefund, WorldTypeOK, CountEffect, Payment
  <2>4. WorkerTypeOK'
    BY <1>7, <1>8, <1>11 DEF DispatchRefund
  <2>5. QED
    BY <2>1, <2>3, <2>4, TypeParts
<1>12. ASSUME RecordOutcome(w) PROVE TypeOK'
  <2>1. StoreTypeOK' /\ WorldTypeOK'
    BY <1>1, <1>3, <1>12, StoreTypes, WorldUnchanged DEF RecordOutcome
  <2>2. job[w].outcome \in ActuationState
    BY <1>2 DEF Job, ActuationState
  <2>3. GateTypeOK'
    BY <1>1, <1>12, <2>2 DEF RecordOutcome, GateTypeOK
  <2>4. WorkerTypeOK'
    BY <1>1, <1>3, <1>4, <1>12, GotoTypes, TerminateWithTypes DEF RecordOutcome
  <2>5. QED
    BY <2>1, <2>3, <2>4, TypeParts
<1>13. ASSUME Observe(w) PROVE TypeOK'
  <2>1. StoreTypeOK' /\ GateTypeOK' /\ WorldTypeOK'
    BY <1>1, <1>3, <1>13, StoreTypes, GateUnchanged, WorldUnchanged DEF Observe
  <2> DEFINE p    == TargetOf(job[w].intent)
             view == [job[w].view EXCEPT ![p] = Observed(Subject(w))[p]]
  <2>2. p \in Providers
    BY DEF TargetOf, Providers
  <2>3. view \in Views
    BY <1>2, <2>2, ViewTypes DEF Job, Views
  <2>4. job[w].fresh \union {p} \in SUBSET Providers
    BY <1>2, <2>2 DEF Job
  <2> HIDE DEF p, view
  <2>5. ASSUME job' = [job EXCEPT ![w].view = view, ![w].fresh = @ \union {p}]
        PROVE  job' \in [Workers -> Job]
    BY <1>1, <1>2, <2>3, <2>4, <2>5 DEF WorkerTypeOK, Job
  <2>6. CASE Goto(w, "persist") /\ job' \in [Workers -> Job]
    BY <1>1, <1>4, <2>1, <2>6, TypeParts DEF WorkerTypeOK, Goto
  <2>7. CASE TerminateWith(w, "ESCALATED_CONVERGENCE_FAILED")
    BY <1>1, <1>3, <2>1, <2>7, TypeParts, TerminateWithTypes
  <2>8. QED
    BY <1>13, <2>5, <2>6, <2>7 DEF Observe, p, view
<1>14. ASSUME ObserveFails(w) PROVE TypeOK'
  <2>1. StoreTypeOK' /\ GateTypeOK' /\ WorldTypeOK'
    BY <1>1, <1>3, <1>14, StoreTypes, GateUnchanged, WorldUnchanged DEF ObserveFails
  <2>2. WorkerTypeOK'
    BY <1>1, <1>3, <1>4, <1>14, GotoTypes, TerminateWithTypes DEF ObserveFails
  <2>3. QED
    BY <2>1, <2>2, TypeParts
<1>15. ASSUME Persist(w) PROVE TypeOK'
  <2>1. StoreTypeOK' /\ GateTypeOK'
    BY <1>1, <1>3, <1>15, StoreTypes, GateUnchanged DEF Persist
  <2>2. ASSUME SaveObservations(w) PROVE obs' \in [Subjects -> Views]
    BY <1>1, <1>2, <2>2 DEF SaveObservations, WorldTypeOK, Views, Job
  <2>3. WorldTypeOK'
    BY <1>1, <1>15, <2>2 DEF Persist, WorldTypeOK, worldVars
  <2>4. WorkerTypeOK'
    BY <1>1, <1>4, <1>15, GotoTypes, LeaveTypes DEF Persist
  <2>5. QED
    BY <2>1, <2>3, <2>4, TypeParts
<1>16. QED
  BY <1>6, <1>10, <1>11, <1>12, <1>13, <1>14, <1>15

\* The ends of an iteration, and the ways it fails.
LEMMA EndStepTypes ==
  ASSUME TypeOK, NEW w \in Workers,
         Terminate(w) \/ Abort(w) \/ Retry(w) \/ Transient(w) \/ Fail(w)
  PROVE  TypeOK'
<1>1. StoreTypeOK /\ GateTypeOK /\ WorldTypeOK /\ WorkerTypeOK /\ Inc(w) \in Incidents
  BY TypeParts, JobTypes
<1>2. job[w].goal \in IncidentState /\ "ESCALATED_UNKNOWN" \in IncidentState
  BY JobTypes DEF Job, IncidentState, Escalated
<1>3. {"idle", "transient", "abort"} \subseteq Labels
  BY DEF Labels, OutsideTry
<1>4. ASSUME Terminate(w) PROVE TypeOK'
  <2>1. StoreTypeOK' /\ GateTypeOK' /\ WorldTypeOK'
    BY <1>1, <1>2, <1>4, StoreTypes, GateUnchanged, WorldUnchanged DEF Terminate
  <2>2. WorkerTypeOK'
    BY <1>1, <1>3, <1>4, GotoTypes, LeaveTypes DEF Terminate
  <2>3. QED
    BY <2>1, <2>2, TypeParts
<1>5. ASSUME Abort(w) PROVE TypeOK'
  <2>1. StoreTypeOK' /\ GateTypeOK' /\ WorldTypeOK'
    BY <1>1, <1>2, <1>5, StoreTypes, GateUnchanged, WorldUnchanged DEF Abort
  <2>2. WorkerTypeOK'
    BY <1>1, <1>5, LeaveTypes DEF Abort
  <2>3. QED
    BY <2>1, <2>2, TypeParts
<1>6. ASSUME Retry(w) PROVE TypeOK'
  <2>1. StoreTypeOK' /\ GateTypeOK' /\ WorldTypeOK'
    BY <1>1, <1>2, <1>6, StoreTypes, GateUnchanged, WorldUnchanged
       DEF Retry, RetryLater, RetryIsIllegal
  <2>2. WorkerTypeOK'
    BY <1>1, <1>3, <1>6, GotoTypes, LeaveTypes DEF Retry, RetryLater
  <2>3. QED
    BY <2>1, <2>2, TypeParts
<1>7. ASSUME Transient(w) PROVE TypeOK'
  <2>1. StoreTypeOK' /\ GateTypeOK' /\ WorldTypeOK'
    BY <1>1, <1>2, <1>7, StoreTypes, GateUnchanged, WorldUnchanged
       DEF Transient, RetryLater, RetryIsIllegal
  <2>2. WorkerTypeOK'
    BY <1>1, <1>7, LeaveTypes DEF Transient, RetryLater
  <2>3. QED
    BY <2>1, <2>2, TypeParts
<1>8. ASSUME Fail(w) PROVE TypeOK'
  <2>1. StoreTypeOK' /\ GateTypeOK' /\ WorldTypeOK'
    BY <1>1, <1>2, <1>8, StoreTypes, GateUnchanged, WorldUnchanged
       DEF Fail, Crash, DatabaseFails
  <2>2. NoJob(NoEvent) \in Job
    BY NoJobType
  <2>3. CASE Crash(w)
    BY <1>1, <1>3, <2>1, <2>2, <2>3, TypeParts DEF Crash, WorkerTypeOK, Goto
  <2>4. CASE DatabaseFails(w)
    BY <1>1, <1>3, <2>1, <2>4, TypeParts, GotoTypes, LeaveTypes DEF DatabaseFails
  <2>5. QED
    BY <1>8, <2>3, <2>4 DEF Fail
<1>9. QED
  BY <1>4, <1>5, <1>6, <1>7, <1>8

\* The steps that no worker takes.
LEMMA OtherStepTypes ==
  ASSUME TypeOK,
         (\E i \in Incidents : Operator(i) \/ Tick(i)) \/ KillSwitch \/ Environment
  PROVE  TypeOK'
<1>1. StoreTypeOK /\ GateTypeOK /\ WorldTypeOK /\ WorkerTypeOK
  BY TypeParts
<1>2. ASSUME UNCHANGED workerVars PROVE WorkerTypeOK'
  BY <1>1, <1>2 DEF WorkerTypeOK, workerVars
<1>3. StoreTypeOK /\ UNCHANGED storeVars => StoreTypeOK'
  BY DEF StoreTypeOK, storeVars
<1>4. ASSUME NEW i \in Incidents, Operator(i) \/ Tick(i) PROVE TypeOK'
  <2>1. {"INVESTIGATING", "RESOLVED", "ESCALATED_UNKNOWN"} \subseteq IncidentState
    BY DEF IncidentState, Closed, Escalated
  <2>2. PICK s \in IncidentState :
          TerminateIncident(i, s) \/ LeaseExpires(i) \/ BackoffElapses(i)
    BY <1>4, <2>1 DEF Operator, Tick, OperatorRetry, OperatorResolve,
                      OperatorEscalate, Move
  <2>3. StoreTypeOK'
    <3>1. CASE Workers = {}
      BY <1>1, <2>2, <3>1 DEF StoreTypeOK, TerminateIncident, LeaseExpires,
                              BackoffElapses, ClearLease, leaseVars
    <3>2. CASE Workers # {}
      <4>1. PICK w : w \in Workers
        BY <3>2
      <4>2. QED
        BY <1>1, <2>2, <4>1, StoreTypes
    <3>3. QED
      BY <3>1, <3>2
  <2>4. GateTypeOK' /\ WorldTypeOK' /\ WorkerTypeOK'
    BY <1>1, <1>2, <1>4, GateUnchanged, WorldUnchanged
       DEF Operator, Tick, Untouched
  <2>5. QED
    BY <2>3, <2>4, TypeParts
<1>5. ASSUME KillSwitch PROVE TypeOK'
  <2>1. GateTypeOK'
    BY <1>1, <1>5 DEF KillSwitch, SetAutomation, GateTypeOK
  <2>2. StoreTypeOK' /\ WorldTypeOK' /\ WorkerTypeOK'
    BY <1>1, <1>2, <1>3, <1>5, WorldUnchanged DEF KillSwitch, Untouched
  <2>3. QED
    BY <2>1, <2>2, TypeParts
<1>6. ASSUME Environment PROVE TypeOK'
  <2>1. StoreTypeOK' /\ GateTypeOK' /\ WorkerTypeOK'
    BY <1>1, <1>2, <1>3, <1>6, GateUnchanged
       DEF Environment, Publish, RecoverStale, WorldStep, Ingest, RequestLands
  <2>2. ASSUME NEW e \in Events, Publish(e) \/ RecoverStale(e) PROVE WorldTypeOK'
    BY <1>1, <2>2 DEF Publish, RecoverStale, WorldTypeOK, worldVars, EventStatus
  <2>3. ASSUME NEW s \in Subjects, WorldStep(s) PROVE WorldTypeOK'
    BY <1>1, <2>3 DEF WorldStep, WorldTypeOK, MerchantOrder, Payment
  <2>4. ASSUME NEW s \in Subjects, NEW p \in Providers, Ingest(s, p)
        PROVE  WorldTypeOK'
    <3>1. Ingested(s)[p] \in CanonicalStatus
      BY ViewTypes DEF Views
    <3>2. [obs[s] EXCEPT ![p] = Ingested(s)[p]] \in Views
      BY <1>1, <3>1 DEF WorldTypeOK, Views
    <3>3. QED
      BY <1>1, <2>4, <3>2 DEF Ingest, WorldTypeOK, worldVars
  <2>5. ASSUME NEW k \in Keys, RequestLands(k) PROVE WorldTypeOK'
    <3>1. k[1] \in Subjects
      BY DEF Keys
    <3>2. QED
      BY <1>1, <2>5, <3>1 DEF RequestLands, WorldTypeOK, CountEffect, Payment
  <2>6. QED
    BY <1>6, <2>1, <2>2, <2>3, <2>4, <2>5, TypeParts DEF Environment
<1>7. QED
  BY <1>4, <1>5, <1>6

\* A step of one worker leaves the local variables of the others alone.
LEMMA OthersKeep ==
  ASSUME NEW w \in Workers, NEW v \in Workers, v # w, WorkerTypeOK,
         Iterate(w) \/ Fail(w)
  PROVE  pc'[v] = pc[v] /\ job'[v] = job[v]
<1> USE DEF Goto, Keep, WorkerTypeOK, TerminateWith, Leave, Snapshot, Answer
<1>1. CASE \/ \E e \in Events : PollEvent(w, e)
           \/ \E i \in Incidents : PollRetry(w, i)
           \/ ClaimIncident(w) \/ Lease(w) \/ LeaseRefused(w) \/ StaleGuard(w)
           \/ DropStale(w) \/ Assemble(w) \/ Investigate(w) \/ InvestigationFails(w)
  BY <1>1 DEF PollEvent, PollRetry, ClaimIncident, Lease, LeaseRefused,
              StaleGuard, DropStale, Assemble, Investigate, InvestigationFails
<1>2. CASE Verify(w) \/ VerificationFails(w) \/ Recheck(w) \/ Commit(w)
  BY <1>2 DEF Verify, VerificationFails, Recheck, Commit
<1>3. CASE GateBlocks(w) \/ GateAllows(w) \/ StartActuating(w) \/ DispatchRepair(w)
           \/ DispatchRefund(w) \/ RecordOutcome(w) \/ StartReobserving(w)
  BY <1>3 DEF GateBlocks, GateAllows, StartActuating, StartReobserving, Advance,
              DispatchRepair, DispatchRefund, RecordOutcome
<1>4. CASE Observe(w) \/ ObserveFails(w) \/ Persist(w) \/ Terminate(w) \/ Abort(w)
  BY <1>4 DEF Observe, ObserveFails, Persist, Terminate, Abort
<1>5. CASE Retry(w) \/ Transient(w) \/ MarkEvent(w)
  BY <1>5 DEF Retry, Transient, RetryLater, MarkEvent
<1>6. CASE Fail(w)
  BY <1>6 DEF Fail, Crash, DatabaseFails
<1>7. QED
  BY <1>1, <1>2, <1>3, <1>4, <1>5, <1>6 DEF Iterate

\* What a worker acts on was chosen by the policy.
LEMMA ActingStep ==
  ASSUME TypeOK, ActingOK, Next
  PROVE  ActingOK'
<1>1. ASSUME NEW w \in Workers, Iterate(w) \/ Fail(w) PROVE ActingOK'
  <2>1. WorkerTypeOK /\ job[w] \in Job
    BY TypeParts, JobTypes
  <2>2. SUFFICES ASSUME pc'[w] \in Acting PROVE job'[w].intent \in Actions
    BY <1>1, <2>1, OthersKeep DEF ActingOK
  <2>3. CASE Verify(w) \/ Recheck(w)
    BY <2>1, <2>2, <2>3 DEF Verify, Recheck, WorkerTypeOK, Goto, Acting
  <2>4. CASE Commit(w)
    <3>1. job[w].intent \in Intents
      BY <2>1 DEF Job
    <3>2. QED
      BY <2>1, <2>2, <2>4, <3>1
         DEF Commit, WorkerTypeOK, Goto, Acting, TerminateWith, Keep, Intents
  <2>5. CASE GateAllows(w) \/ StartActuating(w) \/ DispatchRepair(w)
             \/ DispatchRefund(w) \/ RecordOutcome(w) \/ StartReobserving(w)
             \/ Observe(w)
    <3>1. pc[w] \in Acting
      BY <2>5 DEF GateAllows, StartActuating, StartReobserving, Advance, Observe,
                  DispatchRepair, DispatchRefund, RecordOutcome, Acting
    <3>2. job[w].intent \in Actions
      BY <3>1 DEF ActingOK
    <3>3. job'[w].intent = job[w].intent
      <4>1. CASE Observe(w)
        BY <2>1, <4>1 DEF Observe, WorkerTypeOK, TerminateWith, Job
      <4>2. CASE ~Observe(w)
        BY <2>1, <2>5, <4>2
           DEF GateAllows, StartActuating, StartReobserving, Advance, DispatchRepair,
               DispatchRefund, RecordOutcome, Answer, WorkerTypeOK,
               TerminateWith, Keep, Job
      <4>3. QED
        BY <4>1, <4>2
    <3>4. QED
      BY <3>2, <3>3
  <2>6. CASE \/ \E e \in Events : PollEvent(w, e)
             \/ \E i \in Incidents : PollRetry(w, i)
             \/ ClaimIncident(w) \/ Lease(w) \/ LeaseRefused(w) \/ StaleGuard(w)
             \/ DropStale(w) \/ Assemble(w) \/ Investigate(w)
             \/ InvestigationFails(w) \/ VerificationFails(w) \/ GateBlocks(w)
    BY <2>1, <2>2, <2>6
       DEF PollEvent, PollRetry, ClaimIncident, Lease, LeaseRefused, StaleGuard,
           DropStale, Assemble, Investigate, InvestigationFails,
           VerificationFails, GateBlocks, Leave, WorkerTypeOK, Goto, Acting,
           TerminateWith
  <2>7. CASE ObserveFails(w) \/ Persist(w) \/ Terminate(w) \/ Abort(w)
             \/ Retry(w) \/ Transient(w) \/ MarkEvent(w) \/ Fail(w)
    BY <2>1, <2>2, <2>7
       DEF ObserveFails, Persist, Terminate, Abort, Retry, Transient, RetryLater,
           MarkEvent, Fail, Crash, DatabaseFails, Leave, WorkerTypeOK, Goto,
           Acting, TerminateWith
  <2>8. QED
    BY <1>1, <2>3, <2>4, <2>5, <2>6, <2>7 DEF Iterate
<1>2. ASSUME UNCHANGED workerVars PROVE ActingOK'
  BY <1>2 DEF workerVars, ActingOK
<1>3. QED
  BY <1>1, <1>2
     DEF Next, Operator, Tick, KillSwitch, Environment, Untouched, Publish,
         RecoverStale, WorldStep, Ingest, RequestLands

\* Every variable keeps the type its column, enumeration or attribute has in
\* the code, in particular a worker that reaches the gate holds an action.
THEOREM TypeCorrect == Spec => [](TypeOK /\ ActingOK)
<1>1. Init => TypeOK /\ ActingOK
  BY InitialTypes DEF Init, ActingOK, Acting
<1>2. TypeOK /\ ActingOK /\ [Next]_vars => (TypeOK /\ ActingOK)'
  <2> SUFFICES ASSUME TypeOK, ActingOK, [Next]_vars PROVE TypeOK' /\ ActingOK'
    OBVIOUS
  <2>1. CASE UNCHANGED vars
    BY <2>1 DEF vars, storeVars, leaseVars, gateVars, worldVars, workerVars, TypeOK,
                StoreTypeOK, GateTypeOK, ActingOK
  <2>2. ASSUME Next PROVE TypeOK'
    BY <2>2, LeaseStepTypes, InvestigationStepTypes, ActuationStepTypes,
       EndStepTypes, OtherStepTypes DEF Next, Iterate
  <2>3. QED
    BY <2>1, <2>2, ActingStep
<1>3. QED
  BY <1>1, <1>2, PTL DEF Spec

(***************************************************************************)
(* The claim protocol.  ExclusiveExecutor is not inductive: that a worker  *)
(* at "actuating" or beyond is alone with its key follows from the record  *)
(* it inserted being PENDING until it reports, and RejectedNeverLands from *)
(* a mutation that was answered REJECTED having left nothing behind.       *)
(***************************************************************************)

NoEffect(k) == applied[k] = 0 /\ inflight[k] = 0

\* The worker has not sent its mutation yet, or was refused.
Effectless(w) ==
  pc[w] \in {"actuating", "dispatch"} \/ (pc[w] = "outcome" /\ job[w].outcome = "REJECTED")

ClaimInv ==
  /\ \A w \in Workers : Executing(w) => actuation[KeyOf(w)] = "PENDING"
  /\ \A w \in Workers : Effectless(w) => NoEffect(KeyOf(w))
  /\ \A k \in Keys : actuation[k] \in {"NONE", "REJECTED"} => NoEffect(k)
  /\ \A k \in Keys : applied[k] + inflight[k] <= 1
  /\ ExclusiveExecutor

\* A step that neither writes a record nor has an effect, and after which a
\* worker executes only what it executed before.
LEMMA ClaimQuiet ==
  ASSUME ClaimInv, UNCHANGED <<actuation, inflight, applied>>,
         \A v \in Workers : \/ pc'[v] \notin {"actuating", "dispatch", "outcome"}
                            \/ pc'[v] = pc[v] /\ job'[v] = job[v]
  PROVE  ClaimInv'
<1>1. \A v \in Workers : Executing(v)' => Executing(v) /\ KeyOf(v)' = KeyOf(v)
  BY DEF Executing, KeyOf, Key
<1>2. \A v \in Workers : Effectless(v)' => Effectless(v) /\ KeyOf(v)' = KeyOf(v)
  BY DEF Effectless, KeyOf, Key
<1>3. \A k : NoEffect(k)' <=> NoEffect(k)
  BY DEF NoEffect
<1>4. (\A w \in Workers : Executing(w) => actuation[KeyOf(w)] = "PENDING")'
  BY <1>1 DEF ClaimInv
<1>5. (\A w \in Workers : Effectless(w) => NoEffect(KeyOf(w)))'
  BY <1>2, <1>3 DEF ClaimInv
<1>6. ExclusiveExecutor'
  BY <1>1 DEF ClaimInv, ExclusiveExecutor
<1>7. QED
  BY <1>3, <1>4, <1>5, <1>6 DEF ClaimInv

\* A worker that begins to execute inserted its record with the same step.
LEMMA ClaimGate ==
  ASSUME TypeOK, ActingOK, ClaimInv, NEW w \in Workers, GateAllows(w)
  PROVE  ClaimInv'
<1>0. PICK k : k = KeyOf(w)
  OBVIOUS
<1>1. WorkerTypeOK /\ k \in Keys
  BY <1>0, JobTypes DEF GateAllows, ActingOK, Acting
<1>2. actuation \in [Keys -> ActuationState]
  BY DEF TypeOK, GateTypeOK
<1>3. actuation[k] = "NONE"
  BY <1>0 DEF GateAllows, GateDecision, KeyOf, Inc
<1>4. actuation' = [actuation EXCEPT ![k] = "PENDING"]
  BY <1>0 DEF GateAllows, Claim, KeyOf, Inc
<1>5. UNCHANGED <<inflight, applied, job>> /\ pc' = [pc EXCEPT ![w] = "actuating"]
  BY DEF GateAllows, worldVars, Goto, Keep
<1>6. \A v \in Workers : KeyOf(v)' = KeyOf(v)
  BY <1>5 DEF KeyOf, Key
<1>7. \A v \in Workers : v # w => /\ Executing(v)' <=> Executing(v)
                                  /\ Effectless(v)' <=> Effectless(v)
  BY <1>1, <1>5 DEF Executing, Effectless, WorkerTypeOK
<1>8. \A v \in Workers : v # w /\ Executing(v) => KeyOf(v) # k
  BY <1>3 DEF ClaimInv
<1>9. NoEffect(k)
  BY <1>1, <1>3 DEF ClaimInv
<1>10. (\A v \in Workers : Executing(v) => actuation[KeyOf(v)] = "PENDING")'
  BY <1>1, <1>2, <1>4, <1>6, <1>7, <1>8, <1>0 DEF ClaimInv
<1>11. (\A v \in Workers : Effectless(v) => NoEffect(KeyOf(v)))'
  BY <1>6, <1>5, <1>7, <1>9, <1>0 DEF ClaimInv, NoEffect
<1>12. (\A l \in Keys : actuation[l] \in {"NONE", "REJECTED"} => NoEffect(l))'
  BY <1>2, <1>4, <1>5 DEF ClaimInv, NoEffect
<1>13. ExclusiveExecutor'
  BY <1>6, <1>7, <1>8, <1>0 DEF ClaimInv, ExclusiveExecutor
<1>14. QED
  BY <1>5, <1>10, <1>11, <1>12, <1>13 DEF ClaimInv

\* Sending a mutation touches the effects of the worker's own key only, and
\* not at all when the answer is REJECTED.
LEMMA ClaimDispatch ==
  ASSUME TypeOK, ActingOK, ClaimInv, NEW w \in Workers,
         DispatchRepair(w) \/ DispatchRefund(w)
  PROVE  ClaimInv'
<1>0. PICK k : k = KeyOf(w)
  OBVIOUS
<1>1. WorkerTypeOK /\ k \in Keys /\ job[w] \in Job /\ pc[w] = "dispatch"
  BY <1>0, JobTypes DEF DispatchRepair, DispatchRefund, ActingOK, Acting
<1>2. applied \in [Keys -> Nat] /\ inflight \in [Keys -> Nat]
  BY DEF TypeOK
<1>3. actuation[k] = "PENDING" /\ NoEffect(k)
  BY <1>0, <1>1 DEF ClaimInv, Executing, Effectless
<1>4. PICK o \in Outcomes : Answer(w, o)
  BY DEF DispatchRepair, DispatchRefund, Outcomes
<1>5. pc' = [pc EXCEPT ![w] = "outcome"] /\ job' = [job EXCEPT ![w].outcome = o]
  BY <1>4 DEF Answer, Goto
<1>6. \/ UNCHANGED <<applied, inflight>>
      \/ o # "REJECTED" /\ applied' = [applied EXCEPT ![k] = @ + 1] /\ inflight' = inflight
      \/ o # "REJECTED" /\ inflight' = [inflight EXCEPT ![k] = @ + 1] /\ applied' = applied
  <2>1. job'[w].outcome = o
    BY <1>1, <1>5 DEF WorkerTypeOK, Job
  <2>2. \A a \in Outcomes : Answer(w, a) => job'[w].outcome = a
    BY <1>1 DEF Answer, WorkerTypeOK, Job
  <2>3. CASE DispatchRepair(w)
    BY <1>0, <2>1, <2>2, <2>3 DEF DispatchRepair, CountEffect, Outcomes
  <2>4. CASE DispatchRefund(w)
    BY <1>0, <2>1, <2>2, <2>4 DEF DispatchRefund, CountEffect, Outcomes
  <2>5. QED
    BY <2>3, <2>4
<1>7. UNCHANGED actuation
  BY DEF DispatchRepair, DispatchRefund, gateVars
<1>8. \A v \in Workers : KeyOf(v)' = KeyOf(v)
  BY <1>1, <1>5 DEF KeyOf, Key, WorkerTypeOK, Job
<1>9. \A v \in Workers : Executing(v)' <=> Executing(v)
  BY <1>1, <1>5 DEF Executing, WorkerTypeOK
<1>10. \A v \in Workers : v # w => (Effectless(v)' <=> Effectless(v))
  BY <1>1, <1>5 DEF Effectless, WorkerTypeOK
<1>11. Effectless(w)' => o = "REJECTED"
  BY <1>1, <1>5 DEF Effectless, WorkerTypeOK, Job
<1>12. \A l \in Keys : l # k => applied'[l] = applied[l] /\ inflight'[l] = inflight[l]
  BY <1>1, <1>2, <1>6
<1>13. o = "REJECTED" => applied'[k] = 0 /\ inflight'[k] = 0
  BY <1>3, <1>6 DEF NoEffect
<1>14. \A v \in Workers : v # w /\ Effectless(v) => KeyOf(v) \in Keys /\ KeyOf(v) # k
  <2> SUFFICES ASSUME NEW v \in Workers, v # w, Effectless(v)
               PROVE  KeyOf(v) \in Keys /\ KeyOf(v) # k
    OBVIOUS
  <2>1. Executing(v) /\ Executing(w) /\ pc[v] \in Acting
    BY <1>1 DEF Effectless, Executing, Acting
  <2>2. QED
    BY <1>0, <2>1, JobTypes DEF ClaimInv, ExclusiveExecutor, ActingOK
<1>15. (\A l \in Keys : applied[l] + inflight[l] <= 1)'
  BY <1>1, <1>2, <1>3, <1>6 DEF ClaimInv, NoEffect
<1>17. (\A v \in Workers : Executing(v) => actuation[KeyOf(v)] = "PENDING")'
  BY <1>7, <1>8, <1>9 DEF ClaimInv
<1>18. (\A v \in Workers : Effectless(v) => NoEffect(KeyOf(v)))'
  BY <1>8, <1>10, <1>11, <1>12, <1>13, <1>14, <1>0 DEF ClaimInv, NoEffect
<1>19. (\A l \in Keys : actuation[l] \in {"NONE", "REJECTED"} => NoEffect(l))'
  BY <1>3, <1>7, <1>12 DEF ClaimInv, NoEffect
<1>20. ExclusiveExecutor'
  BY <1>8, <1>9 DEF ClaimInv, ExclusiveExecutor
<1>21. QED
  BY <1>15, <1>17, <1>18, <1>19, <1>20 DEF ClaimInv

\* Reporting a mutation ends its execution; REJECTED is reported of one that
\* was answered so.
LEMMA ClaimRecord ==
  ASSUME TypeOK, ActingOK, ClaimInv, NEW w \in Workers, RecordOutcome(w)
  PROVE  ClaimInv'
<1>0. PICK k : k = KeyOf(w)
  OBVIOUS
<1>1. WorkerTypeOK /\ k \in Keys /\ job[w] \in Job /\ pc[w] = "outcome"
  BY <1>0, JobTypes DEF RecordOutcome, ActingOK, Acting
<1>2. actuation \in [Keys -> ActuationState] /\ job[w].outcome \in Outcomes
  BY <1>1 DEF TypeOK, GateTypeOK, Job
<1>3. actuation' = [actuation EXCEPT ![k] = job[w].outcome]
  BY <1>0 DEF RecordOutcome
<1>4. UNCHANGED <<inflight, applied>>
  BY DEF RecordOutcome, worldVars
<1>5. pc'[w] \notin {"actuating", "dispatch", "outcome"}
  BY <1>1 DEF RecordOutcome, TerminateWith, Goto, WorkerTypeOK
<1>6. \A v \in Workers : v # w => pc'[v] = pc[v] /\ job'[v] = job[v]
  BY <1>1, OthersKeep DEF Iterate
<1>7. \A v \in Workers : Executing(v)' => v # w /\ Executing(v) /\ KeyOf(v)' = KeyOf(v)
  BY <1>5, <1>6 DEF Executing, KeyOf, Key
<1>8. \A v \in Workers : Effectless(v)' => Effectless(v) /\ KeyOf(v)' = KeyOf(v)
  BY <1>5, <1>6 DEF Effectless, KeyOf, Key
<1>9. \A v \in Workers : v # w /\ Executing(v) => KeyOf(v) \in Keys /\ KeyOf(v) # k
  <2> SUFFICES ASSUME NEW v \in Workers, v # w, Executing(v)
               PROVE  KeyOf(v) \in Keys /\ KeyOf(v) # k
    OBVIOUS
  <2>1. Executing(w) /\ pc[v] \in Acting
    BY <1>1 DEF Executing, Acting
  <2>2. QED
    BY <1>0, <2>1, JobTypes DEF ClaimInv, ExclusiveExecutor, ActingOK
<1>10. job[w].outcome = "REJECTED" => NoEffect(k)
  BY <1>0, <1>1 DEF ClaimInv, Effectless
<1>11. (\A v \in Workers : Executing(v) => actuation[KeyOf(v)] = "PENDING")'
  BY <1>2, <1>3, <1>7, <1>9 DEF ClaimInv
<1>12. (\A v \in Workers : Effectless(v) => NoEffect(KeyOf(v)))'
  BY <1>4, <1>8 DEF ClaimInv, NoEffect
<1>13. (\A l \in Keys : actuation[l] \in {"NONE", "REJECTED"} => NoEffect(l))'
  BY <1>2, <1>3, <1>4, <1>10 DEF ClaimInv, NoEffect, Outcomes
<1>14. ExclusiveExecutor'
  BY <1>7 DEF ClaimInv, ExclusiveExecutor
<1>15. QED
  BY <1>4, <1>11, <1>12, <1>13, <1>14 DEF ClaimInv

\* A late request lands under a key that was claimed and not refused, and
\* that no worker is about to send.
LEMMA ClaimLands ==
  ASSUME TypeOK, ActingOK, ClaimInv, NEW k \in Keys, RequestLands(k)
  PROVE  ClaimInv'
<1>1. applied \in [Keys -> Nat] /\ inflight \in [Keys -> Nat] /\ inflight[k] > 0
  BY DEF TypeOK, RequestLands
<1>2. inflight' = [inflight EXCEPT ![k] = @ - 1]
  BY DEF RequestLands
<1>3. applied' = [applied EXCEPT ![k] = @ + 1] \/ applied' = applied
  BY DEF RequestLands, CountEffect
<1>4. UNCHANGED <<actuation, pc, job>>
  BY DEF RequestLands, gateVars, workerVars
<1>5. ~NoEffect(k)
  BY <1>1 DEF NoEffect
<1>6. \A l \in Keys : NoEffect(l) => applied'[l] = 0 /\ inflight'[l] = 0
  BY <1>1, <1>2, <1>3, <1>5 DEF NoEffect
<1>7. \A v \in Workers : Effectless(v) => KeyOf(v) \in Keys
  BY JobTypes DEF Effectless, ActingOK, Acting
<1>8. (\A l \in Keys : applied[l] + inflight[l] <= 1)'
  BY <1>1, <1>2, <1>3 DEF ClaimInv
<1>9. (\A l \in Keys : actuation[l] \in {"NONE", "REJECTED"} => NoEffect(l))'
  BY <1>4, <1>6 DEF ClaimInv, NoEffect
<1>10. (\A v \in Workers : Effectless(v) => NoEffect(KeyOf(v)))'
  BY <1>4, <1>6, <1>7 DEF ClaimInv, Effectless, NoEffect, KeyOf, Key
<1>11. ExclusiveExecutor' /\ (\A v \in Workers : Executing(v) => actuation[KeyOf(v)] = "PENDING")'
  BY <1>4 DEF ClaimInv, ExclusiveExecutor, Executing, KeyOf, Key
<1>12. QED
  BY <1>8, <1>9, <1>10, <1>11 DEF ClaimInv

\* Every other step is quiet.
LEMMA ClaimStep ==
  ASSUME TypeOK, ActingOK, ClaimInv, Next
  PROVE  ClaimInv'
<1>1. ASSUME NEW w \in Workers, Iterate(w) \/ Fail(w) PROVE ClaimInv'
  <2> DEFINE Quiet == /\ UNCHANGED <<actuation, inflight, applied>>
                      /\ \/ pc'[w] \notin {"actuating", "dispatch", "outcome"}
                         \/ pc'[w] = pc[w] /\ job'[w] = job[w]
  <2>1. WorkerTypeOK
    BY TypeParts
  <2>2. ASSUME Quiet PROVE ClaimInv'
    BY <1>1, <2>1, <2>2, OthersKeep, ClaimQuiet
  <2>3. CASE \/ \E e \in Events : PollEvent(w, e)
             \/ \E i \in Incidents : PollRetry(w, i)
             \/ ClaimIncident(w) \/ Lease(w) \/ LeaseRefused(w) \/ StaleGuard(w)
             \/ DropStale(w) \/ Assemble(w) \/ Investigate(w)
             \/ InvestigationFails(w) \/ VerificationFails(w) \/ GateBlocks(w)
    BY <2>1, <2>2, <2>3
       DEF PollEvent, PollRetry, ClaimIncident, Lease, LeaseRefused, StaleGuard,
           DropStale, Assemble, Investigate, InvestigationFails, VerificationFails,
           GateBlocks, Leave, WorkerTypeOK, Goto, TerminateWith, gateVars, worldVars
  <2>4. CASE Verify(w) \/ Recheck(w) \/ Commit(w) \/ StartReobserving(w) \/ Observe(w)
    BY <2>1, <2>2, <2>4
       DEF Verify, Recheck, Commit, StartReobserving, Advance, Observe,
           WorkerTypeOK, Goto, TerminateWith, gateVars, worldVars
  <2>5. CASE ObserveFails(w) \/ Persist(w) \/ Terminate(w) \/ Abort(w)
             \/ Retry(w) \/ Transient(w) \/ MarkEvent(w) \/ Fail(w)
    BY <2>1, <2>2, <2>5
       DEF ObserveFails, Persist, Terminate, Abort, Retry, Transient, RetryLater,
           MarkEvent, Fail, Crash, DatabaseFails, Leave, WorkerTypeOK, Goto,
           TerminateWith, gateVars, worldVars
  <2>6. CASE StartActuating(w)
    <3>1. pc[w] = "actuating" /\ job' = job
      BY <2>6 DEF StartActuating, Advance, Keep
    <3>2. UNCHANGED <<actuation, inflight, applied>>
      BY <2>6 DEF StartActuating, Advance, gateVars, worldVars
    <3>3. CASE pc' = [pc EXCEPT ![w] = "dispatch"]
      <4>1. \A v \in Workers : /\ Executing(v)' <=> Executing(v)
                               /\ Effectless(v)' <=> Effectless(v)
                               /\ KeyOf(v)' = KeyOf(v)
        BY <2>1, <3>1, <3>3 DEF Executing, Effectless, KeyOf, Key, WorkerTypeOK
      <4>2. QED
        BY <3>2, <4>1 DEF ClaimInv, NoEffect, ExclusiveExecutor
    <3>4. CASE pc' = [pc EXCEPT ![w] = "abort"]
      BY <2>1, <2>2, <3>2, <3>4 DEF WorkerTypeOK
    <3>5. QED
      BY <2>6, <3>3, <3>4 DEF StartActuating, Advance, Goto
  <2>7. QED
    BY <1>1, <2>3, <2>4, <2>5, <2>6, ClaimGate, ClaimDispatch, ClaimRecord DEF Iterate
<1>2. CASE (\E i \in Incidents : Operator(i) \/ Tick(i)) \/ KillSwitch
  BY <1>2, ClaimQuiet
     DEF Operator, Tick, KillSwitch, SetAutomation, Untouched, gateVars, worldVars,
         workerVars
<1>3. CASE Environment
  BY <1>3, ClaimQuiet, ClaimLands
     DEF Environment, Publish, RecoverStale, WorldStep, Ingest, gateVars, worldVars,
         workerVars
<1>4. QED
  BY <1>1, <1>2, <1>3 DEF Next

\* Whatever crashes, retries and expired leases do, the claim invariant holds:
\* one executor per PENDING record, no trace of a refused mutation, at most
\* one effect per key, already there or still on its way.
THEOREM ClaimCorrect == Spec => []ClaimInv
<1>1. Init => ClaimInv
  BY DEF Init, GateInit, ClaimInv, ExclusiveExecutor, Executing, Effectless, NoEffect
<1>2. TypeOK /\ ActingOK /\ ClaimInv /\ [Next]_vars => ClaimInv'
  <2> SUFFICES ASSUME TypeOK, ActingOK, ClaimInv, UNCHANGED vars PROVE ClaimInv'
    BY ClaimStep
  <2>1. QED
    BY ClaimQuiet DEF vars, gateVars, worldVars, workerVars
<1>3. QED
  BY <1>1, <1>2, TypeCorrect, PTL DEF Spec

\* Two workers never execute the mutation of one key at the same time.
THEOREM ExclusiveExecution == Spec => []ExclusiveExecutor
<1>1. ClaimInv => ExclusiveExecutor
  BY DEF ClaimInv
<1>2. QED
  BY <1>1, ClaimCorrect, PTL

\* A mutation recorded as REJECTED has no effect, then or later.
THEOREM RejectedHasNoEffect == Spec => []RejectedNeverLands
<1>1. ClaimInv => RejectedNeverLands
  BY DEF ClaimInv, RejectedNeverLands, NoEffect
<1>2. QED
  BY <1>1, ClaimCorrect, PTL

(***************************************************************************)
(* Retries.  RetriesBounded is not inductive: the bound is compared with   *)
(* the count in the worker's snapshot.  It holds because whoever still     *)
(* owns the lease has the current count: only the owner counts, and it     *)
(* gives the lease up when it does.                                        *)
(***************************************************************************)

\* The worker has taken its snapshot.
Working == InTry \union {"guard", "drop", "transient", "abort"}

Holds(w) == pc[w] \in Working /\ Owns(w, Inc(w))

RetryInv ==
  /\ RetriesBounded
  /\ \A w \in Workers : Holds(w) => job[w].retries = retries[Inc(w)]
  /\ \A w \in Workers : pc[w] = "retry" => job[w].retries < MaxRetries

\* No worker gains a lease.
NoLeaseGained ==
  \A i \in Incidents : leaseOwner'[i] = leaseOwner[i] \/ leaseOwner'[i] = NoWorker

\* Worker v goes on with its snapshot, or has none any more.
SnapshotKept(v) ==
  \/ pc'[v] \notin Working
  \/ /\ pc[v] \in Working
     /\ job'[v].inc = job[v].inc
     /\ job'[v].retries = job[v].retries
     /\ pc'[v] = "retry" => pc[v] = "retry" \/ job[v].retries < MaxRetries

LEMMA RetryQuiet ==
  ASSUME TypeOK, RetryInv, UNCHANGED retries, NoLeaseGained,
         \A v \in Workers : SnapshotKept(v)
  PROVE  RetryInv'
<1>1. RetriesBounded'
  BY DEF RetryInv, RetriesBounded
<1>2. \A v \in Workers : Inc(v) \in Incidents
  BY JobTypes
<1>3. ASSUME NEW v \in Workers, Holds(v)' PROVE job'[v].retries = retries'[Inc(v)']
  <2>1. Inc(v)' = Inc(v) /\ pc[v] \in Working /\ job'[v].retries = job[v].retries
    BY <1>3 DEF Holds, SnapshotKept, Inc
  <2>2. Owns(v, Inc(v))
    BY <1>2, <1>3, <2>1, NoWorkerAssumption DEF Holds, Owns, NoLeaseGained
  <2>3. QED
    BY <2>1, <2>2 DEF RetryInv, Holds
<1>4. "retry" \in Working
  BY DEF Working, InTry
<1>5. \A v \in Workers : pc'[v] = "retry" => job'[v].retries < MaxRetries
  BY <1>4 DEF RetryInv, SnapshotKept
<1>6. QED
  BY <1>1, <1>3, <1>5 DEF RetryInv

\* The worker that gains the lease reads the count with it.
LEMMA RetryLease ==
  ASSUME TypeOK, RetryInv, NEW w \in Workers,
         Lease(w) \/ \E i \in Incidents : PollRetry(w, i)
  PROVE  RetryInv'
<1>1. PICK i \in Incidents : GrantLease(w, i) /\ \E e, t : Snapshot(w, i, e, t)
  BY JobTypes DEF Lease, AcquireLease, PollRetry, AcquireMaturedRetry
<1>2. UNCHANGED retries /\ pc' = [pc EXCEPT ![w] = "guard"]
  BY DEF Lease, AcquireLease, PollRetry, AcquireMaturedRetry, Goto
<1>3. WorkerTypeOK /\ job[w] \in Job /\ leaseOwner \in [Incidents -> Workers \union {NoWorker}]
  BY JobTypes DEF TypeOK, StoreTypeOK
<1>4. job'[w].inc = i /\ job'[w].retries = retries[i]
  BY <1>1, <1>3 DEF Snapshot, WorkerTypeOK, Job
<1>5. \A v \in Workers : v # w => pc'[v] = pc[v] /\ job'[v] = job[v]
  BY <1>3, OthersKeep DEF Iterate
<1>6. \A v \in Workers, j \in Incidents : v # w /\ leaseOwner'[j] = v => leaseOwner[j] = v
  BY <1>1, <1>3 DEF GrantLease
<1>7. \A v \in Workers : Inc(v) \in Incidents
  BY JobTypes
<1>8. ASSUME NEW v \in Workers, Holds(v)' PROVE job'[v].retries = retries'[Inc(v)']
  <2>1. CASE v = w
    BY <1>2, <1>4, <2>1 DEF Inc
  <2>2. CASE v # w
    <3>1. Inc(v)' = Inc(v)
      BY <1>5, <2>2 DEF Inc
    <3>2. Holds(v)
      BY <1>5, <1>6, <1>7, <1>8, <2>2, <3>1 DEF Holds, Owns
    <3>3. QED
      BY <1>2, <1>5, <2>2, <3>1, <3>2 DEF RetryInv
  <2>3. QED
    BY <2>1, <2>2
<1>9. \A v \in Workers : pc'[v] = "retry" => job'[v].retries < MaxRetries
  BY <1>2, <1>3, <1>5 DEF RetryInv, WorkerTypeOK
<1>10. QED
  BY <1>2, <1>8, <1>9 DEF RetryInv, RetriesBounded

\* The owner counts once, below the bound, and is not the owner any more.
LEMMA RetryCounted ==
  ASSUME TypeOK, RetryInv, NEW w \in Workers, pc[w] \in Working, Iterate(w),
         ScheduleRetry(w, Inc(w)), job[w].retries < MaxRetries,
         pc'[w] \notin Working
  PROVE  RetryInv'
<1>1. WorkerTypeOK /\ Inc(w) \in Incidents /\ StoreTypeOK
  BY JobTypes DEF TypeOK
<1>0. PICK i \in Incidents : i = Inc(w)
  BY <1>1
<1>2. retries[i] < MaxRetries
  BY <1>0 DEF RetryInv, Holds, ScheduleRetry
<1>3. retries' = [retries EXCEPT ![i] = @ + 1] /\ leaseOwner' = [leaseOwner EXCEPT ![i] = NoWorker]
  BY <1>0 DEF ScheduleRetry, ClearLease
<1>4. RetriesBounded'
  BY <1>1, <1>2, <1>3, WorkerAssumption DEF RetryInv, RetriesBounded, StoreTypeOK
<1>5. \A v \in Workers : v # w => pc'[v] = pc[v] /\ job'[v] = job[v]
  BY <1>1, OthersKeep
<1>6. \A v \in Workers : Inc(v) \in Incidents
  BY JobTypes
<1>7. ASSUME NEW v \in Workers, Holds(v)' PROVE job'[v].retries = retries'[Inc(v)']
  <2>1. v # w
    BY <1>7 DEF Holds
  <2>2. Inc(v)' = Inc(v)
    BY <1>5, <2>1 DEF Inc
  <2>3. Inc(v) # i
    BY <1>1, <1>3, <1>7, <2>2, NoWorkerAssumption DEF Holds, Owns, StoreTypeOK
  <2>4. leaseOwner'[Inc(v)] = leaseOwner[Inc(v)] /\ retries'[Inc(v)] = retries[Inc(v)]
    BY <1>1, <1>3, <1>6, <2>3 DEF StoreTypeOK
  <2>5. Holds(v)
    BY <1>5, <1>7, <2>1, <2>2, <2>4 DEF Holds, Owns
  <2>6. QED
    BY <1>5, <2>1, <2>2, <2>4, <2>5 DEF RetryInv
<1>8. "retry" \in Working
  BY DEF Working, InTry
<1>9. QED
  BY <1>4, <1>5, <1>7, <1>8 DEF RetryInv

\* Every repository method but the two that lease and the one that counts.
LEMMA MethodsKeepLeases ==
  ASSUME TypeOK, NEW i \in Incidents, NEW w, NEW s, NEW a,
         \/ UNCHANGED storeVars
         \/ TryClaimIncident(i)
         \/ UpdateHypothesis(w, i)
         \/ TerminateIncident(i, s)
         \/ CommitVerified(i)
         \/ TransitionTo(i, s)
         \/ Claim(i, a)
         \/ LeaseExpires(i)
         \/ BackoffElapses(i)
  PROVE  NoLeaseGained /\ UNCHANGED retries
<1>1. leaseOwner \in [Incidents -> Workers \union {NoWorker}]
  BY DEF TypeOK, StoreTypeOK
<1>2. QED
  BY <1>1 DEF storeVars, leaseVars, TryClaimIncident, UpdateHypothesis,
     TerminateIncident, ClearLease, CommitVerified, TransitionTo, Claim,
     LeaseExpires, BackoffElapses, NoLeaseGained

\* By case on who counts, leases or does neither.
LEMMA RetryStep ==
  ASSUME TypeOK, RetryInv, Next
  PROVE  RetryInv'
<1>1. ASSUME NEW w \in Workers, Iterate(w) \/ Fail(w) PROVE RetryInv'
  <2>1. WorkerTypeOK /\ job[w] \in Job /\ Inc(w) \in Incidents
    BY JobTypes
  <2>2. ASSUME NoLeaseGained, UNCHANGED retries, SnapshotKept(w) PROVE RetryInv'
    <3>1. \A v \in Workers : v # w => SnapshotKept(v)
      BY <1>1, <2>1, OthersKeep DEF SnapshotKept
    <3>2. QED
      BY <2>2, <3>1, RetryQuiet
  <2>3. CASE \/ \E e \in Events : PollEvent(w, e)
             \/ ClaimIncident(w) \/ LeaseRefused(w) \/ StaleGuard(w)
             \/ DropStale(w) \/ Assemble(w) \/ Investigate(w)
    <3>1. NoLeaseGained /\ UNCHANGED retries
      BY <2>1, <2>3, MethodsKeepLeases
         DEF PollEvent, ClaimIncident, LeaseRefused, StaleGuard, DropStale,
             Assemble, Investigate
    <3>2. CASE \/ \E e \in Events : PollEvent(w, e)
               \/ ClaimIncident(w) \/ LeaseRefused(w) \/ DropStale(w)
      <4>1. pc'[w] \in {"claiming", "leasing", "idle", "ack", "nack"}
        BY <2>1, <3>2 DEF PollEvent, ClaimIncident, LeaseRefused, DropStale, Leave,
                          WorkerTypeOK, Goto
      <4>2. QED
        BY <2>2, <3>1, <4>1 DEF SnapshotKept, Working, InTry
    <3>3. CASE StaleGuard(w) \/ Assemble(w) \/ Investigate(w)
      <4>1. pc[w] \in Working
        BY <3>3 DEF StaleGuard, Assemble, Investigate, Working, InTry
      <4>2. pc'[w] # "retry"
        BY <2>1, <3>3 DEF StaleGuard, Assemble, Investigate, WorkerTypeOK, Goto
      <4>3. job'[w].inc = job[w].inc /\ job'[w].retries = job[w].retries
        BY <2>1, <3>3 DEF StaleGuard, Assemble, Investigate, WorkerTypeOK, Keep, Job
      <4>4. QED
        BY <2>2, <3>1, <4>1, <4>2, <4>3 DEF SnapshotKept
    <3>4. QED
      BY <2>2, <2>3, <3>1, <3>2, <3>3
  <2>4. CASE InvestigationFails(w) \/ VerificationFails(w) \/ Verify(w) \/ Recheck(w)
             \/ Commit(w) \/ GateBlocks(w) \/ GateAllows(w)
    <3>1. NoLeaseGained /\ UNCHANGED retries
      BY <2>1, <2>4, MethodsKeepLeases
         DEF InvestigationFails, VerificationFails, Verify, Recheck, Commit,
             GateBlocks, GateAllows
    <3>2. pc[w] \in Working /\ (pc'[w] = "retry" => job[w].retries < MaxRetries)
      BY <2>1, <2>4
         DEF InvestigationFails, VerificationFails, Verify, Recheck, Commit,
             GateBlocks, GateAllows, WorkerTypeOK, Goto, TerminateWith, Working, InTry
    <3>3. job'[w].inc = job[w].inc /\ job'[w].retries = job[w].retries
      <4>1. CASE Verify(w)
        BY <2>1, <4>1 DEF Verify, WorkerTypeOK, Job
      <4>2. CASE Recheck(w)
        <5>1. PICK v \in Views, f \in SUBSET Providers, c \in BOOLEAN, n \in Intents :
                job' = [job EXCEPT ![w].view = v, ![w].fresh = f,
                                   ![w].conflict = c, ![w].intent = n]
          BY <4>2, RecheckUpdates
        <5>2. QED
          BY <2>1, <5>1 DEF WorkerTypeOK, Job
      <4>3. CASE ~Verify(w) /\ ~Recheck(w)
        BY <2>1, <2>4, <4>3
           DEF InvestigationFails, VerificationFails, Commit, GateBlocks,
               GateAllows, WorkerTypeOK, Keep, TerminateWith, Job
      <4>4. QED
        BY <4>1, <4>2, <4>3
    <3>4. QED
      BY <2>2, <3>1, <3>2, <3>3 DEF SnapshotKept
  <2>5. CASE StartActuating(w) \/ DispatchRepair(w) \/ DispatchRefund(w)
             \/ RecordOutcome(w) \/ StartReobserving(w) \/ ObserveFails(w)
    <3>1. NoLeaseGained /\ UNCHANGED retries
      BY <2>1, <2>5, MethodsKeepLeases
         DEF StartActuating, StartReobserving, Advance, DispatchRepair,
             DispatchRefund, RecordOutcome, ObserveFails
    <3>2. SnapshotKept(w)
      BY <2>1, <2>5
         DEF StartActuating, StartReobserving, Advance, DispatchRepair,
             DispatchRefund, RecordOutcome, ObserveFails, Answer, WorkerTypeOK,
             Goto, Keep, TerminateWith, Job, SnapshotKept, Working, InTry
    <3>3. QED
      BY <2>2, <3>1, <3>2
  <2>6. CASE Observe(w)
    <3>1. NoLeaseGained /\ UNCHANGED retries
      BY <2>1, <2>6, MethodsKeepLeases DEF Observe
    <3>2. pc[w] = "observe" /\ pc'[w] \in {"persist", "terminate"}
      BY <2>1, <2>6 DEF Observe, WorkerTypeOK, Goto, TerminateWith
    <3>3. job'[w].inc = job[w].inc /\ job'[w].retries = job[w].retries
      BY <2>1, <2>6 DEF Observe, WorkerTypeOK, TerminateWith, Job
    <3>4. QED
      BY <2>2, <3>1, <3>2, <3>3 DEF SnapshotKept, Working, InTry
  <2>7. CASE Persist(w) \/ Terminate(w) \/ Abort(w) \/ MarkEvent(w) \/ Fail(w)
    <3>1. NoLeaseGained /\ UNCHANGED retries
      BY <2>1, <2>7, MethodsKeepLeases
         DEF Persist, Terminate, Abort, MarkEvent, Fail, Crash, DatabaseFails
    <3>2. SnapshotKept(w)
      BY <2>1, <2>7
         DEF Persist, Terminate, Abort, MarkEvent, Fail, Crash, DatabaseFails,
             Leave, WorkerTypeOK, Goto, Keep, Job, SnapshotKept, Working, InTry
    <3>3. QED
      BY <2>2, <3>1, <3>2
  <2>8. CASE Retry(w) \/ Transient(w)
    <3>1. pc[w] \in Working /\ pc'[w] \notin Working \cap {"retry"}
      BY <2>1, <2>8
         DEF Retry, Transient, RetryLater, RetryIsIllegal, Leave, WorkerTypeOK,
             Goto, Working, InTry
    <3>2. CASE /\ ScheduleRetry(w, Inc(w)) /\ Leave(w, "ack")
               /\ pc[w] = "retry" \/ job[w].retries < MaxRetries
      <4>1. pc'[w] \notin Working
        BY <2>1, <3>2 DEF Leave, WorkerTypeOK, Goto, Working, InTry
      <4>2. job[w].retries < MaxRetries
        BY <3>2 DEF RetryInv
      <4>3. QED
        BY <2>8, <3>1, <3>2, <4>1, <4>2, RetryCounted DEF Iterate
    <3>3. CASE \/ UNCHANGED storeVars
              \/ TerminateIncident(Inc(w), "ESCALATED_UNKNOWN")
      <4>1. NoLeaseGained /\ UNCHANGED retries
        BY <2>1, <3>3, MethodsKeepLeases
      <4>2. SnapshotKept(w)
        BY <2>1, <2>8, <3>1
           DEF Retry, Transient, RetryLater, RetryIsIllegal, Leave, WorkerTypeOK,
               Goto, Keep, SnapshotKept, Working, InTry
      <4>3. QED
        BY <2>2, <4>1, <4>2
    <3>4. QED
      BY <2>8, <3>2, <3>3 DEF Retry, Transient, RetryLater, RetryIsIllegal
  <2>9. QED
    BY <1>1, <2>3, <2>4, <2>5, <2>6, <2>7, <2>8, RetryLease DEF Iterate
<1>2. CASE \E i \in Incidents : Operator(i) \/ Tick(i)
  <2>1. PICK i \in Incidents : Operator(i) \/ Tick(i)
    BY <1>2
  <2>2. NoLeaseGained /\ UNCHANGED retries
    BY <2>1, MethodsKeepLeases
       DEF Operator, OperatorRetry, OperatorResolve, OperatorEscalate, Move, Tick
  <2>3. \A v \in Workers : SnapshotKept(v)
    BY <2>1 DEF Operator, Tick, Untouched, workerVars, SnapshotKept
  <2>4. QED
    BY <2>2, <2>3, RetryQuiet
<1>3. CASE KillSwitch \/ Environment
  <2>1. UNCHANGED <<storeVars, workerVars>>
    BY <1>3 DEF KillSwitch, Untouched, Environment, Publish, RecoverStale,
                WorldStep, Ingest, RequestLands
  <2>2. NoLeaseGained /\ UNCHANGED retries
    BY <2>1 DEF NoLeaseGained, storeVars, leaseVars
  <2>3. \A v \in Workers : SnapshotKept(v)
    BY <2>1 DEF workerVars, SnapshotKept
  <2>4. QED
    BY <2>2, <2>3, RetryQuiet
<1>4. QED
  BY <1>1, <1>2, <1>3 DEF Next

\* No incident is retried more often than the bound says, whoever leases it
\* between the snapshot of the count and the retry.
THEOREM RetriesAreBounded == Spec => []RetriesBounded
<1>1. Init => RetryInv
  BY WorkerAssumption
     DEF Init, StoreInit, RetryInv, RetriesBounded, Holds, Working, InTry
<1>2. TypeOK /\ RetryInv /\ [Next]_vars => RetryInv'
  <2> SUFFICES ASSUME TypeOK, RetryInv, UNCHANGED vars PROVE RetryInv'
    BY RetryStep
  <2>1. QED
    BY RetryQuiet
       DEF vars, storeVars, leaseVars, workerVars, NoLeaseGained, SnapshotKept
<1>3. RetryInv => RetriesBounded
  BY DEF RetryInv
<1>4. QED
  BY <1>1, <1>2, <1>3, TypeCorrect, PTL DEF Spec

(***************************************************************************)
(* The refinement of ActuationLedger.  A claim is the abstract claim, an   *)
(* effect the abstract effect, and everything else a stutter; what the     *)
(* abstract guards ask is ClaimInv and that the gate has counted exactly   *)
(* the records there are.                                                  *)
(***************************************************************************)

\* There are finitely many keys, hence records to count.
LEMMA KeysFinite == IsFiniteSet(Keys)
<1>1. IsFiniteSet(Subjects)
  <2> DEFINE f == [i \in Incidents |-> i[1]]
  <2>1. f \in Surjection(Incidents, Subjects)
    BY DEF Surjection, Subjects
  <2>2. QED
    BY <2>1, IncidentsAssumption, FS_Surjection
<1>2. IsFiniteSet(Actions)
  <2>1. Actions = {"REPAIR_MERCHANT_STATE"} \union {"REFUND_PAYMENT"}
    BY DEF Actions
  <2>2. QED
    BY <2>1, FS_Singleton, FS_Union
<1>3. QED
  BY <1>1, <1>2, FS_Product DEF Keys

\* The records of one action are finitely many.
LEMMA ClaimedFinite == \A a : IsFiniteSet(ClaimedBy(a))
BY KeysFinite, FS_Subset DEF ClaimedBy, Claimed

\* The only step that adds a record is the gate's; none removes one.
LEMMA ClaimedStep ==
  ASSUME TypeOK, ActingOK, NEW w \in Workers, GateAllows(w), NEW k, k = KeyOf(w)
  PROVE  /\ k \in Keys /\ k \notin Claimed
         /\ Claimed' = Claimed \union {k}
         /\ k[2] \in Actions
         /\ countUsed[k[2]] + 1 <= CountLimit[k[2]]
         /\ countUsed' = [countUsed EXCEPT ![k[2]] = @ + 1]
         /\ monetaryUsed[k[2]] + Amount[k[1]] <= MonetaryLimit[k[2]]
         /\ monetaryUsed' = [monetaryUsed EXCEPT ![k[2]] = @ + Amount[k[1]]]
         /\ automation = "ENABLED" /\ UNCHANGED <<automation, applied>>
<1>1. /\ k \in Keys /\ k = Key(Inc(w), job[w].intent)
      /\ k[2] = job[w].intent /\ k[1] = Inc(w)[1]
  BY JobTypes DEF GateAllows, ActingOK, Acting, KeyOf, Key, Inc
<1>2. k[2] \in Actions
  BY <1>1 DEF Keys
<1>3. /\ automation = "ENABLED"
      /\ CanConsume(k[2], Amount[Inc(w)[1]])
      /\ actuation[k] = "NONE"
  BY <1>1 DEF GateAllows, GateDecision
<1>4. actuation' = [actuation EXCEPT ![k] = "PENDING"]
  BY <1>1 DEF GateAllows, Claim
<1>5. /\ countUsed' = [countUsed EXCEPT ![k[2]] = @ + 1]
      /\ monetaryUsed' = [monetaryUsed EXCEPT ![k[2]] = @ + Amount[k[1]]]
      /\ UNCHANGED <<automation, applied>>
  BY <1>1 DEF GateAllows, Claim, worldVars
<1>6. k \notin Claimed /\ Claimed' = Claimed \union {k}
  BY <1>1, <1>3, <1>4 DEF Claimed, TypeOK, GateTypeOK
<1>7. QED
  BY <1>1, <1>2, <1>3, <1>5, <1>6 DEF CanConsume

\* What one claim adds to the money spent is its amount.
LEMMA UnitsAdd ==
  ASSUME NEW a, NEW k \in Keys, k \notin ClaimedBy(a), ClaimedBy(a)' = ClaimedBy(a) \union {k}
  PROVE  Spent(a)' = Spent(a) + Amount[k[1]] /\ Spent(a) \in Nat
<1> DEFINE Bill(c) == {c} \X (1 .. Amount[c[1]])
<1>1. ASSUME NEW c \in Keys
      PROVE  IsFiniteSet(Bill(c)) /\ Cardinality(Bill(c)) = Amount[c[1]]
  <2>1. Amount[c[1]] \in Nat
    BY BudgetAssumption DEF Keys
  <2>2. IsFiniteSet(1 .. Amount[c[1]]) /\ Cardinality(1 .. Amount[c[1]]) = Amount[c[1]]
    <3>1. ASSUME NEW n \in Nat PROVE IsFiniteSet(1 .. n) /\ Cardinality(1 .. n) = n
      <4>1. Cardinality(1 .. n) = IF 1 > n THEN 0 ELSE n - 1 + 1
        BY FS_Interval, 1 \in Int, n \in Int
      <4> QED
        BY <4>1, FS_Interval
    <3> QED
      BY <2>1, <3>1
  <2>3. IsFiniteSet({c}) /\ Cardinality({c}) = 1
    BY FS_Singleton
  <2>4. ASSUME NEW S, IsFiniteSet(S), NEW T, IsFiniteSet(T), Cardinality(S) = 1,
               NEW n \in Nat, Cardinality(T) = n
        PROVE  IsFiniteSet(S \X T) /\ Cardinality(S \X T) = n
    <3>1. IsFiniteSet(S \X T) /\ Cardinality(S \X T) = Cardinality(S) * Cardinality(T)
      BY <2>4, FS_Product
    <3>2. 1 * n = n
      OBVIOUS
    <3> QED
      BY <2>4, <3>1, <3>2
  <2> QED
    BY <2>1, <2>2, <2>3, <2>4
<1>2. Units(a) = UNION {Bill(c) : c \in ClaimedBy(a)}
  BY DEF Units
<1>3. Units(a)' = Units(a) \union Bill(k)
  BY DEF Units
<1>4. Units(a) \intersect Bill(k) = {}
  BY DEF Units
<1>5. IsFiniteSet(Units(a))
  <2> DEFINE F == {Bill(c) : c \in ClaimedBy(a)}
             f == [c \in ClaimedBy(a) |-> Bill(c)]
  <2>1. f \in Surjection(ClaimedBy(a), F)
    BY DEF Surjection
  <2>2. IsFiniteSet(F)
    BY <2>1, ClaimedFinite, FS_Surjection
  <2>3. ClaimedBy(a) \subseteq Keys
    BY DEF ClaimedBy, Claimed
  <2>4. \A T \in F : IsFiniteSet(T)
    BY <1>1, <2>3
  <2> HIDE DEF F
  <2>5. IsFiniteSet(UNION F)
    BY <2>2, <2>4, FS_UNION
  <2> QED
    BY <1>2, <2>5 DEF F
<1>6. Cardinality(Units(a) \union Bill(k)) = Cardinality(Units(a)) + Cardinality(Bill(k)) - 0
  BY <1>1, <1>4, <1>5, FS_Union, FS_EmptySet
<1>7. Cardinality(Units(a)) \in Nat /\ Amount[k[1]] \in Nat
  BY <1>5, FS_CardinalityType, BudgetAssumption DEF Keys
<1> HIDE DEF Bill
<1> QED
  BY <1>1, <1>3, <1>6, <1>7 DEF Spent

\* A step of the gate keeps the counts equal to the records and their amounts.
LEMMA CountGate ==
  ASSUME TypeOK, ActingOK, WithinBudget, NEW w \in Workers, GateAllows(w)
  PROVE  WithinBudget'
<1>0. PICK k : k = KeyOf(w)
  OBVIOUS
<1>1. /\ k \in Keys /\ k \notin Claimed
      /\ Claimed' = Claimed \union {k}
      /\ k[2] \in Actions
      /\ countUsed[k[2]] + 1 <= CountLimit[k[2]]
      /\ countUsed' = [countUsed EXCEPT ![k[2]] = @ + 1]
      /\ monetaryUsed[k[2]] + Amount[k[1]] <= MonetaryLimit[k[2]]
      /\ monetaryUsed' = [monetaryUsed EXCEPT ![k[2]] = @ + Amount[k[1]]]
  BY <1>0, ClaimedStep
<1>2. countUsed \in [Actions -> Nat] /\ monetaryUsed \in [Actions -> Nat]
  BY DEF TypeOK, GateTypeOK
<1>3. ASSUME NEW a \in Actions
      PROVE  /\ countUsed'[a] = Cardinality(ClaimedBy(a)')
             /\ countUsed'[a] <= CountLimit[a]
             /\ monetaryUsed'[a] = Spent(a)'
             /\ monetaryUsed'[a] <= MonetaryLimit[a]
  <2>1. CASE a = k[2]
    <3>1. ClaimedBy(a)' = ClaimedBy(a) \union {k} /\ k \notin ClaimedBy(a)
      BY <1>1, <2>1 DEF ClaimedBy
    <3>2. Cardinality(ClaimedBy(a)') = Cardinality(ClaimedBy(a)) + 1
      BY <3>1, ClaimedFinite, FS_AddElement
    <3>3. Spent(a)' = Spent(a) + Amount[k[1]]
      BY <1>1, <3>1, UnitsAdd
    <3>4. QED
      BY <1>1, <1>2, <2>1, <3>2, <3>3 DEF WithinBudget
  <2>2. CASE a # k[2]
    <3>1. ClaimedBy(a)' = ClaimedBy(a)
      BY <1>1, <2>2 DEF ClaimedBy
    <3>2. Spent(a)' = Spent(a)
      BY <3>1 DEF Spent, Units
    <3>3. QED
      BY <1>1, <1>2, <2>2, <3>1, <3>2 DEF WithinBudget
  <2>3. QED
    BY <2>1, <2>2
<1>4. QED
  BY <1>3 DEF WithinBudget

\* What the abstract ledger sees of a step that neither claims nor has an
\* effect: nothing.
LedgerQuiet == Claimed' = Claimed /\ UNCHANGED <<automation, countUsed, monetaryUsed, applied>>

\* An effect is the first one of its key, and the key is claimed.
Lands(k) ==
  /\ k \in Claimed /\ applied[k] = 0
  /\ applied' = [applied EXCEPT ![k] = 1]
  /\ Claimed' = Claimed /\ UNCHANGED <<automation, countUsed, monetaryUsed>>

\* A dispatch has the effect of the record it was claimed with, or none.
LEMMA DispatchLands ==
  ASSUME TypeOK, ActingOK, ClaimInv, NEW w \in Workers,
         DispatchRepair(w) \/ DispatchRefund(w)
  PROVE  LedgerQuiet \/ Lands(KeyOf(w))
<1>1. KeyOf(w) \in Keys /\ pc[w] = "dispatch"
  BY JobTypes DEF DispatchRepair, DispatchRefund, ActingOK, Acting
<1>2. actuation[KeyOf(w)] = "PENDING" /\ NoEffect(KeyOf(w))
  BY <1>1 DEF ClaimInv, Executing, Effectless
<1>3. UNCHANGED gateVars
  BY DEF DispatchRepair, DispatchRefund
<1>4. Claimed' = Claimed /\ UNCHANGED <<automation, countUsed, monetaryUsed>>
  BY <1>3 DEF gateVars, Claimed
<1>5. applied' = applied \/ applied' = [applied EXCEPT ![KeyOf(w)] = @ + 1]
  BY DEF DispatchRepair, DispatchRefund, CountEffect
<1>6. applied[KeyOf(w)] = 0 /\ KeyOf(w) \in Claimed
  BY <1>1, <1>2 DEF NoEffect, Claimed
<1>7. QED
  BY <1>4, <1>5, <1>6 DEF LedgerQuiet, Lands

\* A late request has the effect of its record, or none.
LEMMA RequestLandsOnce ==
  ASSUME TypeOK, ClaimInv, NEW k \in Keys, RequestLands(k)
  PROVE  LedgerQuiet \/ Lands(k)
<1>1. applied[k] \in Nat /\ inflight[k] \in Nat /\ inflight[k] > 0
  BY DEF TypeOK, RequestLands
<1>2. applied[k] = 0 /\ k \in Claimed
  BY <1>1 DEF ClaimInv, NoEffect, Claimed
<1>3. Claimed' = Claimed /\ UNCHANGED <<automation, countUsed, monetaryUsed>>
  BY DEF RequestLands, gateVars, Claimed
<1>4. applied' = applied \/ applied' = [applied EXCEPT ![k] = @ + 1]
  BY DEF RequestLands, CountEffect
<1>5. QED
  BY <1>2, <1>3, <1>4 DEF LedgerQuiet, Lands

\* Every step, as the ledger sees it.
LEMMA LedgerSteps ==
  ASSUME TypeOK, ActingOK, ClaimInv, Next
  PROVE  \/ LedgerQuiet
         \/ \E k \in Keys : Lands(k)
         \/ \E w \in Workers : GateAllows(w)
         \/ KillSwitch
<1>1. ASSUME UNCHANGED <<gateVars, applied>> PROVE LedgerQuiet
  BY <1>1 DEF gateVars, Claimed, LedgerQuiet
<1>2. ASSUME NEW w \in Workers, RecordOutcome(w) PROVE LedgerQuiet
  <2>1. KeyOf(w) \in Keys /\ pc[w] = "outcome" /\ job[w].outcome \in Outcomes
    BY <1>2, JobTypes DEF RecordOutcome, ActingOK, Acting, Job
  <2>2. actuation[KeyOf(w)] = "PENDING"
    BY <2>1 DEF ClaimInv, Executing
  <2>3. actuation' = [actuation EXCEPT ![KeyOf(w)] = job[w].outcome]
    BY <1>2 DEF RecordOutcome
  <2>4. Claimed' = Claimed
    BY <2>1, <2>2, <2>3 DEF Claimed, Outcomes, TypeOK, GateTypeOK
  <2>5. QED
    BY <1>2, <2>4 DEF RecordOutcome, LedgerQuiet, worldVars
<1>3. ASSUME NEW w \in Workers, Iterate(w) \/ Fail(w), ~GateAllows(w),
             ~DispatchRepair(w), ~DispatchRefund(w), ~RecordOutcome(w)
      PROVE  UNCHANGED <<gateVars, applied>>
  BY <1>3
     DEF Iterate, PollEvent, PollRetry, ClaimIncident, Lease, LeaseRefused,
         StaleGuard, DropStale, Assemble, Investigate, InvestigationFails, Verify,
         VerificationFails, Recheck, Commit, GateBlocks, StartActuating,
         StartReobserving, Advance, Observe, ObserveFails, Persist, Terminate,
         Abort, Retry, Transient, MarkEvent, Fail, Crash, DatabaseFails, worldVars
<1>4. ASSUME \/ \E i \in Incidents : Operator(i) \/ Tick(i)
             \/ \E e \in Events : Publish(e) \/ RecoverStale(e)
             \/ \E s \in Subjects : WorldStep(s) \/ \E p \in Providers : Ingest(s, p)
      PROVE  UNCHANGED <<gateVars, applied>>
  BY <1>4
     DEF Operator, Tick, Untouched, Publish, RecoverStale, WorldStep, Ingest, worldVars
<1>5. ASSUME NEW w \in Workers, DispatchRepair(w) \/ DispatchRefund(w)
      PROVE  LedgerQuiet \/ \E k \in Keys : Lands(k)
  <2>1. KeyOf(w) \in Keys
    BY <1>5, JobTypes DEF DispatchRepair, DispatchRefund, ActingOK, Acting
  <2>2. QED
    BY <1>5, <2>1, DispatchLands
<1>6. QED
  BY <1>1, <1>2, <1>3, <1>4, <1>5, RequestLandsOnce DEF Next, Environment

\* The budget of every action is charged once for each durable record, by one and
\* by the amount of its payment, and for nothing else, and is never exceeded.
THEOREM BudgetsHold == Spec => []WithinBudget
<1>1. Init => WithinBudget
  <2> SUFFICES ASSUME Init PROVE WithinBudget
    OBVIOUS
  <2>1. \A a : ClaimedBy(a) = {}
    BY DEF Init, GateInit, ClaimedBy, Claimed
  <2>2. Cardinality({}) = 0
    BY FS_EmptySet
  <2>3. \A a : Spent(a) = 0
    BY <2>1, <2>2 DEF Spent, Units
  <2>4. \A a \in Actions : /\ countUsed[a] = 0 /\ 0 <= CountLimit[a]
                           /\ monetaryUsed[a] = 0 /\ 0 <= MonetaryLimit[a]
    BY BudgetAssumption DEF Init, GateInit
  <2>5. QED
    BY <2>1, <2>2, <2>3, <2>4 DEF WithinBudget
<1>2. ASSUME WithinBudget, Claimed' = Claimed, UNCHANGED <<countUsed, monetaryUsed>>
      PROVE  WithinBudget'
  <2>1. \A a : ClaimedBy(a)' = ClaimedBy(a)
    BY <1>2 DEF ClaimedBy
  <2>2. \A a : Spent(a)' = Spent(a)
    BY <2>1 DEF Spent, Units
  <2>3. QED
    BY <1>2, <2>1, <2>2 DEF WithinBudget
<1>3. TypeOK /\ ActingOK /\ ClaimInv /\ WithinBudget /\ [Next]_vars => WithinBudget'
  <2> SUFFICES ASSUME TypeOK, ActingOK, ClaimInv, WithinBudget, [Next]_vars PROVE WithinBudget'
    OBVIOUS
  <2>1. CASE UNCHANGED vars
    BY <1>2, <2>1 DEF vars, gateVars, Claimed
  <2>2. CASE KillSwitch
    BY <1>2, <2>2 DEF KillSwitch, SetAutomation, Claimed
  <2>3. QED
    BY <1>2, <2>1, <2>2, LedgerSteps, CountGate DEF LedgerQuiet, Lands
<1>4. QED
  BY <1>1, <1>3, TypeCorrect, ClaimCorrect, PTL DEF Spec

\* The control loop implements ActuationLedger: whatever its workers do, a
\* mutation is claimed before its effect, while automation is enabled, within
\* the budget and once, and has one effect at most.
THEOREM LedgerImplemented == Spec => ImplementsLedger
<1>1. Init => Ledger!LedgerInit
  BY DEF Init, GateInit, Ledger!LedgerInit, Claimed
<1>2. TypeOK /\ ActingOK /\ ClaimInv /\ WithinBudget /\ [Next]_vars
        => [Ledger!LedgerNext]_(Ledger!ledgerVars)
  <2> SUFFICES ASSUME TypeOK, ActingOK, ClaimInv, WithinBudget, [Next]_vars
               PROVE  Ledger!LedgerNext \/ UNCHANGED Ledger!ledgerVars
    OBVIOUS
  <2>1. CASE LedgerQuiet \/ UNCHANGED vars
    BY <2>1 DEF LedgerQuiet, Ledger!ledgerVars, vars, gateVars, worldVars, Claimed
  <2>2. ASSUME NEW k \in Keys, Lands(k) PROVE Ledger!LedgerNext
    BY <2>2 DEF Lands, Ledger!LedgerNext, Ledger!TakeEffect
  <2>3. ASSUME NEW w \in Workers, GateAllows(w) PROVE Ledger!LedgerNext
    <3>0. PICK k : k = KeyOf(w)
      OBVIOUS
    <3>1. /\ k \in Keys /\ k \notin Claimed
          /\ Claimed' = Claimed \union {k}
          /\ k[2] \in Actions
          /\ countUsed[k[2]] + 1 <= CountLimit[k[2]]
          /\ automation = "ENABLED" /\ UNCHANGED <<automation, applied>>
      BY <2>3, <3>0, ClaimedStep
    <3>2. Cardinality({c \in Claimed : c[2] = k[2]}) = countUsed[k[2]]
      BY <3>1 DEF WithinBudget, ClaimedBy
    <3>3. countUsed[k[2]] \in Nat /\ CountLimit[k[2]] \in Nat
      BY <3>1, BudgetAssumption DEF TypeOK, GateTypeOK
    <3>4. Cardinality({c \in Claimed : c[2] = k[2]}) < CountLimit[k[2]]
      BY <3>1, <3>2, <3>3
    <3>5. \A S : Ledger!Cardinality(S) = Cardinality(S)
      BY DEF Ledger!Cardinality, Cardinality
    <3>6. QED
      BY <3>1, <3>4, <3>5 DEF Ledger!LedgerNext, Ledger!ClaimMutation
  <2>4. CASE KillSwitch
    <3>1. Claimed' = Claimed /\ applied' = applied
      BY <2>4 DEF KillSwitch, SetAutomation, Untouched, worldVars, Claimed
    <3>2. QED
      BY <3>1 DEF Ledger!LedgerNext, Ledger!Switch
  <2>5. QED
    BY <2>1, <2>2, <2>3, <2>4, LedgerSteps
<1>3. QED
  BY <1>1, <1>2, TypeCorrect, ClaimCorrect, BudgetsHold, PTL
     DEF Spec, ImplementsLedger, Ledger!LedgerSpec

(***************************************************************************)
(* The incident rows.  Every step is one repository method, or none, on    *)
(* one incident; what holds of every method holds of every step.           *)
(***************************************************************************)

Method(i) ==
  \/ TryClaimIncident(i)
  \/ \E w \in Workers : \/ AcquireLease(w, i)
                        \/ AcquireMaturedRetry(w, i)
                        \/ UpdateHypothesis(w, i)
                        \/ ScheduleRetry(w, i)
  \/ \E s \in IncidentState : TerminateIncident(i, s)
  \/ CommitVerified(i)
  \/ TransitionTo(i, "ACTUATING")
  \/ TransitionTo(i, "REOBSERVING")
  \/ \E a \in Actions : Claim(i, a)
  \/ LeaseExpires(i)
  \/ BackoffElapses(i)

\* Which method each step is.
LEMMA StepMethods ==
  ASSUME TypeOK, ActingOK, Next
  PROVE  UNCHANGED storeVars \/ \E i \in Incidents : Method(i)
<1>1. {"RESOLVED", "INVESTIGATING", "ESCALATED_UNKNOWN"} \subseteq IncidentState
  BY DEF IncidentState, Closed, Escalated
<1>2. ASSUME NEW w \in Workers, Iterate(w) \/ Fail(w)
      PROVE  UNCHANGED storeVars \/ \E i \in Incidents : Method(i)
  <2>1. Inc(w) \in Incidents /\ job[w].goal \in IncidentState
    BY JobTypes DEF Job
  <2>2. CASE GateAllows(w)
    <3>1. job[w].intent \in Actions
      BY <2>2 DEF GateAllows, ActingOK, Acting
    <3>2. QED
      BY <2>1, <2>2, <3>1 DEF GateAllows, Method
  <2>3. CASE \/ \E i \in Incidents : PollRetry(w, i)
             \/ ClaimIncident(w) \/ Lease(w) \/ DropStale(w) \/ Investigate(w)
             \/ Commit(w) \/ StartActuating(w) \/ StartReobserving(w)
    BY <1>1, <2>1, <2>3
       DEF PollRetry, ClaimIncident, Lease, DropStale, Investigate, Commit,
           StartActuating, StartReobserving, Advance, Method
  <2>4. CASE Persist(w) \/ Terminate(w) \/ Abort(w) \/ Retry(w) \/ Transient(w)
    BY <1>1, <2>1, <2>4
       DEF Persist, Terminate, Abort, Retry, Transient, RetryLater, RetryIsIllegal,
           Method
  <2>5. CASE \/ \E e \in Events : PollEvent(w, e)
             \/ LeaseRefused(w) \/ StaleGuard(w) \/ Assemble(w)
             \/ InvestigationFails(w) \/ Verify(w) \/ VerificationFails(w)
             \/ Recheck(w) \/ GateBlocks(w) \/ DispatchRepair(w)
             \/ DispatchRefund(w) \/ RecordOutcome(w) \/ Observe(w)
             \/ ObserveFails(w) \/ MarkEvent(w) \/ Fail(w)
    BY <2>5
       DEF PollEvent, LeaseRefused, StaleGuard, Assemble, InvestigationFails,
           Verify, VerificationFails, Recheck, GateBlocks, DispatchRepair,
           DispatchRefund, RecordOutcome, Observe, ObserveFails, MarkEvent, Fail,
           Crash, DatabaseFails
  <2>6. QED
    BY <1>2, <2>2, <2>3, <2>4, <2>5 DEF Iterate
<1>3. ASSUME NEW i \in Incidents, Operator(i) \/ Tick(i) PROVE Method(i)
  BY <1>1, <1>3 DEF Operator, OperatorRetry, OperatorResolve, OperatorEscalate,
                    Move, Tick, Method
<1>4. ASSUME KillSwitch \/ Environment PROVE UNCHANGED storeVars
  BY <1>4 DEF KillSwitch, Environment, Publish, RecoverStale, WorldStep, Ingest,
              RequestLands
<1>5. QED
  BY <1>2, <1>3, <1>4 DEF Next

\* A method that ends an incident or leases one leaves no ended one leased.
LEMMA UnleasedMethod ==
  ASSUME TypeOK, TerminalUnleased, NEW i \in Incidents, Method(i)
  PROVE  TerminalUnleased'
<1> DEFINE Ended(s) == s \in Closed \union Escalated
<1>1. /\ state \in [Incidents -> IncidentState \union {"NONE"}]
      /\ leaseOwner \in [Incidents -> Workers \union {NoWorker}]
      /\ leaseLive \in [Incidents -> BOOLEAN]
  BY DEF TypeOK, StoreTypeOK
<1>2. ~Ended("NONE") /\ \A s \in {"DETECTED", "INVESTIGATING", "VERIFYING", "ACTIONABLE",
         "ACTUATION_PENDING", "ACTUATING", "REOBSERVING"} : ~Ended(s)
  BY DEF Closed, Escalated
<1>3. \A s : ~Ended(s) => ~Ended(LeasedState(s))
  BY <1>2 DEF LeasedState
<1> HIDE DEF Ended
<1>4. ASSUME NEW j \in Incidents, Ended(state'[j])
      PROVE  leaseOwner'[j] = NoWorker /\ ~leaseLive'[j]
  <2>1. Ended(state[j]) => leaseOwner[j] = NoWorker /\ ~leaseLive[j]
    BY DEF TerminalUnleased, Ended
  <2>2. CASE \E w \in Workers : AcquireLease(w, i) \/ AcquireMaturedRetry(w, i)
    BY <1>1, <1>2, <1>3, <1>4, <2>1, <2>2
       DEF AcquireLease, AcquireMaturedRetry, CanLease, Matured, GrantLease, Ended
  <2>3. CASE \/ \E w \in Workers : UpdateHypothesis(w, i) \/ ScheduleRetry(w, i)
             \/ \E s \in IncidentState : TerminateIncident(i, s)
    BY <1>1, <1>2, <1>4, <2>1, <2>3
       DEF UpdateHypothesis, ScheduleRetry, TerminateIncident, ClearLease, leaseVars
  <2>4. CASE \/ TryClaimIncident(i) \/ CommitVerified(i)
             \/ TransitionTo(i, "ACTUATING") \/ TransitionTo(i, "REOBSERVING")
             \/ \E a \in Actions : Claim(i, a)
             \/ LeaseExpires(i) \/ BackoffElapses(i)
    BY <1>1, <1>2, <1>4, <2>1, <2>4
       DEF TryClaimIncident, CommitVerified, TransitionTo, Claim, LeaseExpires,
           BackoffElapses, leaseVars
  <2>5. QED
    BY <2>2, <2>3, <2>4 DEF Method
<1>5. QED
  BY <1>4 DEF TerminalUnleased, Ended

\* A terminated incident keeps no lease, whoever terminates it and whoever
\* holds a lease that has expired meanwhile.
THEOREM TerminalIsUnleased == Spec => []TerminalUnleased
<1>1. Init => TerminalUnleased
  BY DEF Init, StoreInit, TerminalUnleased
<1>2. TypeOK /\ ActingOK /\ TerminalUnleased /\ [Next]_vars => TerminalUnleased'
  <2>1. TerminalUnleased /\ UNCHANGED storeVars => TerminalUnleased'
    BY DEF storeVars, leaseVars, TerminalUnleased
  <2>2. QED
    BY <2>1, StepMethods, UnleasedMethod DEF vars
<1>3. QED
  BY <1>1, <1>2, TypeCorrect, PTL DEF Spec

\* A method changes the state of one incident, along the table or as a claim.
LEMMA TableMethod ==
  ASSUME TypeOK, NEW i \in Incidents, Method(i), NEW j \in Incidents
  PROVE  \/ state[j] = "NONE" /\ state'[j] \in {"NONE", "DETECTED"}
         \/ CanTransition(state[j], state'[j])
         \/ version'[j] = version[j] + 1
<1>1. /\ state \in [Incidents -> IncidentState \union {"NONE"}]
      /\ version \in [Incidents -> Nat]
  BY DEF TypeOK, StoreTypeOK
<1>2. CASE state'[j] = state[j]
  BY <1>2 DEF CanTransition
<1>3. ASSUME state'[j] # state[j] PROVE j = i
  BY <1>1, <1>3
     DEF Method, TryClaimIncident, AcquireLease, AcquireMaturedRetry,
         UpdateHypothesis, ScheduleRetry, TerminateIncident, CommitVerified,
         TransitionTo, Claim, LeaseExpires, BackoffElapses
<1>4. CASE state'[i] # state[i] /\ j = i
  <2>1. CASE TryClaimIncident(i)
    BY <1>1, <1>4, <2>1 DEF TryClaimIncident
  <2>2. CASE \E w \in Workers : AcquireLease(w, i)
    BY <1>1, <1>4, <2>2 DEF AcquireLease, LeasedState, CanTransition, ValidTransitions
  <2>3. CASE \/ \E w \in Workers : \/ UpdateHypothesis(w, i) \/ ScheduleRetry(w, i)
                                   \/ AcquireMaturedRetry(w, i)
             \/ \E s \in IncidentState : TerminateIncident(i, s)
             \/ TransitionTo(i, "ACTUATING") \/ TransitionTo(i, "REOBSERVING")
    BY <1>1, <1>4, <2>3
       DEF UpdateHypothesis, ScheduleRetry, AcquireMaturedRetry, TerminateIncident,
           TransitionTo
  <2>4. CASE CommitVerified(i)
    BY <1>1, <1>4, <2>4 DEF CommitVerified, CanTransition, ValidTransitions
  <2>5. CASE \E a \in Actions : Claim(i, a)
    BY <1>1, <1>4, <2>5 DEF Claim
  <2>6. CASE LeaseExpires(i) \/ BackoffElapses(i)
    BY <1>4, <2>6 DEF LeaseExpires, BackoffElapses
  <2>7. QED
    BY <2>1, <2>2, <2>3, <2>4, <2>5, <2>6 DEF Method
<1>5. QED
  BY <1>2, <1>3, <1>4

\* No step but a claim of the gate takes an incident off VALID_TRANSITIONS.
THEOREM TableRespected == Spec => OnlyTheGateSkipsTheTable
<1>1. TypeOK /\ ActingOK /\ [Next]_vars =>
        [ \A i \in Incidents :
            \/ state[i] = "NONE" /\ state'[i] \in {"NONE", "DETECTED"}
            \/ CanTransition(state[i], state'[i])
            \/ version'[i] = version[i] + 1 ]_vars
  <2>1. UNCHANGED storeVars =>
          \A i \in Incidents : CanTransition(state[i], state'[i])
    BY DEF storeVars, CanTransition
  <2>2. QED
    BY <2>1, StepMethods, TableMethod
<1>2. QED
  BY <1>1, TypeCorrect, PTL DEF Spec, OnlyTheGateSkipsTheTable

(***************************************************************************)
(* Convergence.  A worker decides on what it read long ago: the statuses   *)
(* of its context, the intent the policy chose, an observation made after  *)
(* the mutation.  In a closed world none of these can become false: a paid *)
(* or cancelled order stays what it is, and only the payment of a          *)
(* cancelled order is given back.  That is why a cancelled order, which a  *)
(* re-observation reads as PENDING, is never repaired: the re-observation  *)
(* happens only when there is nothing to repair.                           *)
(***************************************************************************)

\* Only the control loop changes the order and the payment, no operator
\* resolves by hand, and no expectation is one of an unfinished payment: of
\* that one a cancelled order and an open one read alike.
ClosedWorld ==
  /\ WorldChanges = {}
  /\ "resolve" \notin Operations
  /\ \A s \in Subjects : Expected[s] # "PENDING"

\* Over an order o and a payment p: a repair would do no harm.
RepairOk(o, p) == ~(o = "CANCELLED" /\ p = "captured")

\* The status x of the merchant, y of the provider, may be relied on.
HonestMerchant(x, o, p) ==
  \/ x = "SETTLED" /\ o = "PAID"
  \/ x = "FAILED" /\ o = "CANCELLED"
  \/ x = "PENDING" /\ RepairOk(o, p)

HonestPayment(y, o, p) ==
  \/ y \in {"PENDING", "UNKNOWN"} /\ p = "authorized"
  \/ y = "SETTLED" /\ (p = "captured" \/ (p = "refunded" /\ o = "CANCELLED"))
  \/ y = "REFUNDED" /\ p = "refunded"

Honest(view, o, p) ==
  HonestMerchant(view["merchant"], o, p) /\ HonestPayment(view["razorpay"], o, p)

\* The expectation e is met.
AsExpected(e, o, p) ==
  \/ e = "SETTLED" /\ o = "PAID" /\ p = "captured"
  \/ e = "FAILED" /\ o = "CANCELLED" /\ p = "refunded"

\* What a step may make of an order and a payment.
Drift(o, p, o2, p2) ==
  /\ o2 = o \/ (o # "CANCELLED" /\ o2 = "PAID")
  /\ p2 = p \/ (o = "CANCELLED" /\ o2 = o /\ p = "captured" /\ p2 = "refunded")

\* The steps of a worker that has chosen its intent, that relies on its view,
\* and that has seen the discrepancy gone.
Chosen == {"commit", "gate", "actuating", "dispatch", "outcome", "reobserving",
           "observe"}
Relying == {"investigate", "verify", "recheck", "persist"} \union Chosen
Resolving(label, j) ==
  label \in {"drop", "persist"} \/ (label = "terminate" /\ j.goal = "RESOLVED")

WorkerHonest(label, j, o, p) ==
  /\ label \in Relying => Honest(j.view, o, p)
  /\ label = "recheck" => RepairOk(o, p)
  /\ label \in Chosen => /\ j.intent = "REPAIR_MERCHANT_STATE" => RepairOk(o, p)
                         /\ j.intent = "REFUND_PAYMENT" => o = "CANCELLED"
  /\ Resolving(label, j) => AsExpected(Expected[j.inc[1]], o, p)

ObsHonest == \A s \in Subjects : Honest(obs[s], order[s], payment[s])
RefundsOfCancelled == \A k \in Keys : inflight[k] > 0 => order[k[1]] = "CANCELLED"
ResolvedAsExpected ==
  \A i \in Incidents : state[i] = "RESOLVED" =>
    AsExpected(Expected[i[1]], order[i[1]], payment[i[1]])
WorkersHonest ==
  \A w \in Workers : WorkerHonest(pc[w], job[w], order[Subject(w)], payment[Subject(w)])

ConvergenceInv ==
  ObsHonest /\ RefundsOfCancelled /\ ResolvedAsExpected /\ WorkersHonest

WorldDrifts == \A s \in Subjects : Drift(order[s], payment[s], order'[s], payment'[s])

\* Nothing the invariant says of the world is undone by a step.
LEMMA DriftKeeps ==
  ASSUME NEW o, NEW p, NEW o2, NEW p2, Drift(o, p, o2, p2)
  PROVE  /\ o = "CANCELLED" => o2 = "CANCELLED"
         /\ RepairOk(o, p) => RepairOk(o2, p2)
         /\ \A view : Honest(view, o, p) => Honest(view, o2, p2)
         /\ \A e : AsExpected(e, o, p) => AsExpected(e, o2, p2)
         /\ \A label, j : WorkerHonest(label, j, o, p) => WorkerHonest(label, j, o2, p2)
<1>1. /\ o = "CANCELLED" => o2 = "CANCELLED"
      /\ RepairOk(o, p) => RepairOk(o2, p2)
  BY DEF Drift, RepairOk
<1>2. ASSUME NEW x, HonestMerchant(x, o, p) PROVE HonestMerchant(x, o2, p2)
  BY <1>1, <1>2 DEF Drift, HonestMerchant
<1>3. ASSUME NEW y, HonestPayment(y, o, p) PROVE HonestPayment(y, o2, p2)
  BY <1>1, <1>3 DEF Drift, HonestPayment
<1>4. \A view : Honest(view, o, p) => Honest(view, o2, p2)
  BY <1>2, <1>3 DEF Honest
<1>5. \A e : AsExpected(e, o, p) => AsExpected(e, o2, p2)
  BY DEF Drift, AsExpected
<1>6. QED
  BY <1>1, <1>4, <1>5 DEF WorkerHonest

\* What is ingested of an order and a payment may be relied on, and so may
\* what is observed of a payment, and of an order there is nothing to repair.
LEMMA ReadingsHonest ==
  ASSUME TypeOK, NEW s \in Subjects
  PROVE  /\ Honest(Ingested(s), order[s], payment[s])
         /\ HonestPayment(Observed(s)["razorpay"], order[s], payment[s])
         /\ RepairOk(order[s], payment[s]) =>
              HonestMerchant(Observed(s)["merchant"], order[s], payment[s])
<1>1. order[s] \in MerchantOrder /\ payment[s] \in Payment
  BY DEF TypeOK
<1>2. /\ Ingested(s)["merchant"] = IngestedMerchant(order[s])
      /\ Ingested(s)["razorpay"] = IngestedPayment(payment[s])
      /\ Observed(s)["merchant"] = ObservedMerchant(order[s])
      /\ Observed(s)["razorpay"] = ObservedPayment(payment[s])
  BY DEF Ingested, Observed, Providers
<1>3. HonestMerchant(IngestedMerchant(order[s]), order[s], payment[s])
  BY <1>1 DEF MerchantOrder, IngestedMerchant, HonestMerchant, RepairOk
<1>4. /\ HonestPayment(IngestedPayment(payment[s]), order[s], payment[s])
      /\ HonestPayment(ObservedPayment(payment[s]), order[s], payment[s])
  BY <1>1 DEF Payment, IngestedPayment, ObservedPayment, HonestPayment
<1>5. RepairOk(order[s], payment[s]) =>
        HonestMerchant(ObservedMerchant(order[s]), order[s], payment[s])
  BY <1>1 DEF MerchantOrder, ObservedMerchant, HonestMerchant
<1>6. QED
  BY <1>2, <1>3, <1>4, <1>5 DEF Honest

\* A reliable view that agrees with the expectation is right about it.
LEMMA AgreementIsReal ==
  ASSUME TypeOK, ClosedWorld, NEW i \in Incidents, NEW view,
         Honest(view, order[i[1]], payment[i[1]]), Agrees(i, view)
  PROVE  AsExpected(Expected[i[1]], order[i[1]], payment[i[1]])
<1>1. i[1] \in Subjects
  BY SubjectType
<1>2. /\ order[i[1]] \in MerchantOrder /\ payment[i[1]] \in Payment
      /\ Expected[i[1]] \in CanonicalStatus /\ Expected[i[1]] # "PENDING"
  BY <1>1, WorkerAssumption DEF TypeOK, ClosedWorld
<1>3. /\ StatusMatches(Expected[i[1]], view["merchant"])
      /\ StatusMatches(Expected[i[1]], view["razorpay"])
  BY DEF Agrees, Matches, Providers
<1>4. QED
  BY <1>2, <1>3 DEF StatusMatches, Honest, HonestMerchant, HonestPayment, RepairOk,
                    AsExpected, CanonicalStatus, MerchantOrder, Payment

\* What the policy chooses on a reliable view is right.
LEMMA ChoiceIsRight ==
  ASSUME NEW view, NEW o, NEW p, Honest(view, o, p)
  PROVE  /\ Evaluate(view) = "REPAIR_MERCHANT_STATE" => RepairOk(o, p)
         /\ Evaluate(view) = "REFUND_PAYMENT" => o = "CANCELLED"
BY DEF Evaluate, Honest, HonestMerchant

\* Only a dispatch, and a refund request that was on its way, change the
\* external systems.
LEMMA WorldStill ==
  ASSUME Next, ClosedWorld,
         ~(\E w \in Workers : DispatchRepair(w) \/ DispatchRefund(w)),
         ~(\E k \in Keys : RequestLands(k))
  PROVE  UNCHANGED worldVars
<1>1. ASSUME NEW w \in Workers, Iterate(w) \/ Fail(w) PROVE UNCHANGED worldVars
  <2>1. CASE (\E e \in Events : PollEvent(w, e)) \/ \E i \in Incidents : PollRetry(w, i)
    BY <2>1 DEF PollEvent, PollRetry
  <2>2. CASE \/ ClaimIncident(w) \/ Lease(w) \/ LeaseRefused(w) \/ StaleGuard(w)
             \/ DropStale(w) \/ Assemble(w)
    BY <2>2 DEF ClaimIncident, Lease, LeaseRefused, StaleGuard, DropStale, Assemble
  <2>3. CASE \/ Investigate(w) \/ InvestigationFails(w) \/ VerificationFails(w)
             \/ Verify(w) \/ Recheck(w)
    BY <2>3 DEF Investigate, InvestigationFails, VerificationFails, Verify, Recheck
  <2>4. CASE \/ Commit(w) \/ GateBlocks(w) \/ GateAllows(w) \/ StartActuating(w)
             \/ StartReobserving(w)
    BY <2>4 DEF Commit, GateBlocks, GateAllows, StartActuating, StartReobserving,
                Advance
  <2>5. CASE RecordOutcome(w) \/ Observe(w) \/ ObserveFails(w) \/ Persist(w)
    BY <2>5 DEF RecordOutcome, Observe, ObserveFails, Persist
  <2>6. CASE \/ Terminate(w) \/ Abort(w) \/ Retry(w) \/ Transient(w) \/ MarkEvent(w)
             \/ Fail(w)
    BY <2>6 DEF Terminate, Abort, Retry, Transient, MarkEvent, Fail, Crash,
                DatabaseFails
  <2>7. QED
    BY <1>1, <2>1, <2>2, <2>3, <2>4, <2>5, <2>6 DEF Iterate
<1>2. CASE \E i \in Incidents : Operator(i) \/ Tick(i)
  BY <1>2 DEF Operator, Tick, Untouched
<1>3. CASE KillSwitch
  BY <1>3 DEF KillSwitch, Untouched
<1>4. CASE Environment
  BY <1>4 DEF Environment, Publish, RecoverStale, Ingest, WorldStep, ClosedWorld
<1>5. QED
  BY <1>1, <1>2, <1>3, <1>4 DEF Next

\* A repair is of an order that is not cancelled, and a refund, at once or
\* late, is of one that is.
LEMMA WorldStepDrifts ==
  ASSUME TypeOK, ClosedWorld, ConvergenceInv, Next
  PROVE  WorldDrifts /\ RefundsOfCancelled'
<1>1. /\ order \in [Subjects -> MerchantOrder]
      /\ payment \in [Subjects -> Payment]
      /\ inflight \in [Keys -> Nat]
      /\ RefundsOfCancelled
  BY DEF TypeOK, ConvergenceInv
<1>2. CASE UNCHANGED worldVars
  BY <1>1, <1>2 DEF worldVars, WorldDrifts, Drift, RefundsOfCancelled
<1>3. ASSUME NEW w \in Workers, DispatchRepair(w) PROVE WorldDrifts /\ RefundsOfCancelled'
  <2>1. Subject(w) \in Subjects
    BY JobTypes
  <2>2. RepairOk(order[Subject(w)], payment[Subject(w)])
    BY <1>3 DEF DispatchRepair, ConvergenceInv, WorkersHonest, WorkerHonest, Chosen
  <2>3. /\ UNCHANGED <<payment, inflight>>
        /\ \/ UNCHANGED order
           \/ /\ payment[Subject(w)] = "captured"
              /\ order' = [order EXCEPT ![Subject(w)] = "PAID"]
    BY <1>3 DEF DispatchRepair
  <2>4. WorldDrifts
    BY <1>1, <2>1, <2>2, <2>3 DEF WorldDrifts, Drift, RepairOk
  <2>5. \A k \in Keys : k[1] \in Subjects
    BY DEF Keys
  <2>6. RefundsOfCancelled'
    BY <1>1, <2>3, <2>4, <2>5 DEF WorldDrifts, Drift, RefundsOfCancelled
  <2>7. QED
    BY <2>4, <2>6
<1>4. ASSUME NEW w \in Workers, DispatchRefund(w) PROVE WorldDrifts /\ RefundsOfCancelled'
  <2>1. Subject(w) \in Subjects /\ KeyOf(w)[1] = Subject(w) /\ KeyOf(w) \in Keys
    <3>1. job[w].intent \in Actions
      BY <1>4 DEF DispatchRefund, Actions
    <3>2. QED
      BY <3>1, JobTypes DEF KeyOf, Key, Subject
  <2>2. order[Subject(w)] = "CANCELLED"
    BY <1>4 DEF DispatchRefund, ConvergenceInv, WorkersHonest, WorkerHonest, Chosen
  <2>3. /\ UNCHANGED order
        /\ \/ UNCHANGED payment
           \/ /\ payment[Subject(w)] = "captured"
              /\ payment' = [payment EXCEPT ![Subject(w)] = "refunded"]
        /\ \/ UNCHANGED inflight
           \/ inflight' = [inflight EXCEPT ![KeyOf(w)] = @ + 1]
    BY <1>4 DEF DispatchRefund
  <2>4. WorldDrifts
    BY <1>1, <2>1, <2>2, <2>3 DEF WorldDrifts, Drift
  <2>5. \A k \in Keys : k # KeyOf(w) => inflight'[k] = inflight[k]
    BY <1>1, <2>1, <2>3
  <2>6. RefundsOfCancelled'
    BY <1>1, <2>1, <2>2, <2>3, <2>5 DEF RefundsOfCancelled
  <2>7. QED
    BY <2>4, <2>6
<1>5. ASSUME NEW k \in Keys, RequestLands(k) PROVE WorldDrifts /\ RefundsOfCancelled'
  <2>1. k[1] \in Subjects
    BY DEF Keys
  <2>2. order[k[1]] = "CANCELLED"
    BY <1>1, <1>5 DEF RequestLands, RefundsOfCancelled
  <2>3. /\ UNCHANGED order
        /\ inflight' = [inflight EXCEPT ![k] = @ - 1]
        /\ \/ UNCHANGED payment
           \/ /\ payment[k[1]] = "captured"
              /\ payment' = [payment EXCEPT ![k[1]] = "refunded"]
    BY <1>5 DEF RequestLands
  <2>4. WorldDrifts
    BY <1>1, <2>1, <2>2, <2>3 DEF WorldDrifts, Drift
  <2>5. \A l \in Keys : l # k => inflight'[l] = inflight[l]
    BY <1>1, <2>3
  <2>6. RefundsOfCancelled'
    BY <1>1, <2>2, <2>3, <2>5 DEF RefundsOfCancelled
  <2>7. QED
    BY <2>4, <2>6
<1>6. QED
  BY <1>2, <1>3, <1>4, <1>5, WorldStill

\* Only an upsert of a worker and ingestion change the persisted statuses.
LEMMA ObsStill ==
  ASSUME Next, ~(\E w \in Workers : Commit(w) \/ Persist(w)),
         ~(\E s \in Subjects, p \in Providers : Ingest(s, p))
  PROVE  UNCHANGED obs
<1>1. ASSUME NEW w \in Workers, Iterate(w) \/ Fail(w) PROVE UNCHANGED obs
  <2>1. CASE (\E e \in Events : PollEvent(w, e)) \/ \E i \in Incidents : PollRetry(w, i)
    BY <2>1 DEF PollEvent, PollRetry
  <2>2. CASE \/ ClaimIncident(w) \/ Lease(w) \/ LeaseRefused(w) \/ StaleGuard(w)
             \/ DropStale(w) \/ Assemble(w)
    BY <2>2 DEF ClaimIncident, Lease, LeaseRefused, StaleGuard, DropStale, Assemble
  <2>3. CASE \/ Investigate(w) \/ InvestigationFails(w) \/ VerificationFails(w)
             \/ Verify(w) \/ Recheck(w)
    BY <2>3 DEF Investigate, InvestigationFails, VerificationFails, Verify, Recheck
  <2>4. CASE \/ GateBlocks(w) \/ GateAllows(w) \/ StartActuating(w) \/ DispatchRepair(w)
             \/ DispatchRefund(w) \/ StartReobserving(w)
    BY <2>4 DEF GateBlocks, GateAllows, StartActuating, StartReobserving, Advance,
                DispatchRepair, DispatchRefund
  <2>5. CASE RecordOutcome(w) \/ Observe(w) \/ ObserveFails(w)
    BY <2>5 DEF RecordOutcome, Observe, ObserveFails
  <2>6. CASE \/ Terminate(w) \/ Abort(w) \/ Retry(w) \/ Transient(w) \/ MarkEvent(w)
             \/ Fail(w)
    BY <2>6 DEF Terminate, Abort, Retry, Transient, MarkEvent, Fail, Crash,
                DatabaseFails
  <2>7. QED
    BY <1>1, <2>1, <2>2, <2>3, <2>4, <2>5, <2>6 DEF Iterate
<1>2. CASE \E i \in Incidents : Operator(i) \/ Tick(i)
  BY <1>2 DEF Operator, Tick, Untouched
<1>3. CASE KillSwitch
  BY <1>3 DEF KillSwitch, Untouched
<1>4. CASE Environment
  BY <1>4 DEF Environment, Publish, RecoverStale, WorldStep, RequestLands
<1>5. QED
  BY <1>1, <1>2, <1>3, <1>4 DEF Next

\* What is persisted was observed, by ingestion or by a worker, and the parts
\* of two reliable views are a reliable view.
LEMMA ObsStepHonest ==
  ASSUME TypeOK, ConvergenceInv, WorldDrifts, Next
  PROVE  ObsHonest'
<1>1. ObsHonest /\ WorkersHonest /\ obs \in [Subjects -> Views]
  BY DEF TypeOK, ConvergenceInv
<1>2. CASE UNCHANGED obs
  BY <1>1, <1>2, DriftKeeps DEF ObsHonest, WorldDrifts
<1>3. ASSUME NEW w \in Workers, SaveObservations(w), pc[w] \in Relying, UNCHANGED worldVars
      PROVE  ObsHonest'
  <2>1. Subject(w) \in Subjects
    BY JobTypes
  <2>2. /\ Honest(job[w].view, order[Subject(w)], payment[Subject(w)])
        /\ Honest(obs[Subject(w)], order[Subject(w)], payment[Subject(w)])
    BY <1>1, <1>3, <2>1 DEF WorkersHonest, WorkerHonest, ObsHonest
  <2>3. PICK saved : obs' = [obs EXCEPT ![Subject(w)] =
              [p \in Providers |-> IF p \in saved THEN job[w].view[p] ELSE @[p]]]
    BY <1>3 DEF SaveObservations
  <2>4. /\ obs'[Subject(w)]["merchant"] \in {job[w].view["merchant"], obs[Subject(w)]["merchant"]}
        /\ obs'[Subject(w)]["razorpay"] \in {job[w].view["razorpay"], obs[Subject(w)]["razorpay"]}
        /\ \A s \in Subjects : s # Subject(w) => obs'[s] = obs[s]
    BY <1>1, <2>1, <2>3 DEF Providers
  <2>5. Honest(obs'[Subject(w)], order[Subject(w)], payment[Subject(w)])
    BY <2>2, <2>4 DEF Honest
  <2>6. UNCHANGED <<order, payment>>
    BY <1>3 DEF worldVars
  <2>7. QED
    BY <1>1, <2>4, <2>5, <2>6 DEF ObsHonest
<1>4. ASSUME NEW w \in Workers, Commit(w) \/ Persist(w) PROVE ObsHonest'
  <2>1. \/ UNCHANGED obs
        \/ SaveObservations(w) /\ pc[w] \in Relying /\ UNCHANGED worldVars
    BY <1>4 DEF Commit, Persist, Relying, Chosen
  <2>2. QED
    BY <1>2, <1>3, <2>1
<1>5. ASSUME NEW s \in Subjects, NEW p \in Providers, Ingest(s, p) PROVE ObsHonest'
  <2>1. /\ obs' = [obs EXCEPT ![s][p] = Ingested(s)[p]]
        /\ UNCHANGED <<order, payment>>
    BY <1>5 DEF Ingest, worldVars
  <2>2. /\ Honest(obs[s], order[s], payment[s])
        /\ Honest(Ingested(s), order[s], payment[s])
    BY <1>1, ReadingsHonest DEF ObsHonest
  <2>3. /\ obs'[s]["merchant"] \in {Ingested(s)["merchant"], obs[s]["merchant"]}
        /\ obs'[s]["razorpay"] \in {Ingested(s)["razorpay"], obs[s]["razorpay"]}
        /\ \A t \in Subjects : t # s => obs'[t] = obs[t]
    BY <1>1, <2>1 DEF Views, Providers
  <2>4. Honest(obs'[s], order[s], payment[s])
    BY <2>2, <2>3 DEF Honest
  <2>5. QED
    BY <1>1, <2>1, <2>3, <2>4 DEF ObsHonest
<1>6. QED
  BY <1>2, <1>4, <1>5, ObsStill

\* An incident becomes RESOLVED only by a worker that has seen it converge.
LEMMA ResolvedBy ==
  ASSUME TypeOK, ActingOK, ClosedWorld, Next, NEW i \in Incidents,
         state'[i] = "RESOLVED", state[i] # "RESOLVED"
  PROVE  \E w \in Workers : Inc(w) = i /\ Resolving(pc[w], job[w])
<1>1. state \in [Incidents -> IncidentState \union {"NONE"}]
  BY DEF TypeOK, StoreTypeOK
<1>2. \A s : LeasedState(s) = "RESOLVED" => s = "RESOLVED"
  BY DEF LeasedState
<1>3. ASSUME NEW j \in Incidents, NEW w \in Workers,
             \/ TryClaimIncident(j) \/ AcquireLease(w, j) \/ AcquireMaturedRetry(w, j)
             \/ UpdateHypothesis(w, j) \/ ScheduleRetry(w, j) \/ CommitVerified(j)
             \/ TransitionTo(j, "ACTUATING") \/ TransitionTo(j, "REOBSERVING")
             \/ TerminateIncident(j, "ESCALATED_UNKNOWN")
             \/ TerminateIncident(j, "INVESTIGATING")
             \/ \E a \in Actions : Claim(j, a)
             \/ LeaseExpires(j) \/ BackoffElapses(j)
             \/ UNCHANGED storeVars
      PROVE  FALSE
  BY <1>1, <1>2, <1>3
     DEF TryClaimIncident, AcquireLease, AcquireMaturedRetry, UpdateHypothesis,
         ScheduleRetry, CommitVerified, TransitionTo, TerminateIncident, Claim,
         LeaseExpires, BackoffElapses, storeVars
<1>4. ASSUME NEW w \in Workers, NEW s, TerminateIncident(Inc(w), s)
      PROVE  Inc(w) = i /\ s = "RESOLVED"
  BY <1>1, <1>4, JobTypes DEF TerminateIncident
<1>5. ASSUME NEW w \in Workers, Iterate(w) \/ Fail(w)
      PROVE  Inc(w) = i /\ Resolving(pc[w], job[w])
  <2>1. Inc(w) \in Incidents
    BY JobTypes
  <2>2. CASE DropStale(w) \/ Persist(w) \/ Terminate(w)
    BY <1>3, <1>4, <2>1, <2>2 DEF DropStale, Persist, Terminate, Resolving
  <2>3. CASE \/ \E j \in Incidents : PollRetry(w, j)
             \/ ClaimIncident(w) \/ Lease(w) \/ Investigate(w) \/ Commit(w)
             \/ StartActuating(w) \/ StartReobserving(w)
    BY <1>3, <2>1, <2>3
       DEF PollRetry, ClaimIncident, Lease, Investigate, Commit, StartActuating,
           StartReobserving, Advance
  <2>4. CASE GateAllows(w)
    <3>1. job[w].intent \in Actions
      BY <2>4 DEF GateAllows, ActingOK, Acting
    <3>2. QED
      BY <1>3, <2>1, <2>4, <3>1 DEF GateAllows
  <2>5. CASE Abort(w) \/ Retry(w) \/ Transient(w)
    BY <1>3, <2>1, <2>5 DEF Abort, Retry, Transient, RetryLater, RetryIsIllegal
  <2>6. CASE \/ \E e \in Events : PollEvent(w, e)
             \/ LeaseRefused(w) \/ StaleGuard(w) \/ Assemble(w)
             \/ InvestigationFails(w) \/ Verify(w) \/ VerificationFails(w)
             \/ Recheck(w) \/ GateBlocks(w)
    BY <1>3, <2>1, <2>6
       DEF PollEvent, LeaseRefused, StaleGuard, Assemble, InvestigationFails,
           Verify, VerificationFails, Recheck, GateBlocks
  <2>7. CASE \/ DispatchRepair(w) \/ DispatchRefund(w) \/ RecordOutcome(w)
             \/ Observe(w) \/ ObserveFails(w) \/ MarkEvent(w) \/ Fail(w)
    BY <1>3, <2>1, <2>7
       DEF DispatchRepair, DispatchRefund, RecordOutcome, Observe, ObserveFails,
           MarkEvent, Fail, Crash, DatabaseFails
  <2>8. QED
    BY <1>5, <2>2, <2>3, <2>4, <2>5, <2>6, <2>7 DEF Iterate
<1>6. ASSUME NEW j \in Incidents, Operator(j) \/ Tick(j) PROVE FALSE
  <2>1. \/ TerminateIncident(j, "ESCALATED_UNKNOWN")
        \/ TerminateIncident(j, "INVESTIGATING")
        \/ LeaseExpires(j) \/ BackoffElapses(j)
    BY <1>6 DEF Operator, OperatorRetry, OperatorEscalate, Move, Tick, ClosedWorld
  <2>2. QED
    BY <1>1, <2>1 DEF TerminateIncident, LeaseExpires, BackoffElapses
<1>7. UNCHANGED state => FALSE
  OBVIOUS
<1>8. CASE KillSwitch \/ Environment
  BY <1>7, <1>8
     DEF KillSwitch, Environment, Publish, RecoverStale, WorldStep, Ingest,
         RequestLands, storeVars
<1>9. QED
  BY <1>5, <1>6, <1>8 DEF Next

\* A worker at one of these steps has nothing to rely on.
Unbound == {"idle", "ack", "nack", "claiming", "leasing", "guard", "assemble",
            "retry", "transient", "abort"}

LEMMA UnboundHonest ==
  ASSUME NEW label, NEW j, NEW o, NEW p,
         label \in Unbound \/ (label = "terminate" /\ j.goal # "RESOLVED")
  PROVE  WorkerHonest(label, j, o, p)
BY DEF Unbound, WorkerHonest, Relying, Chosen, Resolving

\* Having chosen, a worker goes on with its view and its intent.
LEMMA ChosenStays ==
  ASSUME NEW label, NEW label2, NEW j, NEW j2, NEW o, NEW p,
         label \in Chosen, label2 \in Chosen,
         j2.view = j.view, j2.intent = j.intent, j2.inc = j.inc,
         WorkerHonest(label, j, o, p)
  PROVE  WorkerHonest(label2, j2, o, p)
BY DEF WorkerHonest, Relying, Chosen, Resolving

\* The state an escalation of the gate leads to.
LEMMA BlockedIsEscalated == ASSUME NEW d PROVE BlockedState(d) # "RESOLVED"
BY DEF BlockedState

\* Steps after which the worker has nothing to rely on.
LEMMA UnboundStep ==
  ASSUME TypeOK, NEW w \in Workers, NEW o, NEW p,
         \/ \E e \in Events : PollEvent(w, e)
         \/ \E i \in Incidents : PollRetry(w, i)
         \/ ClaimIncident(w) \/ Lease(w) \/ LeaseRefused(w) \/ DropStale(w)
         \/ InvestigationFails(w) \/ VerificationFails(w) \/ GateBlocks(w)
         \/ ObserveFails(w) \/ Persist(w) \/ Terminate(w) \/ Abort(w) \/ Retry(w)
         \/ Transient(w) \/ MarkEvent(w) \/ Fail(w)
  PROVE  WorkerHonest(pc'[w], job'[w], o, p)
<1>1. pc \in [Workers -> Labels] /\ job \in [Workers -> Job] /\ job[w] \in Job
  BY DEF TypeOK
<1>2. ASSUME NEW l \in Unbound, Goto(w, l) PROVE pc'[w] \in Unbound
  BY <1>1, <1>2 DEF Goto
<1>3. ASSUME NEW v \in {"ack", "nack"}, Leave(w, v) PROVE pc'[w] \in Unbound
  BY <1>1, <1>3 DEF Leave, Goto, Unbound
<1>4. ASSUME NEW g, g # "RESOLVED", TerminateWith(w, g)
      PROVE  pc'[w] = "terminate" /\ job'[w].goal # "RESOLVED"
  BY <1>1, <1>4 DEF TerminateWith, Goto, Job
<1>5. {"idle", "claiming", "leasing", "guard", "retry", "transient", "abort"} \subseteq Unbound
  BY DEF Unbound
<1>6. CASE \/ \E e \in Events : PollEvent(w, e)
           \/ \E i \in Incidents : PollRetry(w, i)
           \/ ClaimIncident(w) \/ Lease(w) \/ LeaseRefused(w) \/ DropStale(w)
  <2>1. pc'[w] \in Unbound
    BY <1>2, <1>3, <1>5, <1>6
       DEF PollEvent, PollRetry, ClaimIncident, Lease, LeaseRefused, DropStale
  <2>2. QED
    BY <2>1, UnboundHonest
<1>7. CASE InvestigationFails(w) \/ VerificationFails(w) \/ ObserveFails(w) \/ Persist(w)
  <2>1. pc'[w] \in Unbound \/ (pc'[w] = "terminate" /\ job'[w].goal # "RESOLVED")
    BY <1>2, <1>3, <1>4, <1>5, <1>7
       DEF InvestigationFails, VerificationFails, ObserveFails, Persist
  <2>2. QED
    BY <2>1, UnboundHonest
<1>8. CASE GateBlocks(w)
  <2>1. pc'[w] = "terminate" /\ job'[w].goal # "RESOLVED"
    BY <1>4, <1>8, BlockedIsEscalated DEF GateBlocks
  <2>2. QED
    BY <2>1, UnboundHonest
<1>9. CASE Terminate(w) \/ Abort(w) \/ Retry(w) \/ Transient(w) \/ MarkEvent(w)
  <2>1. pc'[w] \in Unbound
    BY <1>2, <1>3, <1>5, <1>9
       DEF Terminate, Abort, Retry, Transient, RetryLater, RetryIsIllegal, MarkEvent
  <2>2. QED
    BY <2>1, UnboundHonest
<1>10. CASE Fail(w)
  <2>1. pc'[w] \in Unbound
    BY <1>2, <1>3, <1>5, <1>10 DEF Fail, Crash, DatabaseFails
  <2>2. QED
    BY <2>1, UnboundHonest
<1>11. QED
  BY <1>6, <1>7, <1>8, <1>9, <1>10

\* A reliable view on which the worker does not act leaves nothing to repair:
\* of a cancelled order with a captured payment it says FAILED and SETTLED,
\* which is a refund and contradicts no later answer of the provider.
LEMMA NothingToRepair ==
  ASSUME TypeOK, NEW s \in Subjects, NEW view,
         Honest(view, order[s], payment[s]),
         \/ Evaluate(view) = "ESCALATE"
         \/ IngestedPayment(payment[s]) # view["razorpay"]
  PROVE  RepairOk(order[s], payment[s])
<1> SUFFICES ASSUME order[s] = "CANCELLED", payment[s] = "captured" PROVE FALSE
  BY DEF RepairOk
<1>1. view["merchant"] = "FAILED" /\ view["razorpay"] = "SETTLED"
  BY DEF Honest, HonestMerchant, HonestPayment, RepairOk
<1>2. Evaluate(view) = "REFUND_PAYMENT" /\ IngestedPayment(payment[s]) = "SETTLED"
  BY <1>1 DEF Evaluate, IngestedPayment
<1>3. QED
  BY <1>1, <1>2

\* The steps that read: the guard, the context, the verification and the
\* re-observation.
LEMMA ReadingStep ==
  ASSUME TypeOK, ClosedWorld, ConvergenceInv, NEW w \in Workers,
         \/ StaleGuard(w) \/ Assemble(w) \/ Investigate(w) \/ Verify(w) \/ Recheck(w)
         \/ Observe(w)
  PROVE  /\ job'[w].inc = job[w].inc
         /\ WorkerHonest(pc'[w], job'[w], order[Subject(w)], payment[Subject(w)])
<1> DEFINE s == Subject(w)
           o == order[s]
           p == payment[s]
<1>1. /\ pc \in [Workers -> Labels] /\ job \in [Workers -> Job] /\ job[w] \in Job
      /\ s \in Subjects /\ Inc(w) \in Incidents /\ Inc(w)[1] = s
  BY JobTypes DEF TypeOK, Inc, Subject
<1>2. Honest(obs[s], o, p) /\ WorkerHonest(pc[w], job[w], o, p)
  BY <1>1 DEF ConvergenceInv, ObsHonest, WorkersHonest
<1>3. ASSUME NEW view, Honest(view, o, p), Agrees(Inc(w), view)
      PROVE  AsExpected(Expected[Inc(w)[1]], o, p)
  BY <1>1, <1>3, AgreementIsReal
<1>4. CASE StaleGuard(w)
  <2>1. /\ pc'[w] = IF Agrees(Inc(w), obs[s]) THEN "drop" ELSE "assemble"
        /\ job'[w] = job[w]
    BY <1>1, <1>4 DEF StaleGuard, Goto, Keep
  <2>2. Agrees(Inc(w), obs[s]) => AsExpected(Expected[job[w].inc[1]], o, p)
    BY <1>2, <1>3 DEF Inc
  <2>3. QED
    BY <2>1, <2>2 DEF WorkerHonest, Relying, Chosen, Resolving
<1>5. CASE Assemble(w)
  <2>1. /\ pc'[w] \in {"verify", "investigate"}
        /\ job'[w].view = obs[s] /\ job'[w].inc = job[w].inc
    BY <1>1, <1>5 DEF Assemble, Goto, Job
  <2>2. QED
    BY <1>2, <2>1 DEF WorkerHonest, Relying, Chosen, Resolving
<1>6. CASE Investigate(w)
  <2>1. pc[w] = "investigate" /\ pc'[w] \in {"verify", "abort"} /\ job'[w] = job[w]
    BY <1>1, <1>6 DEF Investigate, Goto, Keep
  <2>2. QED
    BY <1>2, <2>1 DEF WorkerHonest, Relying, Chosen, Resolving
<1>7. CASE Verify(w)
  <2> DEFINE view == job[w].view
  <2>1. Honest(view, o, p)
    BY <1>2, <1>7 DEF Verify, WorkerHonest, Relying
  <2>2. PICK conflict \in BOOLEAN :
          LET intent == IF conflict THEN "ESCALATE" ELSE Evaluate(view)
          IN  /\ conflict => IngestedPayment(p) # view["razorpay"]
              /\ job' = [job EXCEPT ![w].conflict = conflict, ![w].intent = intent]
              /\ Goto(w, IF Agrees(Inc(w), view) \/ intent # "ESCALATE"
                         THEN "commit" ELSE "recheck")
    BY <1>7 DEF Verify
  <2>3. /\ job'[w].view = view /\ job'[w].inc = job[w].inc
        /\ job'[w].intent = IF conflict THEN "ESCALATE" ELSE Evaluate(view)
    BY <1>1, <2>2 DEF Job
  <2>4. pc'[w] \in {"commit", "recheck"}
        /\ (pc'[w] = "recheck" => job'[w].intent = "ESCALATE")
    BY <1>1, <2>2, <2>3 DEF Goto
  <2>5. pc'[w] = "recheck" => RepairOk(o, p)
    BY <1>1, <2>1, <2>2, <2>3, <2>4, NothingToRepair
  <2>6. /\ job'[w].intent = "REPAIR_MERCHANT_STATE" => RepairOk(o, p)
        /\ job'[w].intent = "REFUND_PAYMENT" => o = "CANCELLED"
    BY <2>1, <2>3, ChoiceIsRight
  <2> HIDE DEF o, p, view
  <2>7. QED
    BY <2>1, <2>3, <2>4, <2>5, <2>6 DEF WorkerHonest, Relying, Chosen, Resolving, o, p
<1>8. CASE Recheck(w)
  <2>1. Honest(job[w].view, o, p) /\ RepairOk(o, p)
    BY <1>2, <1>8 DEF Recheck, WorkerHonest, Relying
  <2>2. PICK fresh, intent, conflict :
          LET view == [q \in Providers |-> IF q \in fresh THEN Observed(s)[q]
                                                          ELSE job[w].view[q]]
          IN  /\ job' = [job EXCEPT ![w].view = view, ![w].fresh = fresh,
                           ![w].conflict = conflict, ![w].intent = intent]
              /\ intent \in {"ESCALATE", Evaluate(view)}
    <3>1. PICK fetched \in SUBSET Providers :
            LET now   == Observed(s)
                fresh == {q \in fetched : \/ now[q] # job[w].view[q]
                                          \/ q = "razorpay" /\ job[w].conflict}
                view  == [q \in Providers |-> IF q \in fresh THEN now[q]
                                                             ELSE job[w].view[q]]
                stillConflict == job[w].conflict /\ "razorpay" \notin fresh
            IN  job' = [job EXCEPT ![w].view = view, ![w].fresh = fresh,
                          ![w].conflict = stillConflict,
                          ![w].intent = IF stillConflict \/ fresh = {}
                                        THEN "ESCALATE" ELSE Evaluate(view)]
      BY <1>8 DEF Recheck
    <3> DEFINE fr == {q \in fetched : \/ Observed(s)[q] # job[w].view[q]
                                      \/ q = "razorpay" /\ job[w].conflict}
               co == job[w].conflict /\ "razorpay" \notin fr
               vi == [q \in Providers |-> IF q \in fr THEN Observed(s)[q]
                                                      ELSE job[w].view[q]]
               it == IF co \/ fr = {} THEN "ESCALATE" ELSE Evaluate(vi)
    <3>2. job' = [job EXCEPT ![w].view = vi, ![w].fresh = fr,
                    ![w].conflict = co, ![w].intent = it]
      BY <3>1
    <3>3. it \in {"ESCALATE", Evaluate(vi)}
      OBVIOUS
    <3> WITNESS fr, it, co
    <3>4. QED
      BY <3>2, <3>3
  <2> DEFINE view == [q \in Providers |-> IF q \in fresh THEN Observed(s)[q]
                                                         ELSE job[w].view[q]]
  <2>3. /\ job'[w].view = view /\ job'[w].inc = job[w].inc
        /\ job'[w].intent \in {"ESCALATE", Evaluate(view)}
    BY <1>1, <2>2 DEF Job
  <2>4. /\ view["merchant"] \in {Observed(s)["merchant"], job[w].view["merchant"]}
        /\ view["razorpay"] \in {Observed(s)["razorpay"], job[w].view["razorpay"]}
    BY DEF Providers
  <2> HIDE DEF view
  <2>5. Honest(view, o, p)
    BY <1>1, <2>1, <2>4, ReadingsHonest DEF Honest
  <2>6. /\ job'[w].intent = "REPAIR_MERCHANT_STATE" => RepairOk(o, p)
        /\ job'[w].intent = "REFUND_PAYMENT" => o = "CANCELLED"
    BY <2>3, <2>5, ChoiceIsRight
  <2>7. pc'[w] = "commit"
    BY <1>1, <1>8 DEF Recheck, Goto
  <2> HIDE DEF o, p
  <2>8. QED
    BY <2>3, <2>5, <2>6, <2>7 DEF WorkerHonest, Relying, Chosen, Resolving, o, p
<1>9. CASE Observe(w)
  <2> DEFINE q == TargetOf(job[w].intent)
             view == [job[w].view EXCEPT ![q] = Observed(s)[q]]
  <2>1. /\ Honest(job[w].view, o, p)
        /\ job[w].intent = "REPAIR_MERCHANT_STATE" => RepairOk(o, p)
    BY <1>2, <1>9 DEF Observe, WorkerHonest, Relying, Chosen
  <2>2. job[w].view \in Views
    BY <1>1 DEF Job
  <2>3. Honest(view, o, p)
    <3>1. CASE job[w].intent = "REPAIR_MERCHANT_STATE"
      <4>1. /\ view["merchant"] = Observed(s)["merchant"]
            /\ view["razorpay"] = job[w].view["razorpay"]
        BY <2>2, <3>1 DEF Views, Providers, TargetOf
      <4>2. QED
        BY <1>1, <2>1, <3>1, <4>1, ReadingsHonest DEF Honest
    <3>2. CASE job[w].intent # "REPAIR_MERCHANT_STATE"
      <4>1. /\ view["merchant"] = job[w].view["merchant"]
            /\ view["razorpay"] = Observed(s)["razorpay"]
        BY <2>2, <3>2 DEF Views, Providers, TargetOf
      <4>2. QED
        BY <1>1, <2>1, <4>1, ReadingsHonest DEF Honest
    <3>3. QED
      BY <3>1, <3>2
  <2>4. CASE Agrees(Inc(w), view)
    <3>1. /\ pc'[w] = "persist"
          /\ job' = [job EXCEPT ![w].view = view, ![w].fresh = @ \union {q}]
      BY <1>1, <1>9, <2>4 DEF Observe, Goto
    <3>2. job'[w].view = view /\ job'[w].inc = job[w].inc
      BY <1>1, <3>1 DEF Job
    <3>3. AsExpected(Expected[job[w].inc[1]], o, p)
      BY <1>3, <2>3, <2>4 DEF Inc
    <3> HIDE DEF o, p, view
    <3>4. QED
      BY <2>3, <3>1, <3>2, <3>3 DEF WorkerHonest, Relying, Chosen, Resolving, o, p
  <2>5. CASE ~Agrees(Inc(w), view)
    <3>1. TerminateWith(w, "ESCALATED_CONVERGENCE_FAILED")
      BY <1>9, <2>5 DEF Observe
    <3>2. /\ pc'[w] = "terminate" /\ job'[w].goal # "RESOLVED"
          /\ job'[w].inc = job[w].inc
      BY <1>1, <3>1 DEF TerminateWith, Goto, Job
    <3>3. QED
      BY <3>2, UnboundHonest
  <2>6. QED
    BY <2>4, <2>5
<1>10. QED
  BY <1>4, <1>5, <1>6, <1>7, <1>8, <1>9

\* The steps of a worker that has chosen: the commit, the gate, the mutation.
LEMMA ChosenStep ==
  ASSUME TypeOK, ClosedWorld, ConvergenceInv, NEW w \in Workers,
         \/ Commit(w) \/ GateAllows(w) \/ StartActuating(w) \/ DispatchRepair(w)
         \/ DispatchRefund(w) \/ RecordOutcome(w) \/ StartReobserving(w)
  PROVE  /\ job'[w].inc = job[w].inc
         /\ WorkerHonest(pc'[w], job'[w], order[Subject(w)], payment[Subject(w)])
<1> DEFINE s == Subject(w)
           o == order[s]
           p == payment[s]
<1>1. /\ pc \in [Workers -> Labels] /\ job \in [Workers -> Job] /\ job[w] \in Job
      /\ s \in Subjects /\ Inc(w) \in Incidents /\ Inc(w)[1] = s
  BY JobTypes DEF TypeOK, Inc, Subject
<1>2. WorkerHonest(pc[w], job[w], o, p)
  BY <1>1 DEF ConvergenceInv, WorkersHonest
<1>3. pc[w] \in Chosen
  BY DEF Commit, GateAllows, StartActuating, StartReobserving, Advance,
         DispatchRepair, DispatchRefund, RecordOutcome, Chosen
<1>4. ASSUME NEW g, TerminateWith(w, g)
      PROVE  /\ pc'[w] = "terminate" /\ job'[w].goal = g /\ job'[w].inc = job[w].inc
  BY <1>1, <1>4 DEF TerminateWith, Goto, Job
<1>5. ASSUME NEW l \in Chosen, Goto(w, l), Keep(w)
      PROVE  pc'[w] = l /\ job'[w] = job[w]
  BY <1>1, <1>5 DEF Goto, Keep
<1>6. CASE Commit(w)
  <2>1. CASE Agrees(Inc(w), job[w].view) /\ TerminateWith(w, "RESOLVED")
    <3>1. Honest(job[w].view, o, p)
      BY <1>2, <1>3 DEF WorkerHonest, Relying
    <3>2. AsExpected(Expected[job[w].inc[1]], o, p)
      BY <1>1, <2>1, <3>1, AgreementIsReal DEF Inc
    <3>3. QED
      BY <1>4, <2>1, <3>2 DEF WorkerHonest, Relying, Chosen, Resolving
  <2>2. CASE TerminateWith(w, "ESCALATED_POLICY_BLOCKED")
    BY <1>4, <2>2, UnboundHonest
  <2>3. CASE Goto(w, "gate") /\ Keep(w)
    <3>1. pc'[w] = "gate" /\ job'[w] = job[w] /\ "gate" \in Chosen
      BY <1>5, <2>3 DEF Chosen
    <3>2. QED
      BY <1>2, <1>3, <3>1, ChosenStays
  <2>4. QED
    BY <1>6, <2>1, <2>2, <2>3 DEF Commit
<1>7. CASE GateAllows(w) \/ StartActuating(w) \/ StartReobserving(w)
  <2>1. \/ pc'[w] \in Chosen /\ job'[w] = job[w]
        \/ pc'[w] = "abort" /\ job'[w] = job[w]
    BY <1>1, <1>7 DEF GateAllows, StartActuating, StartReobserving, Advance, Goto, Keep,
                      Chosen
  <2>2. pc'[w] = "abort" => WorkerHonest(pc'[w], job'[w], o, p)
    BY UnboundHonest DEF Unbound
  <2>3. QED
    BY <1>2, <1>3, <2>1, <2>2, ChosenStays
<1>8. CASE DispatchRepair(w) \/ DispatchRefund(w)
  <2>1. PICK r : Answer(w, r)
    BY <1>8 DEF DispatchRepair, DispatchRefund
  <2>2. /\ pc'[w] = "outcome" /\ "outcome" \in Chosen
        /\ job'[w].view = job[w].view /\ job'[w].intent = job[w].intent
        /\ job'[w].inc = job[w].inc
    BY <1>1, <2>1 DEF Answer, Goto, Job, Chosen
  <2>3. QED
    BY <1>2, <1>3, <2>2, ChosenStays
<1>9. CASE RecordOutcome(w)
  <2>1. CASE TerminateWith(w, "ESCALATED_MUTATION_FAILED")
    BY <1>4, <2>1, UnboundHonest
  <2>2. CASE Goto(w, "reobserving") /\ Keep(w)
    <3>1. pc'[w] = "reobserving" /\ job'[w] = job[w] /\ "reobserving" \in Chosen
      BY <1>5, <2>2 DEF Chosen
    <3>2. QED
      BY <1>2, <1>3, <3>1, ChosenStays
  <2>3. QED
    BY <1>9, <2>1, <2>2 DEF RecordOutcome
<1>10. QED
  BY <1>6, <1>7, <1>8, <1>9

\* What a worker relies on outlives the steps of the others, and its own steps
\* give it nothing to rely on that is not so.
LEMMA WorkersStepHonest ==
  ASSUME TypeOK, ClosedWorld, ConvergenceInv, WorldDrifts, Next
  PROVE  WorkersHonest'
<1>1. ASSUME NEW w \in Workers, NEW label, NEW j, j.inc = job[w].inc,
             WorkerHonest(label, j, order[Subject(w)], payment[Subject(w)])
      PROVE  WorkerHonest(label, j, order'[j.inc[1]], payment'[j.inc[1]])
  <2>1. Subject(w) \in Subjects /\ j.inc[1] = Subject(w)
    BY <1>1, JobTypes DEF Subject
  <2>2. Drift(order[Subject(w)], payment[Subject(w)], order'[Subject(w)], payment'[Subject(w)])
    BY <2>1 DEF WorldDrifts
  <2>3. QED
    BY <1>1, <2>1, <2>2, DriftKeeps
<1>2. ASSUME NEW v \in Workers, pc'[v] = pc[v], job'[v] = job[v]
      PROVE  WorkerHonest(pc'[v], job'[v], order'[job'[v].inc[1]], payment'[job'[v].inc[1]])
  BY <1>1, <1>2 DEF ConvergenceInv, WorkersHonest
<1>3. ASSUME NEW w \in Workers, Iterate(w) \/ Fail(w)
      PROVE  WorkerHonest(pc'[w], job'[w], order'[job'[w].inc[1]], payment'[job'[w].inc[1]])
  <2>1. CASE \/ \E e \in Events : PollEvent(w, e)
             \/ \E i \in Incidents : PollRetry(w, i)
             \/ ClaimIncident(w) \/ Lease(w) \/ LeaseRefused(w) \/ DropStale(w)
             \/ InvestigationFails(w) \/ VerificationFails(w) \/ GateBlocks(w)
             \/ ObserveFails(w) \/ Persist(w) \/ Terminate(w) \/ Abort(w) \/ Retry(w)
             \/ Transient(w) \/ MarkEvent(w) \/ Fail(w)
    BY <2>1, UnboundStep
  <2>2. CASE \/ StaleGuard(w) \/ Assemble(w) \/ Investigate(w) \/ Verify(w)
             \/ Recheck(w) \/ Observe(w)
    BY <1>1, <2>2, ReadingStep
  <2>3. CASE \/ Commit(w) \/ GateAllows(w) \/ StartActuating(w) \/ DispatchRepair(w)
             \/ DispatchRefund(w) \/ RecordOutcome(w) \/ StartReobserving(w)
    BY <1>1, <2>3, ChosenStep
  <2>4. QED
    BY <1>3, <2>1, <2>2, <2>3 DEF Iterate
<1>4. ASSUME NEW v \in Workers
      PROVE  WorkerHonest(pc'[v], job'[v], order'[job'[v].inc[1]], payment'[job'[v].inc[1]])
  <2>1. CASE \E w \in Workers : Iterate(w) \/ Fail(w)
    BY <1>2, <1>3, <2>1, OthersKeep, TypeParts
  <2>2. CASE UNCHANGED workerVars
    BY <1>2, <2>2 DEF workerVars
  <2>3. QED
    BY <2>1, <2>2
       DEF Next, Operator, Tick, KillSwitch, Environment, Untouched, Publish,
           RecoverStale, WorldStep, Ingest, RequestLands
<1>5. QED
  BY <1>4 DEF WorkersHonest, Subject

LEMMA ConvergenceStep ==
  ASSUME TypeOK, ActingOK, ClosedWorld, ConvergenceInv, Next
  PROVE  ConvergenceInv'
<1>1. WorldDrifts /\ RefundsOfCancelled'
  BY WorldStepDrifts
<1>2. ObsHonest'
  BY <1>1, ObsStepHonest
<1>3. ResolvedAsExpected'
  <2> SUFFICES ASSUME NEW i \in Incidents, state'[i] = "RESOLVED"
               PROVE  AsExpected(Expected[i[1]], order'[i[1]], payment'[i[1]])
    BY DEF ResolvedAsExpected
  <2>1. AsExpected(Expected[i[1]], order[i[1]], payment[i[1]])
    <3>1. CASE state[i] = "RESOLVED"
      BY <3>1 DEF ConvergenceInv, ResolvedAsExpected
    <3>2. CASE state[i] # "RESOLVED"
      <4>1. PICK w \in Workers : Inc(w) = i /\ Resolving(pc[w], job[w])
        BY <3>2, ResolvedBy
      <4>2. QED
        BY <4>1 DEF ConvergenceInv, WorkersHonest, WorkerHonest, Inc, Subject
    <3>3. QED
      BY <3>1, <3>2
  <2>2. Drift(order[i[1]], payment[i[1]], order'[i[1]], payment'[i[1]])
    BY <1>1, SubjectType DEF WorldDrifts
  <2>3. QED
    BY <2>1, <2>2, DriftKeeps
<1>4. WorkersHonest'
  BY <1>1, WorkersStepHonest
<1>5. QED
  BY <1>1, <1>2, <1>3, <1>4 DEF ConvergenceInv

LEMMA ConvergenceInit == Init => ConvergenceInv
<1> SUFFICES ASSUME Init PROVE ConvergenceInv
  OBVIOUS
<1>1. TypeOK /\ obs = [s \in Subjects |-> Ingested(s)]
  BY InitialTypes DEF Init
<1>2. ObsHonest
  BY <1>1, ReadingsHonest DEF ObsHonest
<1>3. RefundsOfCancelled
  BY DEF Init, RefundsOfCancelled
<1>4. ResolvedAsExpected
  BY DEF Init, StoreInit, ResolvedAsExpected
<1>5. WorkersHonest
  <2>1. \A w \in Workers : pc[w] \in Unbound
    BY DEF Init, Unbound
  <2>2. QED
    BY <2>1, UnboundHonest DEF WorkersHonest
<1>6. QED
  BY <1>2, <1>3, <1>4, <1>5 DEF ConvergenceInv

\* What an expectation means for what would be ingested.
LEMMA ExpectedMatches ==
  ASSUME NEW s \in Subjects, AsExpected(Expected[s], order[s], payment[s]),
         NEW p \in Providers
  PROVE  StatusMatches(Expected[s], Ingested(s)[p])
<1>1. Ingested(s)[p] = IF p = "merchant" THEN IngestedMerchant(order[s])
                                        ELSE IngestedPayment(payment[s])
  BY DEF Ingested
<1>2. QED
  BY <1>1 DEF AsExpected, StatusMatches, IngestedMerchant, IngestedPayment

\* In a closed world no incident is resolved whose order and payment are not
\* as expected, whatever a worker reads too early, retries, loses or hands on.
THEOREM ResolvedHasConverged == ClosedWorld => (Spec => []ResolvedMeansConverged)
<1> SUFFICES ASSUME ClosedWorld PROVE Spec => []ResolvedMeansConverged
  OBVIOUS
<1>1. Init => ConvergenceInv
  BY ConvergenceInit
<1>2. TypeOK /\ ActingOK /\ ConvergenceInv /\ [Next]_vars => ConvergenceInv'
  <2>1. CASE UNCHANGED vars
    BY <2>1 DEF vars, storeVars, worldVars, workerVars, ConvergenceInv, ObsHonest,
                RefundsOfCancelled, ResolvedAsExpected, WorkersHonest, Subject
  <2>2. QED
    BY <2>1, ConvergenceStep
<1>3. ConvergenceInv => ResolvedMeansConverged
  BY ExpectedMatches, SubjectType
     DEF ConvergenceInv, ResolvedAsExpected, ResolvedMeansConverged
<1>4. QED
  BY <1>1, <1>2, <1>3, TypeCorrect, PTL DEF Spec
=============================================================================
