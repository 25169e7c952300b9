--------------------------- MODULE IncidentStore ---------------------------
(***************************************************************************)
(* PostgresActiveIncidentRepository (src/src/storage/postgres_substrate.py)*)
(* : the incident rows, and each repository method as one action, the one  *)
(* transaction it runs.  A method that raises or returns None/False leaves *)
(* the rows unchanged; what the caller does then is the caller's.          *)
(*                                                                         *)
(* Time is abstracted to what the queries compare: leaseLive[i] says       *)
(* lease_expires_at is set and not yet past, backoff[i] that next_retry_at *)
(* is still in the future.  Both fall with the passing of time at any      *)
(* moment (LeaseExpires, BackoffElapses).  The hypothesis payload is not   *)
(* kept: it is set exactly when the state becomes VERIFYING.               *)
(***************************************************************************)
EXTENDS Naturals, IncidentLifecycle

CONSTANTS Incidents,   \* primary keys <<active_subject, discrepancy_reason>>
          Workers,     \* worker ids
          NoWorker     \* lease_owner IS NULL

ASSUME NoWorkerAssumption == NoWorker \notin Workers

VARIABLES state,       \* "NONE" while the row does not exist
          leaseOwner, leaseLive, backoff, retries, version

leaseVars == <<leaseOwner, leaseLive>>
storeVars == <<state, leaseOwner, leaseLive, backoff, retries, version>>

StoreTypeOK ==
  /\ state \in [Incidents -> IncidentState \union {"NONE"}]
  /\ leaseOwner \in [Incidents -> Workers \union {NoWorker}]
  /\ leaseLive \in [Incidents -> BOOLEAN]
  /\ backoff \in [Incidents -> BOOLEAN]
  /\ retries \in [Incidents -> Nat]
  /\ version \in [Incidents -> Nat]

StoreInit ==
  /\ state = [i \in Incidents |-> "NONE"]
  /\ leaseOwner = [i \in Incidents |-> NoWorker]
  /\ leaseLive = [i \in Incidents |-> FALSE]
  /\ backoff = [i \in Incidents |-> FALSE]
  /\ retries = [i \in Incidents |-> 0]
  /\ version = [i \in Incidents |-> 1]

ClearLease(i) ==
  /\ leaseOwner' = [leaseOwner EXCEPT ![i] = NoWorker]
  /\ leaseLive' = [leaseLive EXCEPT ![i] = FALSE]

GrantLease(w, i) ==
  /\ leaseOwner' = [leaseOwner EXCEPT ![i] = w]
  /\ leaseLive' = [leaseLive EXCEPT ![i] = TRUE]

----------------------------------------------------------------------------
\* try_claim_incident: insert the row, or keep the one that is there.
TryClaimIncident(i) ==
  /\ state' = [state EXCEPT ![i] = IF @ = "NONE" THEN "DETECTED" ELSE @]
  /\ UNCHANGED <<leaseVars, backoff, retries, version>>

\* The three refusals of acquire_lease.
CanLease(w, i) ==
  /\ state[i] \notin Closed \union Escalated
  /\ ~backoff[i]
  /\ ~leaseLive[i] \/ leaseOwner[i] = w

\* The state a row advances to when it is leased.
LeasedState(s) ==
  CASE s \in {"DETECTED", "ACTIVE", "RETRY_PENDING"} -> "INVESTIGATING"
    [] s = "ACTUATION_PENDING"                       -> "ACTUATING"
    [] OTHER                                         -> s

\* acquire_lease.  It changes neither version nor next_retry_at.
AcquireLease(w, i) ==
  /\ CanLease(w, i)
  /\ state' = [state EXCEPT ![i] = LeasedState(@)]
  /\ GrantLease(w, i)
  /\ UNCHANGED <<backoff, retries, version>>

\* Mutant of Matured: the state older code gave to a scheduled retry.
MaturedPending(i) == state[i] = "RETRY_PENDING" /\ ~leaseLive[i] /\ ~backoff[i]

\* The rows acquire_matured_retries selects: INVESTIGATING only.
Matured(i) == state[i] = "INVESTIGATING" /\ ~leaseLive[i] /\ ~backoff[i]

AcquireMaturedRetry(w, i) ==
  /\ Matured(i)
  /\ GrantLease(w, i)
  /\ UNCHANGED <<state, backoff, retries, version>>

\* Mutant of Owns: no filter on the owner.
OwnsAny(w, i) == TRUE

\* The owner filter of update_hypothesis and schedule_retry.
Owns(w, i) == leaseOwner[i] = w

\* update_hypothesis by the lease owner, when the transition is legal.
UpdateHypothesis(w, i) ==
  /\ Owns(w, i)
  /\ CanTransition(state[i], "VERIFYING")
  /\ state' = [state EXCEPT ![i] = "VERIFYING"]
  /\ UNCHANGED <<leaseVars, backoff, retries, version>>

\* schedule_retry by the lease owner, when the transition is legal.
ScheduleRetry(w, i) ==
  /\ Owns(w, i)
  /\ CanTransition(state[i], "INVESTIGATING")
  /\ state' = [state EXCEPT ![i] = "INVESTIGATING"]
  /\ retries' = [retries EXCEPT ![i] = @ + 1]
  /\ backoff' = [backoff EXCEPT ![i] = TRUE]
  /\ ClearLease(i)
  /\ UNCHANGED version

\* Mutant of TerminateIncident: the lease is not cleared.
TerminateKeepingLease(i, s) ==
  /\ CanTransition(state[i], s)
  /\ state' = [state EXCEPT ![i] = s]
  /\ UNCHANGED <<leaseVars, backoff, retries, version>>

\* terminate_incident: no filter on owner or version.
TerminateIncident(i, s) ==
  /\ CanTransition(state[i], s)
  /\ state' = [state EXCEPT ![i] = s]
  /\ ClearLease(i)
  /\ UNCHANGED <<backoff, retries, version>>

\* Mutant of CommitVerified: without the guard against going backwards.
CommitBackwards(i) ==
  /\ state' = [state EXCEPT ![i] = "ACTIONABLE"]
  /\ UNCHANGED <<leaseVars, backoff, retries, version>>

\* The incident part of commit_verification_success: never backwards, no
\* owner filter, the lease is kept.  A leased row is never DETECTED again, so
\* the assertion it makes there cannot fail.
CommitVerified(i) ==
  /\ state' = [state EXCEPT ![i] =
                 IF @ \in {"INVESTIGATING", "VERIFYING"} THEN "ACTIONABLE" ELSE @]
  /\ UNCHANGED <<leaseVars, backoff, retries, version>>

\* transition_to_actuating and transition_to_reobserving.
TransitionTo(i, s) ==
  /\ CanTransition(state[i], s)
  /\ state' = [state EXCEPT ![i] = s]
  /\ UNCHANGED <<leaseVars, backoff, retries, version>>

----------------------------------------------------------------------------
\* The clock passes lease_expires_at.
LeaseExpires(i) ==
  /\ leaseLive[i]
  /\ leaseLive' = [leaseLive EXCEPT ![i] = FALSE]
  /\ UNCHANGED <<state, leaseOwner, backoff, retries, version>>

\* The clock passes next_retry_at.
BackoffElapses(i) ==
  /\ backoff[i]
  /\ backoff' = [backoff EXCEPT ![i] = FALSE]
  /\ UNCHANGED <<state, leaseVars, retries, version>>
=============================================================================
