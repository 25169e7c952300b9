-------------------------- MODULE GovernanceGate ---------------------------
(***************************************************************************)
(* GovernanceGate.evaluate_and_claim (src/src/engine/governance_gate.py):  *)
(* one transaction that reads the kill switch and the budget under row     *)
(* locks, consumes the budget, moves the incident to ACTUATION_PENDING by  *)
(* compare-and-swap on its version and inserts the actuation record whose  *)
(* idempotency key is unique.  Whatever is not ALLOWED rolls back.         *)
(***************************************************************************)
EXTENDS IncidentStore, RecoveryPolicy

CONSTANTS CountLimit, MonetaryLimit, \* per action: the rows budget_<action>
          Amount                     \* per subject: the amount of its payment

VARIABLES automation,                \* the control-plane row GLOBAL
          countUsed, monetaryUsed,   \* per action
          actuation                  \* per idempotency key: state of its record

gateVars == <<automation, countUsed, monetaryUsed, actuation>>

Subjects == {i[1] : i \in Incidents}

\* generate_idempotency_key hashes subject, action, target and payload, and a
\* subject and an action determine the target and the payload.  The
\* discrepancy reason is not part of the key.
Keys == Subjects \X Actions
Key(i, a) == <<i[1], a>>

Outcomes == {"SUCCESS", "REJECTED", "TIMEOUT_UNKNOWN"}
ActuationState == {"NONE", "PENDING"} \union Outcomes

ASSUME BudgetAssumption ==
  /\ CountLimit \in [Actions -> Nat]
  /\ MonetaryLimit \in [Actions -> Nat]
  /\ Amount \in [Subjects -> Nat]

GateTypeOK ==
  /\ automation \in {"ENABLED", "PAUSED"}
  /\ countUsed \in [Actions -> Nat]
  /\ monetaryUsed \in [Actions -> Nat]
  /\ actuation \in [Keys -> ActuationState]

GateInit ==
  /\ automation = "ENABLED"
  /\ countUsed = [a \in Actions |-> 0]
  /\ monetaryUsed = [a \in Actions |-> 0]
  /\ actuation = [k \in Keys |-> "NONE"]

----------------------------------------------------------------------------
\* Mutant of CanConsume: the amount of the claim is forgotten.
CanConsumeMore(a, amount) ==
  /\ countUsed[a] + 1 <= CountLimit[a]
  /\ monetaryUsed[a] <= MonetaryLimit[a]

\* ActionBudget.can_consume.
CanConsume(a, amount) ==
  /\ countUsed[a] + 1 <= CountLimit[a]
  /\ monetaryUsed[a] + amount <= MonetaryLimit[a]

\* Mutants of GateDecision: the key is not unique, the kill switch is not read.
GateIgnoresKey(i, a, v) ==
  CASE automation # "ENABLED"            -> "BLOCKED_BY_KILL_SWITCH"
    [] /\ automation = "ENABLED"
       /\ ~CanConsume(a, Amount[i[1]])   -> "BLOCKED_BY_BUDGET"
    [] OTHER -> IF version[i] # v THEN "CLAIM_FAILED" ELSE "ALLOWED"

GateIgnoresSwitch(i, a, v) ==
  CASE ~CanConsume(a, Amount[i[1]])      -> "BLOCKED_BY_BUDGET"
    [] OTHER -> IF version[i] # v \/ actuation[Key(i, a)] # "NONE"
                THEN "CLAIM_FAILED" ELSE "ALLOWED"

\* The decision, in the order the transaction takes it; v is the version the
\* worker read when it leased the incident.
GateDecision(i, a, v) ==
  CASE automation # "ENABLED"            -> "BLOCKED_BY_KILL_SWITCH"
    [] /\ automation = "ENABLED"
       /\ ~CanConsume(a, Amount[i[1]])   -> "BLOCKED_BY_BUDGET"
    [] /\ automation = "ENABLED"
       /\ CanConsume(a, Amount[i[1]])
       /\ \/ version[i] # v
          \/ actuation[Key(i, a)] # "NONE" -> "CLAIM_FAILED"
    [] OTHER                             -> "ALLOWED"

\* The commit of an ALLOWED claim.  The state is overwritten whatever it is,
\* and the lease is left alone.
Claim(i, a) ==
  /\ state' = [state EXCEPT ![i] = "ACTUATION_PENDING"]
  /\ version' = [version EXCEPT ![i] = @ + 1]
  /\ countUsed' = [countUsed EXCEPT ![a] = @ + 1]
  /\ monetaryUsed' = [monetaryUsed EXCEPT ![a] = @ + Amount[i[1]]]
  /\ actuation' = [actuation EXCEPT ![Key(i, a)] = "PENDING"]
  /\ UNCHANGED <<automation, leaseVars, backoff, retries>>
=============================================================================
