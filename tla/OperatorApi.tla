---------------------------- MODULE OperatorApi ----------------------------
(***************************************************************************)
(* The operator endpoints (src/src/api/operator.py) as actions on the      *)
(* incident rows and the kill switch.  A request that is answered 404, 409 *)
(* or 422 changes nothing and is not an action.  No endpoint looks at the  *)
(* lease, at the version or at what a worker is doing; the three that move *)
(* an incident clear its lease and leave the version, the retry count and  *)
(* the backoff as they are.  The audit record of an action is not kept.    *)
(***************************************************************************)
EXTENDS GovernanceGate

Move(i, s) ==
  /\ state[i] # "NONE"
  /\ TerminateIncident(i, s)

\* retry_incident.
OperatorRetry(i) ==
  /\ state[i] \in Escalated
  /\ Move(i, "INVESTIGATING")

\* resolve_incident.
OperatorResolve(i) ==
  /\ state[i] # "RESOLVED"
  /\ Move(i, "RESOLVED")

\* escalate_incident.
OperatorEscalate(i) == Move(i, "ESCALATED_UNKNOWN")

\* pause_automation and resume_automation: the compare-and-swap on the version
\* of the control-plane row succeeds.
SetAutomation(s) ==
  /\ automation' = s
  /\ UNCHANGED <<countUsed, monetaryUsed, actuation>>
=============================================================================
