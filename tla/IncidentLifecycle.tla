------------------------- MODULE IncidentLifecycle -------------------------
(***************************************************************************)
(* The incident state machine of src/src/domain/investigation/lifecycle.py *)
(* as a constant-level table.  Every repository call that changes the      *)
(* state of an incident first asserts that the change is in this table;    *)
(* the Governance Gate is the one writer that does not (GovernanceGate).   *)
(***************************************************************************)

\* Escalations: the states whose value starts with "ESCALATED".
Escalated ==
  { "ESCALATED", "ESCALATED_UNKNOWN", "ESCALATED_PAUSED_BY_KILL_SWITCH",
    "ESCALATED_BUDGET_EXHAUSTED", "ESCALATED_POLICY_BLOCKED",
    "ESCALATED_MISSING_EVIDENCE", "ESCALATED_MUTATION_FAILED",
    "ESCALATED_CONVERGENCE_FAILED" }

Closed == { "RESOLVED", "COMPLETED" }

IncidentState ==
  { "ACTIVE", "RETRY_PENDING", "DETECTED", "INVESTIGATING", "VERIFYING",
    "ACTIONABLE", "ACTUATION_PENDING", "ACTUATING", "REOBSERVING" }
  \union Escalated \union Closed

\* VALID_TRANSITIONS.
ValidTransitions(s) ==
  CASE s = "ACTIVE"            -> {"DETECTED", "INVESTIGATING"}
    [] s = "RETRY_PENDING"     -> {"INVESTIGATING"}
    [] s = "DETECTED"          -> {"INVESTIGATING", "ESCALATED_UNKNOWN"}
    [] s = "INVESTIGATING"     -> {"VERIFYING", "ACTIONABLE",
                                   "ESCALATED_MISSING_EVIDENCE",
                                   "ESCALATED_UNKNOWN"}
    [] s = "VERIFYING"         -> {"ACTIONABLE", "INVESTIGATING",
                                   "ESCALATED_MISSING_EVIDENCE",
                                   "ESCALATED_UNKNOWN"}
    [] s = "ACTIONABLE"        -> {"ACTUATION_PENDING", "ACTUATING", "RESOLVED",
                                   "ESCALATED_PAUSED_BY_KILL_SWITCH",
                                   "ESCALATED_BUDGET_EXHAUSTED",
                                   "ESCALATED_POLICY_BLOCKED",
                                   "ESCALATED_UNKNOWN"}
    [] s = "ACTUATION_PENDING" -> {"ACTUATING", "ESCALATED_MUTATION_FAILED",
                                   "ESCALATED_UNKNOWN"}
    [] s = "ACTUATING"         -> {"REOBSERVING", "ESCALATED_MUTATION_FAILED",
                                   "ESCALATED_UNKNOWN"}
    [] s = "REOBSERVING"       -> {"RESOLVED", "ESCALATED_CONVERGENCE_FAILED",
                                   "ESCALATED_UNKNOWN"}
    [] s \in {"ESCALATED_PAUSED_BY_KILL_SWITCH", "ESCALATED_BUDGET_EXHAUSTED"}
                               -> {"ACTIONABLE", "RESOLVED"}
    [] s = "ESCALATED_MISSING_EVIDENCE"
                               -> {"INVESTIGATING", "RESOLVED"}
    [] s = "ESCALATED_MUTATION_FAILED"
                               -> {"ACTUATION_PENDING", "RESOLVED"}
    [] s = "ESCALATED_CONVERGENCE_FAILED"
                               -> {"REOBSERVING", "RESOLVED"}
    [] s \in {"ESCALATED_POLICY_BLOCKED", "ESCALATED_UNKNOWN", "ESCALATED"}
                               -> {"ACTIONABLE", "INVESTIGATING", "RESOLVED"}
    [] OTHER                   -> {}

\* assert_valid_transition returns; a self-transition always does.
CanTransition(s, t) == s = t \/ t \in ValidTransitions(s)
=============================================================================
