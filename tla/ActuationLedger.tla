-------------------------- MODULE ActuationLedger ---------------------------
(***************************************************************************)
(* What the control loop promises about the outside world, whatever its    *)
(* workers, operators and databases do: a mutation is claimed under its    *)
(* idempotency key before it is sent, while automation is enabled, within  *)
(* the budget of its action, never twice, and takes effect at most once.   *)
(***************************************************************************)
EXTENDS Naturals, FiniteSets

CONSTANTS Mutations,  \* idempotency keys <<subject, action>>
          Limit       \* per action: the mutations its budget allows

VARIABLES enabled,    \* the kill switch is off
          claimed,    \* the mutations that have a durable record
          effects     \* per mutation: how often it took effect

ledgerVars == <<enabled, claimed, effects>>

LedgerInit ==
  /\ enabled = TRUE
  /\ claimed = {}
  /\ effects = [k \in Mutations |-> 0]

ClaimMutation(k) ==
  /\ enabled
  /\ k \notin claimed
  /\ Cardinality({c \in claimed : c[2] = k[2]}) < Limit[k[2]]
  /\ claimed' = claimed \union {k}
  /\ UNCHANGED <<enabled, effects>>

TakeEffect(k) ==
  /\ k \in claimed
  /\ effects[k] = 0
  /\ effects' = [effects EXCEPT ![k] = 1]
  /\ UNCHANGED <<enabled, claimed>>

Switch ==
  /\ enabled' \in BOOLEAN
  /\ UNCHANGED <<claimed, effects>>

LedgerNext == Switch \/ \E k \in Mutations : ClaimMutation(k) \/ TakeEffect(k)

LedgerSpec == LedgerInit /\ [][LedgerNext]_ledgerVars
=============================================================================
