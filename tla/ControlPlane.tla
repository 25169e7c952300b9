--------------------------- MODULE ControlPlane ---------------------------
(***************************************************************************)
(* The kill switch as the database sees it: operators read and rewrite the *)
(* row GLOBAL in separate transactions (src/src/api/operator.py and        *)
(* api/governance.py over storage/postgres_governance.py) while gates read *)
(* it under a row lock and claim (engine/governance_gate.py).  The gate of *)
(* module GovernanceGate is one atomic step and its switch one value; this *)
(* module shows when that is right, and that it is not while no migration  *)
(* or update has made the row.                                             *)
(***************************************************************************)
EXTENDS Naturals

CONSTANTS Operators, Gates,
          InitialRows,     \* the row at the start: NoRow, or one that was seeded
          MaxVersion,      \* bound of the model: updates of the row
          NoRow, Nobody

States == {"ENABLED", "PAUSED"}

\* SubstrateControlPlaneStateRecord.
Row == [automation : States, updatedBy : Operators \union {"SYSTEM"},
        version : Nat \ {0}]

ASSUME ControlPlaneAssumption ==
  /\ InitialRows \subseteq Row \union {NoRow}
  /\ NoRow \notin Row
  /\ Nobody \notin Gates

VARIABLES
  row,          \* the row GLOBAL, or NoRow
  lock,         \* the gate whose transaction holds the row lock, or Nobody
  opPc, seen, wish, \* per operator: step, the row it read, the state it wants
  gatePc, found, \* per gate: step, the row its transaction read
  claims        \* actuation claims committed: a toggle, so that each one shows

opVars == <<opPc, seen, wish>>
gateVars == <<lock, gatePc, found>>
vars == <<row, opVars, gateVars, claims>>

\* ControlPlaneState(): what get_control_plane_state answers without a row.
Default == [automation |-> "ENABLED", updatedBy |-> "SYSTEM", version |-> 1]
StateOf(r) == IF r = NoRow THEN Default ELSE r

TypeOK ==
  /\ row \in Row \union {NoRow}
  /\ lock \in Gates \union {Nobody}
  /\ opPc \in [Operators -> {"idle", "got", "insert", "update"}]
  /\ seen \in [Operators -> Row \union {NoRow}]
  /\ wish \in [Operators -> States]
  /\ gatePc \in [Gates -> {"idle", "claim"}]
  /\ found \in [Gates -> Row \union {NoRow}]
  /\ claims \in BOOLEAN

Init ==
  /\ row \in InitialRows
  /\ lock = Nobody
  /\ opPc = [o \in Operators |-> "idle"]
  /\ seen = [o \in Operators |-> NoRow]
  /\ wish = [o \in Operators |-> "ENABLED"]
  /\ gatePc = [g \in Gates |-> "idle"]
  /\ found = [g \in Gates |-> NoRow]
  /\ claims = FALSE

----------------------------------------------------------------------------
(* pause_automation, resume_automation and update_control_plane.           *)

\* get_control_plane_state, in a transaction of its own.
Get(o) ==
  /\ opPc[o] = "idle"
  /\ seen' = [seen EXCEPT ![o] = row]
  /\ \E s \in States : wish' = [wish EXCEPT ![o] = s]
  /\ opPc' = [opPc EXCEPT ![o] = "got"]
  /\ UNCHANGED <<row, gateVars, claims>>

\* The version the operator sends back.
BaseVersion(o) == StateOf(seen[o]).version

\* update_control_plane_state_occ up to the write: it reads the row again and
\* gives up (409) when the version differs, or when there is no row and the
\* version is not that of the default.
Look(o) ==
  /\ opPc[o] = "got"
  /\ opPc' = [opPc EXCEPT ![o] =
       CASE row = NoRow /\ BaseVersion(o) = 1              -> "insert"
         [] row # NoRow /\ row.version = BaseVersion(o)    -> "update"
         [] OTHER                                           -> "idle"]
  /\ UNCHANGED <<row, seen, wish, gateVars, claims>>

\* Mutant of Written: the version is counted from zero.
WrittenFromZero(o, v) == [automation |-> wish[o], updatedBy |-> o, version |-> v - 1]

Written(o, v) == [automation |-> wish[o], updatedBy |-> o, version |-> v]

\* The INSERT keeps version 1; the primary key refuses a second one (409).
Insert(o) ==
  /\ opPc[o] = "insert"
  /\ row' = IF row = NoRow THEN Written(o, BaseVersion(o)) ELSE row
  /\ opPc' = [opPc EXCEPT ![o] = "idle"]
  /\ UNCHANGED <<seen, wish, gateVars, claims>>

\* Mutant of Update: the version is compared when the row is read, not again
\* by the UPDATE.
UpdateUnchecked(o) ==
  /\ opPc[o] = "update"
  /\ lock = Nobody
  /\ BaseVersion(o) < MaxVersion
  /\ row' = Written(o, BaseVersion(o) + 1)
  /\ opPc' = [opPc EXCEPT ![o] = "idle"]
  /\ UNCHANGED <<seen, wish, gateVars, claims>>

\* UPDATE ... WHERE version = the version read: waits for the row lock, and
\* changes nothing (409) when another update was first.
Update(o) ==
  /\ opPc[o] = "update"
  /\ lock = Nobody
  /\ BaseVersion(o) < MaxVersion
  /\ row' = IF row.version = BaseVersion(o)
            THEN Written(o, BaseVersion(o) + 1) ELSE row
  /\ opPc' = [opPc EXCEPT ![o] = "idle"]
  /\ UNCHANGED <<seen, wish, gateVars, claims>>

----------------------------------------------------------------------------
(* GovernanceGate.evaluate_and_claim.                                      *)

\* Mutant of ReadSwitch: the row is read without FOR UPDATE.
ReadSwitchUnlocked(g) ==
  /\ gatePc[g] = "idle"
  /\ lock = Nobody
  /\ gatePc' = [gatePc EXCEPT ![g] =
       IF StateOf(row).automation = "ENABLED" THEN "claim" ELSE "idle"]
  /\ found' = [found EXCEPT ![g] = row]
  /\ UNCHANGED <<row, lock, opVars, claims>>

\* SELECT ... FOR UPDATE: the lock is on a row, so without one there is none.
\* PAUSED ends the transaction; ENABLED and a missing row go on.
ReadSwitch(g) ==
  /\ gatePc[g] = "idle"
  /\ lock = Nobody
  /\ gatePc' = [gatePc EXCEPT ![g] =
       IF StateOf(row).automation = "ENABLED" THEN "claim" ELSE "idle"]
  /\ lock' = IF row # NoRow /\ row.automation = "ENABLED" THEN g ELSE Nobody
  /\ found' = [found EXCEPT ![g] = row]
  /\ UNCHANGED <<row, opVars, claims>>

\* The transaction commits its claim, or rolls back for the budget, the
\* version or the key of the incident (module GovernanceGate says when).
EndGate(g) ==
  /\ gatePc[g] = "claim"
  /\ gatePc' = [gatePc EXCEPT ![g] = "idle"]
  /\ lock' = IF lock = g THEN Nobody ELSE lock
  /\ claims' \in {claims, ~claims}
  /\ UNCHANGED <<row, opVars, found>>

----------------------------------------------------------------------------
Next ==
  \/ \E o \in Operators : Get(o) \/ Look(o) \/ Insert(o) \/ Update(o)
  \/ \E g \in Gates : ReadSwitch(g) \/ EndGate(g)

Spec == Init /\ [][Next]_vars

----------------------------------------------------------------------------
Writes(o) == row' # row /\ opPc[o] \in {"insert", "update"} /\ opPc'[o] = "idle"

\* Optimistic concurrency control (src/src/api/governance.py:42, "Uses OCC --
\* if a concurrent update races, returns 409"): an operator that changes the
\* switch replaces exactly the row it read, never a pause it has not seen.
NoLostUpdate == [][\A o \in Operators : Writes(o) => row = seen[o]]_vars

\* The same for operators that found a row to read.
NoLostUpdateOfARow ==
  [][\A o \in Operators : Writes(o) /\ seen[o] # NoRow => row = seen[o]]_vars

Claims(g) == claims' # claims /\ gatePc[g] = "claim" /\ gatePc'[g] = "idle"

\* "New actuations will be blocked at the Governance Gate" (src/src/api/
\* operator.py:205): a gate that found the row commits no claim while the row
\* says PAUSED, however the pause and the gate's transaction interleave.
NoClaimWhilePaused ==
  [][\A g \in Gates : Claims(g) /\ found[g] # NoRow => row.automation = "ENABLED"]_vars
=============================================================================
