------------------------ MODULE ControlPlaneProofs ------------------------
(***************************************************************************)
(* For any operators, gates, initial rows and bound of the versions: what  *)
(* the version column and the row lock of the kill switch guarantee.       *)
(***************************************************************************)
EXTENDS ControlPlane, TLAPS

\* A version names a row: who read the current version read the current row.
VersionsNameRows ==
  \A o \in Operators : seen[o] # NoRow =>
    /\ row # NoRow
    /\ seen[o].version <= row.version
    /\ seen[o].version = row.version => seen[o] = row

\* Nobody updates a row that is not there.
UpdatesFindARow == \A o \in Operators : opPc[o] = "update" => row # NoRow

\* A gate on its way to a claim holds the lock on the row it read.
ClaimantsHoldTheLock ==
  \A g \in Gates : gatePc[g] = "claim" /\ found[g] # NoRow =>
    /\ lock = g
    /\ row = found[g]
    /\ row.automation = "ENABLED"

IInv == TypeOK /\ VersionsNameRows /\ UpdatesFindARow /\ ClaimantsHoldTheLock

----------------------------------------------------------------------------
\* What StateOf answers is a row.
LEMMA StateOfType ==
  ASSUME NEW r \in Row \union {NoRow}
  PROVE  /\ StateOf(r) \in Row
         /\ StateOf(r).version \in Nat \ {0}
         /\ StateOf(r).automation \in States
BY DEF StateOf, Default, Row, States

\* What an operator writes is a row.
LEMMA WrittenType ==
  ASSUME TypeOK, NEW o \in Operators, NEW v \in Nat \ {0}
  PROVE  /\ Written(o, v) \in Row
         /\ Written(o, v).version = v
BY DEF TypeOK, Written, Row, States

LEMMA InitIInv == Init => IInv
<1> SUFFICES ASSUME Init PROVE IInv
  OBVIOUS
<1>1. TypeOK
  BY ControlPlaneAssumption DEF Init, TypeOK, States, Row
<1>2. VersionsNameRows /\ UpdatesFindARow /\ ClaimantsHoldTheLock
  BY DEF Init, VersionsNameRows, UpdatesFindARow, ClaimantsHoldTheLock
<1> QED
  BY <1>1, <1>2 DEF IInv

----------------------------------------------------------------------------
\* The invariant, one action at a time.

LEMMA GetIInv == ASSUME IInv, NEW o \in Operators, Get(o) PROVE IInv'
<1>1. TypeOK'
  BY DEF IInv, TypeOK, Get, States, gateVars
<1>2. VersionsNameRows'
  BY DEF IInv, TypeOK, VersionsNameRows, Get, Row
<1>3. UpdatesFindARow'
  BY DEF IInv, TypeOK, UpdatesFindARow, Get
<1>4. ClaimantsHoldTheLock'
  BY DEF IInv, ClaimantsHoldTheLock, Get, gateVars
<1> QED
  BY <1>1, <1>2, <1>3, <1>4 DEF IInv

LEMMA LookIInv == ASSUME IInv, NEW o \in Operators, Look(o) PROVE IInv'
<1> DEFINE next == CASE row = NoRow /\ BaseVersion(o) = 1           -> "insert"
                     [] row # NoRow /\ row.version = BaseVersion(o) -> "update"
                     [] OTHER                                       -> "idle"
<1>1. next \in {"idle", "insert", "update"} /\ (next = "update" => row # NoRow)
  OBVIOUS
<1>2. opPc' = [opPc EXCEPT ![o] = next] /\ UNCHANGED <<row, seen, wish, gateVars, claims>>
  BY DEF Look
<1> HIDE DEF next
<1>3. TypeOK'
  BY <1>1, <1>2 DEF IInv, TypeOK, gateVars
<1>4. VersionsNameRows'
  BY <1>2 DEF IInv, VersionsNameRows
<1>5. UpdatesFindARow'
  BY <1>1, <1>2 DEF IInv, TypeOK, UpdatesFindARow
<1>6. ClaimantsHoldTheLock'
  BY <1>2 DEF IInv, ClaimantsHoldTheLock, gateVars
<1> QED
  BY <1>3, <1>4, <1>5, <1>6 DEF IInv

LEMMA InsertIInv == ASSUME IInv, NEW o \in Operators, Insert(o) PROVE IInv'
<1>1. BaseVersion(o) \in Nat \ {0}
  BY StateOfType DEF IInv, TypeOK, BaseVersion
<1>2. Written(o, BaseVersion(o)) \in Row
  BY <1>1, WrittenType DEF IInv
<1>3. TypeOK'
  BY <1>2 DEF IInv, TypeOK, Insert, gateVars
<1>4. VersionsNameRows'
  BY DEF IInv, VersionsNameRows, Insert
<1>5. UpdatesFindARow'
  BY <1>2, ControlPlaneAssumption DEF IInv, TypeOK, UpdatesFindARow, Insert
<1>6. ClaimantsHoldTheLock'
  BY DEF IInv, ClaimantsHoldTheLock, Insert, gateVars
<1> QED
  BY <1>3, <1>4, <1>5, <1>6 DEF IInv

LEMMA UpdateIInv == ASSUME IInv, NEW o \in Operators, Update(o) PROVE IInv'
<1> DEFINE new == Written(o, BaseVersion(o) + 1)
<1>1. BaseVersion(o) \in Nat \ {0} /\ row \in Row
  BY StateOfType DEF IInv, TypeOK, BaseVersion, UpdatesFindARow, Update
<1>2. new \in Row /\ new.version = BaseVersion(o) + 1
  BY <1>1, WrittenType DEF IInv
<1>3. row' = IF row.version = BaseVersion(o) THEN new ELSE row
  BY DEF Update
<1> HIDE DEF new
<1>4. TypeOK'
  BY <1>1, <1>2, <1>3 DEF IInv, TypeOK, Update, gateVars
<1>5. VersionsNameRows'
  <2> SUFFICES ASSUME NEW p \in Operators, seen[p] # NoRow
               PROVE  /\ row' # NoRow
                      /\ seen[p].version <= row'.version
                      /\ seen[p].version = row'.version => seen[p] = row'
    BY DEF VersionsNameRows, Update
  <2>1. /\ seen[p] \in Row
        /\ seen[p].version <= row.version
        /\ seen[p].version = row.version => seen[p] = row
    BY DEF IInv, TypeOK, VersionsNameRows
  <2>2. seen[p].version \in Nat /\ row.version \in Nat
    BY <1>1, <2>1 DEF Row
  <2> QED
    BY <1>1, <1>2, <1>3, <2>1, <2>2, ControlPlaneAssumption
<1>6. UpdatesFindARow'
  BY <1>1, <1>2, <1>3, ControlPlaneAssumption DEF UpdatesFindARow
<1>7. ClaimantsHoldTheLock'
  BY ControlPlaneAssumption DEF IInv, ClaimantsHoldTheLock, Update, gateVars
<1> QED
  BY <1>4, <1>5, <1>6, <1>7 DEF IInv

LEMMA ReadSwitchIInv == ASSUME IInv, NEW g \in Gates, ReadSwitch(g) PROVE IInv'
<1>1. TypeOK'
  BY DEF IInv, TypeOK, ReadSwitch, opVars
<1>2. VersionsNameRows' /\ UpdatesFindARow'
  BY DEF IInv, VersionsNameRows, UpdatesFindARow, ReadSwitch, opVars
<1>3. ClaimantsHoldTheLock'
  <2> SUFFICES ASSUME NEW h \in Gates, gatePc'[h] = "claim", found'[h] # NoRow
               PROVE  lock' = h /\ row' = found'[h] /\ row'.automation = "ENABLED"
    BY DEF ClaimantsHoldTheLock
  <2>1. h = g
    BY ControlPlaneAssumption DEF IInv, TypeOK, ClaimantsHoldTheLock, ReadSwitch
  <2> QED
    BY <2>1 DEF IInv, TypeOK, ReadSwitch, StateOf
<1> QED
  BY <1>1, <1>2, <1>3 DEF IInv

LEMMA EndGateIInv == ASSUME IInv, NEW g \in Gates, EndGate(g) PROVE IInv'
<1>1. TypeOK'
  BY DEF IInv, TypeOK, EndGate, opVars
<1>2. VersionsNameRows' /\ UpdatesFindARow'
  BY DEF IInv, VersionsNameRows, UpdatesFindARow, EndGate, opVars
<1>3. ClaimantsHoldTheLock'
  BY ControlPlaneAssumption DEF IInv, TypeOK, ClaimantsHoldTheLock, EndGate
<1> QED
  BY <1>1, <1>2, <1>3 DEF IInv

LEMMA NextIInv == IInv /\ [Next]_vars => IInv'
<1> SUFFICES ASSUME IInv, [Next]_vars PROVE IInv'
  OBVIOUS
<1>1. ASSUME NEW o \in Operators, Get(o) PROVE IInv'
  BY <1>1, GetIInv
<1>2. ASSUME NEW o \in Operators, Look(o) PROVE IInv'
  BY <1>2, LookIInv
<1>3. ASSUME NEW o \in Operators, Insert(o) PROVE IInv'
  BY <1>3, InsertIInv
<1>4. ASSUME NEW o \in Operators, Update(o) PROVE IInv'
  BY <1>4, UpdateIInv
<1>5. ASSUME NEW g \in Gates, ReadSwitch(g) PROVE IInv'
  BY <1>5, ReadSwitchIInv
<1>6. ASSUME NEW g \in Gates, EndGate(g) PROVE IInv'
  BY <1>6, EndGateIInv
<1>7. CASE UNCHANGED vars
  BY <1>7 DEF IInv, TypeOK, VersionsNameRows, UpdatesFindARow,
     ClaimantsHoldTheLock, vars, opVars, gateVars
<1> QED
  BY <1>1, <1>2, <1>3, <1>4, <1>5, <1>6, <1>7 DEF Next

\* The types, with what makes the versions and the lock work.
THEOREM ControlPlaneInvariant == Spec => []IInv
BY InitIInv, NextIInv, PTL DEF Spec

\* Types alone.
THEOREM ControlPlaneTypes == Spec => []TypeOK
<1>1. IInv => TypeOK
  BY DEF IInv
<1> QED
  BY <1>1, ControlPlaneInvariant, PTL

----------------------------------------------------------------------------
\* An operator's step that leaves it idle and changes the row is its own.
LEMMA WritersAct ==
  ASSUME IInv, [Next]_vars, NEW o \in Operators, Writes(o)
  PROVE  Insert(o) \/ Update(o)
<1>1. ASSUME NEW p \in Operators, Insert(p) \/ Update(p) PROVE p = o
  BY <1>1 DEF IInv, TypeOK, Insert, Update, Writes
<1>2. ~UNCHANGED row
  BY DEF Writes
<1> QED
  BY <1>1, <1>2 DEF Next, vars, Get, Look, ReadSwitch, EndGate

\* Optimistic concurrency control holds for every operator that found a row:
\* what it replaces is exactly the row it read.
THEOREM NoUpdateOfARowIsLost == Spec => NoLostUpdateOfARow
<1>1. ASSUME IInv, [Next]_vars, NEW o \in Operators, Writes(o), seen[o] # NoRow
      PROVE  row = seen[o]
  <2>1. row # NoRow /\ (seen[o].version = row.version => seen[o] = row)
    BY <1>1 DEF IInv, VersionsNameRows
  <2>2. Update(o)
    BY <1>1, <2>1, WritersAct DEF Insert, Writes
  <2> QED
    BY <1>1, <2>1, <2>2 DEF Update, Writes, BaseVersion, StateOf
<1>2. IInv /\ [Next]_vars
        => [\A o \in Operators : Writes(o) /\ seen[o] # NoRow => row = seen[o]]_vars
  BY <1>1
<1> QED
  BY <1>2, ControlPlaneInvariant, PTL DEF Spec, NoLostUpdateOfARow

\* The kill switch: a gate that read the row claims only while it is ENABLED.
THEOREM PausedMeansNoClaims == Spec => NoClaimWhilePaused
<1>1. IInv /\ [Next]_vars
        => [\A g \in Gates : Claims(g) /\ found[g] # NoRow
                               => row.automation = "ENABLED"]_vars
  BY DEF IInv, ClaimantsHoldTheLock, Claims
<1> QED
  BY <1>1, ControlPlaneInvariant, PTL DEF Spec, NoClaimWhilePaused
=============================================================================
