---------------------- MODULE WebhookIngestionProofs ----------------------
(***************************************************************************)
(* For any webhooks, workers, batch size and any number of expired leases, *)
(* failed transactions and crashes: the canonical rows are right.          *)
(***************************************************************************)
EXTENDS WebhookIngestion, FiniteSetTheorems, TLAPS

\* A worker inside the try block has an observation in hand.
BusyHasOne == \A w \in Workers : pc[w] # "idle" => current[w] \in Ids

IInv == TypeOK /\ BusyHasOne /\ ProcessedIsStored /\ RowMatchesItsEvidence

----------------------------------------------------------------------------
\* Whatever the provider's word is, the kernel sees one of its own.
LEMMA CanonicalType == ASSUME NEW raw PROVE Canonical(raw) \in Statuses
BY DEF Canonical, Statuses

\* The time of an observation is a time, whichever clock it is from.
LEMMA ObservedAtType == ASSUME NEW id \in Ids PROVE ObservedAt(id) \in Nat
<1>1. id[1] \in Webhooks /\ id[2] \in Nat
  BY DEF Ids
<1> QED
  BY <1>1, IngestionAssumption DEF ObservedAt

\* normalize_payload: what it makes of a webhook.
LEMMA NormalisedType ==
  ASSUME NEW id \in Ids
  PROVE  LET new == Normalised(id) IN
         /\ new \in Row
         /\ new # NoRow
         /\ new.evidence = id
         /\ new.at = ObservedAt(id)
         /\ new.status = Canonical(RawStatus[id[1]])
<1>1. id[1] \in Webhooks
  BY DEF Ids
<1>2. Canonical(RawStatus[id[1]]) \in Statuses
  BY CanonicalType
<1>3. Normalised(id) \in Row
  BY <1>1, <1>2, ObservedAtType DEF Normalised, Row
<1>4. NoRow \notin Row
  BY IngestionAssumption DEF Row, Ids, Statuses
<1> QED
  BY <1>3, <1>4 DEF Normalised

\* The upsert: a row stays a row, never moves back in time, keeps its id, and
\* is changed only to the observation's status, time and evidence.
LEMMA UpsertIsMonotone ==
  ASSUME NEW old \in Row \union {NoRow}, NEW new \in Row
  PROVE  LET up == Upsert(old, new) IN
         /\ up \in Row
         /\ up # NoRow
         /\ up.at >= new.at
         /\ old # NoRow => up.id = old.id /\ up.at >= old.at
         /\ old # NoRow /\ up # old => up.at > old.at
         /\ \/ up = old
            \/ up.status = new.status /\ up.at = new.at /\ up.evidence = new.evidence
<1>1. NoRow \notin Row
  BY IngestionAssumption DEF Row, Ids, Statuses
<1>2. CASE old = NoRow
  BY <1>1, <1>2 DEF Upsert, Row
<1>3. CASE old # NoRow /\ old.at < new.at
  <2>1. Upsert(old, new)
          = [old EXCEPT !.status = new.status, !.at = new.at, !.evidence = new.evidence]
    BY <1>3 DEF Upsert
  <2>2. /\ old \in [id : Ids, evidence : Ids, status : Statuses, at : Nat]
        /\ new \in [id : Ids, evidence : Ids, status : Statuses, at : Nat]
    BY <1>3 DEF Row
  <2> DEFINE up == [old EXCEPT !.status = new.status, !.at = new.at,
                               !.evidence = new.evidence]
  <2>3. /\ up.id = old.id /\ up.at = new.at
        /\ up.status = new.status /\ up.evidence = new.evidence
    BY <2>2
  <2>4. up \in Row
    BY <2>2 DEF Row
  <2>5. old.at \in Nat /\ new.at \in Nat
    BY <2>2
  <2> HIDE DEF up
  <2> QED
    BY <1>1, <1>3, <2>1, <2>3, <2>4, <2>5 DEF up
<1>4. CASE old # NoRow /\ ~(old.at < new.at)
  BY <1>1, <1>4 DEF Upsert, Row
<1> QED
  BY <1>2, <1>3, <1>4

LEMMA InitIInv == Init => IInv
BY DEF Init, IInv, TypeOK, BusyHasOne, ProcessedIsStored, RowMatchesItsEvidence,
   PayloadStatus

----------------------------------------------------------------------------
\* Save is the only action that touches rows and evidence.
LEMMA SaveIInv ==
  ASSUME IInv, NEW w \in Workers, Save(w)
  PROVE  /\ IInv'
         /\ \A e \in Entities : row[e] # NoRow /\ row'[e] # row[e] =>
              row'[e] # NoRow /\ row'[e].id = row[e].id /\ row'[e].at > row[e].at
<1> DEFINE id == current[w]
           h == id[1]
           e0 == EntityOf[h]
           new == Normalised(id)
           up == Upsert(row[e0], new)
<1>1. id \in Ids /\ h \in Webhooks /\ e0 \in Entities
  BY IngestionAssumption DEF Save, IInv, BusyHasOne, Ids
<1>2. /\ new \in Row
      /\ new.evidence = id
      /\ new.at = ObservedAt(id)
      /\ new.status = Canonical(RawStatus[h])
  BY <1>1, NormalisedType
<1>3. row[e0] \in Row \union {NoRow}
  BY <1>1 DEF IInv, TypeOK
<1>4. /\ up \in Row
      /\ up # NoRow
      /\ up.at >= new.at
      /\ row[e0] # NoRow => up.id = row[e0].id /\ up.at >= row[e0].at
      /\ row[e0] # NoRow /\ up # row[e0] => up.at > row[e0].at
      /\ \/ up = row[e0]
         \/ up.status = new.status /\ up.at = new.at /\ up.evidence = new.evidence
  BY <1>2, <1>3, UpsertIsMonotone
<1>5. /\ evidence' = evidence \union {id}
      /\ row' = [row EXCEPT ![e0] = up]
      /\ payload' = [payload EXCEPT ![h] = "PROCESSED"]
      /\ pc' = [pc EXCEPT ![w] = "publish"]
      /\ UNCHANGED <<leaseLive, events, reconciled, batch, current, taken, boundVars>>
  BY <1>2 DEF Save
<1> HIDE DEF up, new, h, e0, id
<1>6. TypeOK'
  BY <1>1, <1>4, <1>5 DEF IInv, TypeOK, PayloadStatus, boundVars
<1>7. BusyHasOne'
  BY <1>1, <1>5 DEF IInv, TypeOK, BusyHasOne, id
<1>8. \A e \in Entities : row'[e] = IF e = e0 THEN up ELSE row[e]
  BY <1>5 DEF IInv, TypeOK
<1>9. ProcessedIsStored'
  <2> SUFFICES ASSUME NEW g \in Webhooks, payload'[g] = "PROCESSED"
               PROVE  \E x \in evidence' : /\ x[1] = g /\ row'[EntityOf[g]] # NoRow
                                           /\ row'[EntityOf[g]].at >= ObservedAt(x)
    BY DEF ProcessedIsStored, ObservedAt
  <2>0. EntityOf[g] \in Entities
    BY IngestionAssumption
  <2>1. CASE g = h
    <3>1. id \in evidence' /\ id[1] = g
      BY <1>5, <2>1 DEF h
    <3>2. row'[EntityOf[g]] # NoRow /\ row'[EntityOf[g]].at >= ObservedAt(id)
      BY <1>2, <1>4, <1>8, <2>0, <2>1 DEF e0
    <3> QED
      BY <3>1, <3>2
  <2>2. CASE g # h
    <3>1. PICK x \in evidence :
            x[1] = g /\ row[EntityOf[g]] # NoRow /\ row[EntityOf[g]].at >= ObservedAt(x)
      BY <1>5, <2>2 DEF IInv, TypeOK, ProcessedIsStored
    <3>0. x \in evidence' /\ ObservedAt(x) \in Nat
      BY <1>5, ObservedAtType DEF IInv, TypeOK
    <3>2. CASE EntityOf[g] # e0
      BY <1>8, <2>0, <3>0, <3>1, <3>2
    <3>3. CASE EntityOf[g] = e0
      <4>1. row[e0].at \in Nat /\ up.at \in Nat
        BY <1>3, <1>4, <3>1, <3>3 DEF Row
      <4> QED
        BY <1>1, <1>4, <1>8, <2>0, <3>0, <3>1, <3>3, <4>1
    <3> QED
      BY <3>2, <3>3
  <2> QED
    BY <2>1, <2>2
<1>10. RowMatchesItsEvidence'
  <2> SUFFICES ASSUME NEW e \in Entities, row'[e] # NoRow
               PROVE  /\ row'[e].evidence \in evidence'
                      /\ EntityOf[row'[e].evidence[1]] = e
                      /\ row'[e].status = Canonical(RawStatus[row'[e].evidence[1]])
                      /\ row'[e].at = ObservedAt(row'[e].evidence)
    BY DEF RowMatchesItsEvidence, ObservedAt
  <2>1. CASE row'[e] = row[e]
    BY <1>5, <2>1 DEF IInv, RowMatchesItsEvidence
  <2>2. CASE row'[e] # row[e]
    <3>1. e = e0 /\ row'[e] = up /\ up # row[e0]
      BY <1>8, <2>2
    <3> QED
      BY <1>2, <1>4, <1>5, <3>1 DEF h, e0
  <2> QED
    BY <2>1, <2>2
<1>11. \A e \in Entities : row[e] # NoRow /\ row'[e] # row[e] =>
         row'[e] # NoRow /\ row'[e].id = row[e].id /\ row'[e].at > row[e].at
  BY <1>4, <1>8
<1> QED
  BY <1>6, <1>7, <1>9, <1>10, <1>11 DEF IInv

\* The other actions mark no payload as processed and leave the rows alone.
LEMMA OtherwiseIInv ==
  ASSUME IInv, TypeOK', BusyHasOne', UNCHANGED <<evidence, row>>,
         \A h \in Webhooks : payload'[h] = "PROCESSED" => payload[h] = "PROCESSED"
  PROVE  IInv' /\ UNCHANGED row
BY DEF IInv, ProcessedIsStored, RowMatchesItsEvidence

LEMMA DeliverIInv ==
  ASSUME IInv, NEW h \in Webhooks, Deliver(h) PROVE IInv' /\ UNCHANGED row
<1>1. TypeOK' /\ BusyHasOne'
  BY DEF IInv, TypeOK, BusyHasOne, Deliver, PayloadStatus, workerVars, boundVars
<1> QED
  BY <1>1, OtherwiseIInv DEF Deliver, IInv, TypeOK

LEMMA ClaimIInv ==
  ASSUME IInv, NEW w \in Workers, Claim(w) PROVE IInv' /\ UNCHANGED row
<1>1. TypeOK' /\ BusyHasOne'
  BY DEF IInv, TypeOK, BusyHasOne, Claim, PayloadStatus, boundVars
<1>2. \A h \in Webhooks : payload'[h] = "PROCESSED" => payload[h] = "PROCESSED"
  BY DEF Claim
<1> QED
  BY <1>1, <1>2, OtherwiseIInv DEF Claim

LEMMA TakeIInv ==
  ASSUME IInv, NEW w \in Workers, Take(w) PROVE IInv' /\ UNCHANGED row
<1>1. PICK h \in batch[w] :
        /\ current' = [current EXCEPT ![w] = <<h, taken + 1>>]
        /\ batch' = [batch EXCEPT ![w] = @ \ {h}]
        /\ pc' = [pc EXCEPT ![w] = IF h \in Unparsable THEN "fail" ELSE "save"]
  BY DEF Take
<1>2. h \in Webhooks /\ taken \in Nat
  BY DEF IInv, TypeOK
<1>3. taken' = taken + 1 /\ UNCHANGED <<dbVars, reconciled, boundVars>>
  BY DEF Take
<1>4. TypeOK'
  BY <1>1, <1>2, <1>3 DEF IInv, TypeOK, Ids, dbVars, boundVars
<1>5. BusyHasOne'
  BY <1>1, <1>2 DEF IInv, TypeOK, BusyHasOne, Ids
<1> QED
  BY <1>3, <1>4, <1>5, OtherwiseIInv DEF dbVars

LEMMA PublishIInv ==
  ASSUME IInv, NEW w \in Workers, Publish(w) PROVE IInv' /\ UNCHANGED row
<1>1. current[w] \in Ids
  BY DEF IInv, BusyHasOne, Publish
<1>2. TypeOK' /\ BusyHasOne'
  BY <1>1 DEF IInv, TypeOK, BusyHasOne, Publish, Done, boundVars
<1> QED
  BY <1>2, OtherwiseIInv DEF Publish

LEMMA StepFailsIInv ==
  ASSUME IInv, NEW w \in Workers, StepFails(w) PROVE IInv' /\ UNCHANGED row
<1>1. TypeOK'
  BY DEF IInv, TypeOK, StepFails, dbVars
<1>2. BusyHasOne'
  BY DEF IInv, TypeOK, BusyHasOne, StepFails
<1> QED
  BY <1>1, <1>2, OtherwiseIInv DEF StepFails, dbVars

LEMMA MarkFailedIInv ==
  ASSUME IInv, NEW w \in Workers, MarkFailed(w) PROVE IInv' /\ UNCHANGED row
<1>1. TypeOK' /\ BusyHasOne'
  BY DEF IInv, TypeOK, BusyHasOne, MarkFailed, Done, PayloadStatus, boundVars
<1>2. \A h \in Webhooks : payload'[h] = "PROCESSED" => payload[h] = "PROCESSED"
  BY DEF MarkFailed, IInv, TypeOK
<1> QED
  BY <1>1, <1>2, OtherwiseIInv DEF MarkFailed

LEMMA CrashIInv ==
  ASSUME IInv, NEW w \in Workers, Crash(w) PROVE IInv' /\ UNCHANGED row
<1>1. TypeOK' /\ BusyHasOne'
  BY DEF IInv, TypeOK, BusyHasOne, Crash, Done, dbVars
<1> QED
  BY <1>1, OtherwiseIInv DEF Crash, dbVars

LEMMA ExpireIInv ==
  ASSUME IInv, NEW h \in Webhooks, Expire(h) PROVE IInv' /\ UNCHANGED row
<1>1. TypeOK' /\ BusyHasOne'
  BY DEF IInv, TypeOK, BusyHasOne, Expire, workerVars
<1> QED
  BY <1>1, OtherwiseIInv DEF Expire

LEMMA HandleEventIInv ==
  ASSUME IInv, NEW id \in events, HandleEvent(id) PROVE IInv' /\ UNCHANGED row
<1>1. reconciled' \in [Entities -> Statuses \union {"NONE"}]
  <2>1. \A e \in Entities : row[e] # NoRow => row[e].status \in Statuses
    BY DEF IInv, TypeOK, Row
  <2> QED
    BY <2>1 DEF IInv, TypeOK, HandleEvent
<1>2. TypeOK' /\ BusyHasOne'
  BY <1>1 DEF IInv, TypeOK, BusyHasOne, HandleEvent, workerVars, boundVars
<1> QED
  BY <1>2, OtherwiseIInv DEF HandleEvent

Forward ==
  \A e \in Entities : row[e] # NoRow /\ row'[e] # row[e] =>
    row'[e] # NoRow /\ row'[e].id = row[e].id /\ row'[e].at > row[e].at

LEMMA NextIInv == IInv /\ [Next]_vars => IInv' /\ Forward
<1> SUFFICES ASSUME IInv, [Next]_vars PROVE IInv' /\ Forward
  OBVIOUS
<1>1. ASSUME NEW h \in Webhooks, Deliver(h) \/ Expire(h) PROVE IInv' /\ Forward
  BY <1>1, DeliverIInv, ExpireIInv DEF Forward
<1>2. ASSUME NEW w \in Workers, Work(w) PROVE IInv' /\ Forward
  BY <1>2, ClaimIInv, TakeIInv, SaveIInv, PublishIInv, MarkFailedIInv DEF Forward, Work
<1>3. ASSUME NEW w \in Workers, StepFails(w) \/ Crash(w) PROVE IInv' /\ Forward
  BY <1>3, StepFailsIInv, CrashIInv DEF Forward
<1>4. ASSUME NEW id \in events, HandleEvent(id) PROVE IInv' /\ Forward
  BY <1>4, HandleEventIInv DEF Forward
<1>5. CASE UNCHANGED vars
  BY <1>5 DEF IInv, TypeOK, BusyHasOne, ProcessedIsStored, RowMatchesItsEvidence,
     Forward, vars, dbVars, workerVars, boundVars
<1> QED
  BY <1>1, <1>2, <1>3, <1>4, <1>5 DEF Next

THEOREM IngestionInvariant == Spec => []IInv
BY InitIInv, NextIInv, PTL DEF Spec

\* Types.
THEOREM IngestionTypes == Spec => []TypeOK
<1>1. IInv => TypeOK
  BY DEF IInv
<1> QED
  BY <1>1, IngestionInvariant, PTL

\* A payload is marked PROCESSED only with its observation, or a newer one, in
\* the row of its entity.
THEOREM ProcessedPayloadsAreStored == Spec => []ProcessedIsStored
<1>1. IInv => ProcessedIsStored
  BY DEF IInv
<1> QED
  BY <1>1, IngestionInvariant, PTL

\* Every row is accounted for by stored evidence.
THEOREM RowsMatchTheirEvidence == Spec => []RowMatchesItsEvidence
<1>1. IInv => RowMatchesItsEvidence
  BY DEF IInv
<1> QED
  BY <1>1, IngestionInvariant, PTL

\* Canonical rows only move forward.
THEOREM RowsMoveForward == Spec => StatusNeverRegresses
<1>1. IInv /\ [Next]_vars =>
        [\A e \in Entities : row[e] # NoRow /\ row'[e] # row[e] =>
           /\ row'[e] # NoRow
           /\ row'[e].id = row[e].id
           /\ row'[e].at > row[e].at]_vars
  BY NextIInv DEF Forward
<1> QED
  BY <1>1, IngestionInvariant, PTL DEF Spec, StatusNeverRegresses
----------------------------------------------------------------------------
(* Leases.  How many workers have a payload in hand follows from what its  *)
(* row says: none before it is claimed, and one more than the lease could  *)
(* have expired under only while the lease is live.                        *)

IdleHasNone == \A w \in Workers : pc[w] = "idle" => current[w] = Nothing

Shared(h) ==
  /\ payload[h] \in {"NONE", "PENDING"} => Holders(h) = {}
  /\ payload[h] = "PROCESSING" /\ ~leaseLive[h] => Cardinality(Holders(h)) <= expiries
  /\ Cardinality(Holders(h)) <= 1 + expiries

LeaseInv == IdleHasNone /\ \A h \in Webhooks : Shared(h)

\* Finitely many workers have a payload in hand.
LEMMA HoldersAreFinite ==
  ASSUME NEW h
  PROVE  IsFiniteSet(Holders(h)) /\ Cardinality(Holders(h)) \in Nat
<1>1. Holders(h) \subseteq Workers
  BY DEF Holders
<1> QED
  BY <1>1, IngestionAssumption, FS_Subset, FS_CardinalityType

\* The sets of the workers that have a payload, before and after a step in
\* which nobody gets one.
LEMMA FewerHolders ==
  ASSUME NEW S, NEW T, IsFiniteSet(T), S \subseteq T
  PROVE  IsFiniteSet(S) /\ Cardinality(S) \in Nat /\ Cardinality(T) \in Nat
           /\ Cardinality(S) <= Cardinality(T) /\ (T = {} => S = {})
BY FS_Subset, FS_CardinalityType

\* A step in which no worker gets a payload keeps the relation, if no payload
\* goes back to be processed and no lease ends uncounted.
LEMMA NobodyGetsOne ==
  ASSUME IInv, NEW h \in Webhooks, Shared(h), Holders(h)' \subseteq Holders(h),
         expiries' = expiries,
         payload'[h] \in {"NONE", "PENDING"} => payload[h] \in {"NONE", "PENDING"},
         payload'[h] = "PROCESSING" /\ ~leaseLive'[h]
           => payload[h] = "PROCESSING" /\ ~leaseLive[h]
  PROVE  Shared(h)'
<1>1. /\ Cardinality(Holders(h)') \in Nat /\ Cardinality(Holders(h)) \in Nat
      /\ Cardinality(Holders(h)') <= Cardinality(Holders(h))
      /\ Holders(h) = {} => Holders(h)' = {}
  BY HoldersAreFinite, FewerHolders
<1>2. expiries \in Nat
  BY DEF IInv, TypeOK
<1> QED
  BY <1>1, <1>2 DEF Shared

LEMMA InitLease == Init => LeaseInv
<1> SUFFICES ASSUME Init PROVE LeaseInv
  OBVIOUS
<1>1. ASSUME NEW h \in Webhooks PROVE Holders(h) = {}
  BY DEF Init, Holders, Holds
<1>2. Cardinality({}) = 0
  BY FS_EmptySet
<1> QED
  BY <1>1, <1>2 DEF Init, LeaseInv, IdleHasNone, Shared

LEMMA DeliverLease ==
  ASSUME IInv, LeaseInv, NEW g \in Webhooks, Deliver(g) PROVE LeaseInv'
<1>1. ASSUME NEW h \in Webhooks PROVE Shared(h)'
  <2>1. Holders(h)' = Holders(h)
    BY DEF Deliver, workerVars, Holders, Holds
  <2> QED
    BY <2>1, NobodyGetsOne DEF LeaseInv, Deliver, boundVars, IInv, TypeOK
<1> QED
  BY <1>1 DEF LeaseInv, IdleHasNone, Deliver, workerVars

\* A claim: nobody has a pending payload, and an expired one is in fewer hands
\* than it could be.  The claimant had nothing.
LEMMA ClaimLease ==
  ASSUME IInv, LeaseInv, NEW w \in Workers, Claim(w) PROVE LeaseInv'
<1>1. PICK claimed \in SUBSET {h \in Webhooks : Claimable(h)} :
        /\ payload' = [h \in Webhooks |->
                         IF h \in claimed THEN "PROCESSING" ELSE payload[h]]
        /\ leaseLive' = [h \in Webhooks |-> h \in claimed \/ leaseLive[h]]
        /\ batch' = [batch EXCEPT ![w] = claimed]
  BY DEF Claim
<1>2. /\ batch[w] = {} /\ current[w] = Nothing
      /\ UNCHANGED <<pc, current, expiries>>
  BY DEF Claim, LeaseInv, IdleHasNone, boundVars
<1>3. ASSUME NEW h \in Webhooks PROVE Shared(h)'
  <2>1. \A v \in Workers : batch'[v] = IF v = w THEN claimed ELSE batch[v]
    BY <1>1 DEF IInv, TypeOK
  <2>2. Shared(h) /\ expiries \in Nat
    BY DEF LeaseInv, IInv, TypeOK
  <2>3. CASE h \notin claimed
    <3>1. Holders(h)' \subseteq Holders(h)
      BY <1>2, <2>1, <2>3 DEF Holders, Holds
    <3> QED
      BY <1>1, <1>2, <2>2, <2>3, <3>1, NobodyGetsOne
  <2>4. CASE h \in claimed
    <3>1. Holders(h)' = Holders(h) \union {w} /\ w \notin Holders(h)
      BY <1>2, <2>1, <2>4 DEF Holders, Holds
    <3>2. Cardinality(Holders(h)') = Cardinality(Holders(h)) + 1
      BY <3>1, HoldersAreFinite, FS_AddElement
    <3>3. Cardinality(Holders(h)) <= expiries
      BY <1>1, <2>2, <2>4, FS_EmptySet DEF Claimable, Shared
    <3>4. Cardinality(Holders(h)') <= 1 + expiries
      BY <2>2, <3>2, <3>3, HoldersAreFinite
    <3>5. payload'[h] = "PROCESSING" /\ leaseLive'[h]
      BY <1>1, <2>4
    <3> QED
      BY <1>2, <3>4, <3>5 DEF Shared
  <2> QED
    BY <2>3, <2>4
<1> QED
  BY <1>2, <1>3 DEF LeaseInv, IdleHasNone

\* The payload goes from the batch of the worker into its hand.
LEMMA TakeLease ==
  ASSUME IInv, LeaseInv, NEW w \in Workers, Take(w) PROVE LeaseInv'
<1>1. PICK g \in batch[w] :
        /\ current' = [current EXCEPT ![w] = <<g, taken + 1>>]
        /\ batch' = [batch EXCEPT ![w] = @ \ {g}]
        /\ pc' = [pc EXCEPT ![w] = IF g \in Unparsable THEN "fail" ELSE "save"]
  BY DEF Take
<1>2. current[w] = Nothing /\ UNCHANGED <<payload, leaseLive, expiries>>
  BY DEF Take, LeaseInv, IdleHasNone, dbVars, boundVars
<1>3. ASSUME NEW h \in Webhooks PROVE Shared(h)'
  <2>1. \A v \in Workers :
          /\ batch'[v] = IF v = w THEN batch[w] \ {g} ELSE batch[v]
          /\ current'[v] = IF v = w THEN <<g, taken + 1>> ELSE current[v]
    BY <1>1 DEF IInv, TypeOK
  <2>2. \A v \in Workers : Holds(v, h)' => Holds(v, h)
    BY <1>1, <1>2, <2>1 DEF Holds
  <2>3. Holders(h)' \subseteq Holders(h)
    BY <2>2 DEF Holders
  <2> QED
    BY <1>2, <2>3, NobodyGetsOne DEF LeaseInv
<1>4. IdleHasNone'
  BY <1>1 DEF LeaseInv, IdleHasNone, IInv, TypeOK
<1> QED
  BY <1>3, <1>4 DEF LeaseInv

LEMMA SaveLease ==
  ASSUME IInv, LeaseInv, NEW w \in Workers, Save(w) PROVE LeaseInv'
<1>1. /\ payload' = [payload EXCEPT ![current[w][1]] = "PROCESSED"]
      /\ pc' = [pc EXCEPT ![w] = "publish"]
      /\ UNCHANGED <<leaseLive, batch, current, expiries>>
  BY DEF Save, boundVars
<1>2. ASSUME NEW h \in Webhooks PROVE Shared(h)'
  <2>1. Holders(h)' = Holders(h)
    BY <1>1 DEF Holders, Holds
  <2>2. payload'[h] \in {payload[h], "PROCESSED"}
    BY <1>1 DEF IInv, TypeOK
  <2> QED
    BY <1>1, <2>1, <2>2, NobodyGetsOne DEF LeaseInv
<1>3. IdleHasNone'
  BY <1>1 DEF LeaseInv, IdleHasNone, IInv, TypeOK
<1> QED
  BY <1>2, <1>3 DEF LeaseInv

\* A worker that is done with a payload, or dies, has it no more.
LEMMA DoneHolders ==
  ASSUME IInv, NEW w \in Workers, Done(w), \A v \in Workers : batch'[v] \subseteq batch[v]
  PROVE  \A h \in Webhooks : Holders(h)' \subseteq Holders(h)
<1>1. \A v \in Workers : current'[v] \in {current[v], Nothing}
  BY DEF Done, IInv, TypeOK
<1> QED
  BY <1>1 DEF Holders, Holds

LEMMA DoneIsIdle ==
  ASSUME IInv, LeaseInv, NEW w \in Workers, Done(w) PROVE IdleHasNone'
BY DEF Done, LeaseInv, IdleHasNone, IInv, TypeOK

LEMMA PublishLease ==
  ASSUME IInv, LeaseInv, NEW w \in Workers, Publish(w) PROVE LeaseInv'
<1>1. Done(w) /\ UNCHANGED <<payload, leaseLive, batch, expiries>>
  BY DEF Publish, boundVars
<1>2. \A h \in Webhooks : Holders(h)' \subseteq Holders(h)
  BY <1>1, DoneHolders
<1>3. ASSUME NEW h \in Webhooks PROVE Shared(h)'
  BY <1>1, <1>2, NobodyGetsOne DEF LeaseInv
<1> QED
  BY <1>1, <1>3, DoneIsIdle DEF LeaseInv

LEMMA MarkFailedLease ==
  ASSUME IInv, LeaseInv, NEW w \in Workers, MarkFailed(w) PROVE LeaseInv'
<1>1. /\ payload' = [payload EXCEPT ![current[w][1]] = "FAILED"]
      /\ leaseLive' = [leaseLive EXCEPT ![current[w][1]] = FALSE]
      /\ Done(w) /\ UNCHANGED <<batch, expiries>>
  BY DEF MarkFailed, boundVars
<1>2. \A h \in Webhooks : Holders(h)' \subseteq Holders(h)
  BY <1>1, DoneHolders
<1>3. ASSUME NEW h \in Webhooks PROVE Shared(h)'
  <2>1. \/ payload'[h] = "FAILED"
        \/ payload'[h] = payload[h] /\ leaseLive'[h] = leaseLive[h]
    BY <1>1 DEF IInv, TypeOK
  <2> QED
    BY <1>1, <1>2, <2>1, NobodyGetsOne DEF LeaseInv
<1> QED
  BY <1>1, <1>3, DoneIsIdle DEF LeaseInv

LEMMA CrashLease ==
  ASSUME IInv, LeaseInv, NEW w \in Workers, Crash(w) PROVE LeaseInv'
<1>1. /\ Done(w) /\ UNCHANGED <<payload, leaseLive, expiries>>
      /\ batch' = [batch EXCEPT ![w] = {}]
  BY DEF Crash, dbVars
<1>2. \A v \in Workers : batch'[v] \subseteq batch[v]
  BY <1>1 DEF IInv, TypeOK
<1>3. \A h \in Webhooks : Holders(h)' \subseteq Holders(h)
  BY <1>1, <1>2, DoneHolders
<1>4. ASSUME NEW h \in Webhooks PROVE Shared(h)'
  BY <1>1, <1>3, NobodyGetsOne DEF LeaseInv
<1> QED
  BY <1>1, <1>4, DoneIsIdle DEF LeaseInv

\* The lease of a payload in somebody's hands is one of the counted ones.
LEMMA ExpireLease ==
  ASSUME IInv, LeaseInv, NEW g \in Webhooks, Expire(g) PROVE LeaseInv'
<1>1. /\ payload[g] = "PROCESSING"
      /\ leaseLive' = [leaseLive EXCEPT ![g] = FALSE]
      /\ UNCHANGED <<payload, pc, batch, current>>
      /\ IF Held(g) THEN expiries' = expiries + 1 ELSE expiries' = expiries
  BY DEF Expire, workerVars
<1>2. expiries \in Nat /\ expiries' \in Nat /\ expiries <= expiries'
  BY <1>1 DEF IInv, TypeOK
<1>3. ASSUME NEW h \in Webhooks PROVE Shared(h)'
  <2>1. Holders(h)' = Holders(h)
    BY <1>1 DEF Holders, Holds
  <2>2. Shared(h) /\ Cardinality(Holders(h)) \in Nat
    BY HoldersAreFinite DEF LeaseInv
  <2>3. CASE h # g
    <3>1. leaseLive'[h] = leaseLive[h]
      BY <1>1, <2>3 DEF IInv, TypeOK
    <3>2. Cardinality(Holders(h)') <= 1 + expiries'
      BY <1>2, <2>1, <2>2 DEF Shared
    <3>3. Cardinality(Holders(h)) <= expiries => Cardinality(Holders(h)') <= expiries'
      BY <1>2, <2>1, <2>2
    <3> QED
      BY <1>1, <2>1, <2>2, <3>1, <3>2, <3>3, Zenon DEF Shared
  <2>4. CASE h = g
    <3>1. Cardinality(Holders(h)) <= expiries'
      <4>1. CASE Held(g)
        BY <1>1, <1>2, <2>2, <4>1 DEF Shared
      <4>2. CASE ~Held(g)
        <5>1. Holders(h) = {}
          BY <2>4, <4>2 DEF Held, Holders
        <5> QED
          BY <1>2, <5>1, FS_EmptySet
      <4> QED
        BY <4>1, <4>2
    <3> QED
      BY <1>1, <1>2, <2>1, <2>2, <2>4, <3>1 DEF Shared
  <2> QED
    BY <2>3, <2>4
<1> QED
  BY <1>1, <1>3 DEF LeaseInv, IdleHasNone

\* The steps that leave payloads, leases, batches and hands alone.
LEMMA StutterLease ==
  ASSUME IInv, LeaseInv, IdleHasNone',
         UNCHANGED <<payload, leaseLive, batch, current, expiries>>
  PROVE  LeaseInv'
<1>1. ASSUME NEW h \in Webhooks PROVE Shared(h)'
  <2>1. Holders(h)' = Holders(h)
    BY DEF Holders, Holds
  <2> QED
    BY <2>1, NobodyGetsOne DEF LeaseInv
<1> QED
  BY <1>1 DEF LeaseInv

LEMMA StepFailsLease ==
  ASSUME IInv, LeaseInv, NEW w \in Workers, StepFails(w) PROVE LeaseInv'
<1>1. IdleHasNone'
  BY DEF StepFails, LeaseInv, IdleHasNone, IInv, TypeOK
<1> QED
  BY <1>1, StutterLease DEF StepFails, dbVars

LEMMA HandleEventLease ==
  ASSUME IInv, LeaseInv, NEW id \in events, HandleEvent(id) PROVE LeaseInv'
BY StutterLease DEF HandleEvent, workerVars, boundVars, LeaseInv, IdleHasNone

LEMMA NextLease == IInv /\ LeaseInv /\ [Next]_vars => LeaseInv'
<1> SUFFICES ASSUME IInv, LeaseInv, [Next]_vars PROVE LeaseInv'
  OBVIOUS
<1>1. ASSUME NEW h \in Webhooks, Deliver(h) \/ Expire(h) PROVE LeaseInv'
  BY <1>1, DeliverLease, ExpireLease
<1>2. ASSUME NEW w \in Workers, Work(w) PROVE LeaseInv'
  BY <1>2, ClaimLease, TakeLease, SaveLease, PublishLease, MarkFailedLease DEF Work
<1>3. ASSUME NEW w \in Workers, StepFails(w) \/ Crash(w) PROVE LeaseInv'
  BY <1>3, StepFailsLease, CrashLease
<1>4. ASSUME NEW id \in events, HandleEvent(id) PROVE LeaseInv'
  BY <1>4, HandleEventLease
<1>5. CASE UNCHANGED vars
  BY <1>5, StutterLease DEF vars, dbVars, workerVars, boundVars, LeaseInv, IdleHasNone
<1> QED
  BY <1>1, <1>2, <1>3, <1>4, <1>5 DEF Next

\* A payload is in the hands of one worker more than leases have expired under
\* workers, at most: claim_pending_payloads gives it to a second worker only
\* after its lease ended under the first.
THEOREM LeasesKeepWorkersApart == Spec => []SharedOnlyAfterExpiry
<1>1. Init => IInv /\ LeaseInv
  BY InitIInv, InitLease
<1>2. IInv /\ LeaseInv /\ [Next]_vars => (IInv /\ LeaseInv)'
  BY NextIInv, NextLease
<1>3. IInv /\ LeaseInv => SharedOnlyAfterExpiry
  BY DEF LeaseInv, Shared, SharedOnlyAfterExpiry
<1> QED
  BY <1>1, <1>2, <1>3, PTL DEF Spec
=============================================================================
