------------------------- MODULE WebhookIngestion -------------------------
(***************************************************************************)
(* A webhook's way from POST /webhooks/razorpay (src/src/api/webhooks.py)  *)
(* through the durable payload table (storage/postgres_ingestion.py) and   *)
(* the IngestionWorker (ingestion/worker.py) to the canonical row of its   *)
(* payment and to the event that asks for reconciliation.  The provider    *)
(* redelivers, leases expire under slow workers, transactions fail and     *)
(* processes crash between any two transactions.                           *)
(***************************************************************************)
EXTENDS Naturals, FiniteSets

CONSTANTS
  Webhooks,    \* the signed notifications, one per idempotency key
  Entities,    \* the payments and refunds they are about
  Workers,
  EntityOf,    \* per webhook: its entity ...
  RawStatus,   \* ... the provider's status ...
  CreatedAt,   \* ... and the creation time of the entity, NoTime when missing
  Epoch,       \* the clock before the first normalisation
  Unparsable,  \* webhooks whose normalisation raises
  BatchLimit,  \* process_batch(limit)
  MaxExpiries, MaxFaults, MaxCrashes, \* bounds of the model
  NoRow, NoTime, Nothing

ASSUME IngestionAssumption ==
  /\ EntityOf \in [Webhooks -> Entities]
  /\ CreatedAt \in [Webhooks -> Nat \union {NoTime}]
  /\ Epoch \in Nat /\ NoTime \notin Nat
  /\ BatchLimit \in Nat \ {0}
  /\ IsFiniteSet(Workers)
  /\ NoRow \notin [id : Webhooks \X Nat, evidence : Webhooks \X Nat,
                   status : {"REFUNDED", "SETTLED", "PENDING", "FAILED", "UNKNOWN"},
                   at : Nat]
  /\ Nothing \notin Webhooks \X Nat

VARIABLES
  payload,     \* per webhook: status of its payload row, NONE when absent
  leaseLive,   \* per webhook: lease_expires_at is in the future
  evidence,    \* ids of the stored evidence
  row,         \* per entity: its canonical observation row
  events,      \* observation ids of the OBSERVATION_INGESTED events to handle
  reconciled,  \* per entity: the status reconciliation last looked at
  pc, batch, current, \* per worker: step, payloads left, observation in hand
  taken,       \* how many normalisations have begun, the clock of their times
  expiries, faults, crashes \* how often the bounded events happened

dbVars == <<payload, leaseLive, evidence, row, events>>
workerVars == <<pc, batch, current>>
boundVars == <<expiries, faults, crashes>>
vars == <<dbVars, reconciled, workerVars, taken, boundVars>>

Statuses == {"REFUNDED", "SETTLED", "PENDING", "FAILED", "UNKNOWN"}

\* Mutant of Canonical: the provider's word gets into the kernel.
CanonicalRaw(raw) == raw

\* map_razorpay_payment_status.
Canonical(raw) ==
  CASE raw = "refunded"                             -> "REFUNDED"
    [] raw \in {"captured", "settled", "processed"} -> "SETTLED"
    [] raw \in {"authorized", "created", "pending"} -> "PENDING"
    [] raw \in {"failed", "cancelled"}              -> "FAILED"
    [] OTHER                                        -> "UNKNOWN"

\* Ids are fresh uuids: each normalisation of a webhook makes another one.
Ids == Webhooks \X Nat
Row == [id : Ids, evidence : Ids, status : Statuses, at : Nat]

\* The entity's creation time, or else the time of this normalisation.
ObservedAt(id) ==
  IF CreatedAt[id[1]] = NoTime THEN Epoch + id[2] ELSE CreatedAt[id[1]]

\* RazorpayPaymentAdapter.normalize_payload: the observation and its evidence.
Normalised(id) ==
  [id |-> id, evidence |-> id,
   status |-> Canonical(RawStatus[id[1]]), at |-> ObservedAt(id)]

PayloadStatus == {"NONE", "PENDING", "PROCESSING", "PROCESSED", "FAILED"}

TypeOK ==
  /\ payload \in [Webhooks -> PayloadStatus]
  /\ leaseLive \in [Webhooks -> BOOLEAN]
  /\ evidence \subseteq Ids
  /\ row \in [Entities -> Row \union {NoRow}]
  /\ events \subseteq Ids
  /\ reconciled \in [Entities -> Statuses \union {"NONE"}]
  /\ pc \in [Workers -> {"idle", "save", "publish", "fail"}]
  /\ batch \in [Workers -> SUBSET Webhooks]
  /\ current \in [Workers -> Ids \union {Nothing}]
  /\ taken \in Nat
  /\ expiries \in Nat /\ faults \in Nat /\ crashes \in Nat

Init ==
  /\ payload = [h \in Webhooks |-> "NONE"]
  /\ leaseLive = [h \in Webhooks |-> FALSE]
  /\ evidence = {}
  /\ row = [e \in Entities |-> NoRow]
  /\ events = {}
  /\ reconciled = [e \in Entities |-> "NONE"]
  /\ pc = [w \in Workers |-> "idle"]
  /\ batch = [w \in Workers |-> {}]
  /\ current = [w \in Workers |-> Nothing]
  /\ taken = 0
  /\ expiries = 0 /\ faults = 0 /\ crashes = 0

----------------------------------------------------------------------------
(* The endpoint: one transaction per delivery.                             *)

\* razorpay_webhook with save_payload.  A new key is inserted and answered 202.
\* A known key is answered 200 whatever became of its payload, also when it
\* FAILED; a bad signature or body is answered 400 and a failing transaction
\* 500: these deliveries change nothing.
Deliver(h) ==
  /\ payload[h] = "NONE"
  /\ payload' = [payload EXCEPT ![h] = "PENDING"]
  /\ UNCHANGED <<leaseLive, evidence, row, events, reconciled, workerVars,
                 taken, boundVars>>

----------------------------------------------------------------------------
(* IngestionWorker.process_batch.                                          *)

\* Mutants of Claimable: only new payloads; leases do not protect.
ClaimablePending(h) == payload[h] = "PENDING"
ClaimableAlways(h) == payload[h] \in {"PENDING", "PROCESSING"}

Claimable(h) ==
  \/ payload[h] = "PENDING"
  \/ payload[h] = "PROCESSING" /\ ~leaseLive[h]

\* claim_pending_payloads: any rows up to the limit; rows locked by a
\* concurrent claim are skipped.
Claim(w) ==
  /\ pc[w] = "idle" /\ batch[w] = {}
  /\ \E claimed \in SUBSET {h \in Webhooks : Claimable(h)} :
       /\ claimed # {} /\ Cardinality(claimed) <= BatchLimit
       /\ payload' = [h \in Webhooks |->
                        IF h \in claimed THEN "PROCESSING" ELSE payload[h]]
       /\ leaseLive' = [h \in Webhooks |-> h \in claimed \/ leaseLive[h]]
       /\ batch' = [batch EXCEPT ![w] = claimed]
  /\ UNCHANGED <<evidence, row, events, reconciled, pc, current,
                 taken, boundVars>>

\* The next payload of the batch is normalised; that raises before any write.
Take(w) ==
  /\ pc[w] = "idle"
  /\ \E h \in batch[w] :
       /\ current' = [current EXCEPT ![w] = <<h, taken + 1>>]
       /\ batch' = [batch EXCEPT ![w] = @ \ {h}]
       /\ pc' = [pc EXCEPT ![w] = IF h \in Unparsable THEN "fail" ELSE "save"]
  /\ taken' = taken + 1
  /\ UNCHANGED <<dbVars, reconciled, boundVars>>

\* Mutants of Upsert: the stored time is not compared; the evidence of the
\* row is not updated.
UpsertAny(old, new) ==
  IF old = NoRow THEN new
  ELSE [old EXCEPT !.status = new.status, !.at = new.at, !.evidence = new.evidence]

UpsertKeepsEvidence(old, new) ==
  CASE old = NoRow -> new
    [] old # NoRow /\ old.at < new.at ->
         [old EXCEPT !.status = new.status, !.at = new.at]
    [] OTHER -> old

\* ON CONFLICT (uq_obs_instance_version) DO UPDATE ... WHERE the stored row is
\* older: status, time and evidence advance, the observation id stays.
Upsert(old, new) ==
  CASE old = NoRow -> new
    [] old # NoRow /\ old.at < new.at ->
         [old EXCEPT !.status = new.status, !.at = new.at, !.evidence = new.evidence]
    [] OTHER -> old

\* Mutants of Save: the observation is not written; nobody is told.
SaveNothing(w) ==
  LET h == current[w][1] IN
  /\ pc[w] = "save"
  /\ payload' = [payload EXCEPT ![h] = "PROCESSED"]
  /\ pc' = [pc EXCEPT ![w] = "publish"]
  /\ UNCHANGED <<leaseLive, evidence, row, events, reconciled, batch, current,
                 taken, boundVars>>

SaveSilently(w) ==
  LET h == current[w][1]
      new == Normalised(current[w]) IN
  /\ pc[w] = "save"
  /\ evidence' = evidence \union {new.evidence}
  /\ row' = [row EXCEPT ![EntityOf[h]] = Upsert(@, new)]
  /\ payload' = [payload EXCEPT ![h] = "PROCESSED"]
  /\ pc' = [pc EXCEPT ![w] = "idle"]
  /\ current' = [current EXCEPT ![w] = Nothing]
  /\ UNCHANGED <<leaseLive, events, reconciled, batch, taken, boundVars>>

\* save_normalized_payload: one transaction; neither the status nor the lease
\* owner of the payload is looked at.
Save(w) ==
  LET h == current[w][1]
      new == Normalised(current[w]) IN
  /\ pc[w] = "save"
  /\ evidence' = evidence \union {new.evidence}
  /\ row' = [row EXCEPT ![EntityOf[h]] = Upsert(@, new)]
  /\ payload' = [payload EXCEPT ![h] = "PROCESSED"]
  /\ pc' = [pc EXCEPT ![w] = "publish"]
  /\ UNCHANGED <<leaseLive, events, reconciled, batch, current,
                 taken, boundVars>>

Done(w) ==
  /\ pc' = [pc EXCEPT ![w] = "idle"]
  /\ current' = [current EXCEPT ![w] = Nothing]

\* on_observation_persisted: the event carries the id of the observation just
\* made, in a transaction of its own.
Publish(w) ==
  /\ pc[w] = "publish"
  /\ events' = events \union {current[w]}
  /\ Done(w)
  /\ UNCHANGED <<payload, leaseLive, evidence, row, reconciled,
                 batch, taken, boundVars>>

\* A transaction of the try block raises.
StepFails(w) ==
  /\ pc[w] \in {"save", "publish"}
  /\ faults < MaxFaults
  /\ faults' = faults + 1
  /\ pc' = [pc EXCEPT ![w] = "fail"]
  /\ UNCHANGED <<dbVars, reconciled, batch, current, taken,
                 expiries, crashes>>

\* mark_processed(error): FAILED also when the save had committed.
MarkFailed(w) ==
  LET h == current[w][1] IN
  /\ pc[w] = "fail"
  /\ payload' = [payload EXCEPT ![h] = "FAILED"]
  /\ leaseLive' = [leaseLive EXCEPT ![h] = FALSE]
  /\ Done(w)
  /\ UNCHANGED <<evidence, row, events, reconciled, batch,
                 taken, boundVars>>

\* The process dies, or mark_processed raises out of process_batch.
Crash(w) ==
  /\ crashes < MaxCrashes
  /\ pc[w] # "idle" \/ batch[w] # {}
  /\ crashes' = crashes + 1
  /\ Done(w)
  /\ batch' = [batch EXCEPT ![w] = {}]
  /\ UNCHANGED <<dbVars, reconciled, taken, expiries, faults>>

\* lease_seconds pass.  While a worker still has the payload, at most
\* MaxExpiries times; without one, time simply goes on.
Holds(w, h) == h \in batch[w] \/ (current[w] # Nothing /\ current[w][1] = h)
Held(h) == \E w \in Workers : Holds(w, h)

Expire(h) ==
  /\ payload[h] = "PROCESSING" /\ leaseLive[h]
  /\ IF Held(h) THEN expiries < MaxExpiries /\ expiries' = expiries + 1
                ELSE UNCHANGED expiries
  /\ leaseLive' = [leaseLive EXCEPT ![h] = FALSE]
  /\ UNCHANGED <<payload, evidence, row, events, reconciled,
                 workerVars, taken, faults, crashes>>

\* _handle_observation_ingested: without a row of that id, nothing happens.
HandleEvent(id) ==
  /\ id \in events
  /\ events' = events \ {id}
  /\ reconciled' = [e \in Entities |->
       IF row[e] # NoRow /\ row[e].id = id THEN row[e].status ELSE reconciled[e]]
  /\ UNCHANGED <<payload, leaseLive, evidence, row, workerVars, taken,
                 boundVars>>

----------------------------------------------------------------------------
Work(w) ==
  Claim(w) \/ Take(w) \/ Save(w) \/ Publish(w) \/ MarkFailed(w)

Next ==
  \/ \E h \in Webhooks : Deliver(h) \/ Expire(h)
  \/ \E w \in Workers : Work(w) \/ StepFails(w) \/ Crash(w)
  \/ \E id \in events : HandleEvent(id)

\* The loop of worker_main repeats for ever, and so does time.
Fairness ==
  /\ \A w \in Workers : WF_vars(Work(w))
  /\ \A h \in Webhooks : WF_vars(Expire(h) /\ ~Held(h))
  /\ WF_vars(\E id \in events : HandleEvent(id))

Spec == Init /\ [][Next]_vars /\ Fairness

----------------------------------------------------------------------------
\* Webhooks arrive out of order, twice, and are normalised by two workers at
\* once: the canonical row never goes back in time, and its status changes
\* only when it moves forward.
StatusNeverRegresses ==
  [][\A e \in Entities : row[e] # NoRow /\ row'[e] # row[e] =>
       /\ row'[e] # NoRow
       /\ row'[e].id = row[e].id
       /\ row'[e].at > row[e].at]_vars

\* Whatever the order of arrival, leases and crashes, a payload marked
\* PROCESSED has stored evidence and its observation is in the row of its
\* entity, or a newer one.
ProcessedIsStored ==
  \A h \in Webhooks : payload[h] = "PROCESSED" =>
    \E id \in evidence : /\ id[1] = h
                         /\ row[EntityOf[h]] # NoRow
                         /\ row[EntityOf[h]].at >= ObservedAt(id)

\* The audit trail: the status and the time of a row are those of the webhook
\* whose stored evidence the row names.
RowMatchesItsEvidence ==
  \A e \in Entities : row[e] # NoRow =>
    LET source == row[e].evidence[1] IN
    /\ row[e].evidence \in evidence
    /\ EntityOf[source] = e
    /\ row[e].status = Canonical(RawStatus[source])
    /\ row[e].at = ObservedAt(row[e].evidence)

Holders(h) == {w \in Workers : Holds(w, h)}

\* Two workers have the same payload in hand only after its lease expired
\* under the first of them.
SharedOnlyAfterExpiry ==
  \A h \in Webhooks : Cardinality(Holders(h)) <= 1 + expiries

\* A webhook in the table does not stay behind, whatever crashes: its payload
\* is processed or marked failed.
AcceptedIsSettled ==
  \A h \in Webhooks :
    payload[h] = "PENDING" ~> payload[h] \in {"PROCESSED", "FAILED"}

\* As long as nothing fails, the first observation of an entity is reconciled.
FirstStatusIsReconciled ==
  \A e \in Entities :
    [](crashes = 0 /\ faults = 0 /\ expiries = 0) =>
      (row[e] # NoRow ~> reconciled[e] # "NONE")

\* What the trigger is for (src/src/ingestion/worker.py:64, "event trigger for
\* incremental reconciliation"): every status that reaches the row is
\* reconciled, unless a newer one replaces it first.
EveryStatusIsReconciled ==
  \A e \in Entities : \A s \in Statuses :
    (row[e] # NoRow /\ row[e].status = s)
      ~> (reconciled[e] = s \/ (row[e] # NoRow /\ row[e].status # s))
=============================================================================
