---------------------------- MODULE Reconciliation ----------------------------
(***************************************************************************)
(* The V2 detection and investigation pipeline: observations are saved and *)
(* announced, control workers judge the expectations they touch            *)
(* (engine/worker.py, engine/reconciliation_v2.py), file a result and      *)
(* raise its discrepancy, and an investigation puts the language model's   *)
(* hypothesis to the provider (engine/worker.py, evidence_assembler.py).   *)
(*                                                                         *)
(* One investigation at a time: its claim, lease, retries and what follows *)
(* the policy's decision are modules IncidentStore and ControlWorker.  The *)
(* worker's two loops are two actors here.                                 *)
(***************************************************************************)
EXTENDS Reobservation

CONSTANTS
  Workers,
  All,            \* the event without an observation_id: reconcile everything
  Reports,        \* per row: what may be reported of it, [status, at]
  Created,        \* per row of the API: created_at
  InitialTruths,  \* what the provider's and the merchant's records may be at first
  Elsewhere,      \* {All} if another incident converges, which announces that event
  Hypotheses,     \* what the model may say
  Now,            \* when the observer reads for the first time
  Ageing,         \* bound: the expectations that may pass 24 hours
  MaxMoves, MaxInquiries,      \* bounds of what arrives
  MaxTroubles,    \* bound: crashes, errors, recoveries of what a worker still holds
  MaxSetbacks     \* bound: crashes and network errors of an investigation

Statuses == CanonicalStatus \union {"ABSENT"}

ASSUME ReconciliationAssumption ==
  /\ IsFiniteSet(Rows)
  /\ NoRef \notin Hypotheses /\ \A h \in Hypotheses : h.intents \in Seq(STRING)
  /\ All \notin Rows \union {NoRef} /\ Elsewhere \subseteq {All}
  /\ Reports \in [Rows -> SUBSET [status : CanonicalStatus, at : Nat]]
  /\ Created \in [ApiRows -> Nat]
  /\ InitialTruths \subseteq [Records -> Statuses]
  /\ {Now, MaxMoves, MaxInquiries, MaxTroubles, MaxSetbacks} \subseteq Nat

VARIABLES
  book, late,        \* the open expectations; those older than 24 hours
  stored, evidence,  \* v2_observations and v2_evidence
  truth,             \* the records of the provider and the merchant
  unannounced, event, \* events still to be published; v2_control_events
  worker, saved, raised, \* v2_reconciliation_results; those in an event
  inquiry,
  known,             \* history: per row, the expectations open at its insert
  spent              \* what of the environment's bounds is used up

vars == <<book, late, stored, evidence, truth, unannounced, event, worker,
          saved, raised, inquiry, known, spent>>

intake == <<book, late, stored, evidence, truth, unannounced, known>>
judging == <<event, worker, saved, raised>>

Events == Rows \union {All}
Idle == [pc |-> "IDLE", batch |-> {}, on |-> NoRef, todo |-> {}, mapped |-> {}, results |-> <<>>]
NoInquiry == [pc |-> "NONE", of |-> NoRef, reason |-> "MATCH", rows |-> <<>>, obs |-> <<>>,
              hyp |-> NoRef, todo |-> <<>>, news |-> <<>>, outcome |-> "SUCCEEDED",
              again |-> <<>>, looks |-> 0]

Init ==
  /\ book = {} /\ late = {}
  /\ stored = [r \in Rows |-> NoRow] /\ evidence = {}
  /\ truth \in InitialTruths
  /\ unannounced = Elsewhere /\ event = [x \in Events |-> "NONE"]
  /\ worker = [w \in Workers |-> Idle]
  /\ saved = {} /\ raised = {}
  /\ inquiry = NoInquiry
  /\ known = [r \in Rows |-> {}]
  /\ spent = [what \in {"moves", "inquiries", "troubles", "setbacks"} |-> 0]

Spend(what, max) ==
  /\ spent[what] < max
  /\ spent' = [spent EXCEPT ![what] = @ + 1]

-----------------------------------------------------------------------------
(* What arrives.                                                           *)

\* PostgresExpectationRepository.save; nothing ever closes an expectation.
OpenExpectation(e) ==
  /\ e \notin book
  /\ book' = book \union {e}
  /\ UNCHANGED <<late, stored, evidence, truth, unannounced, known, judging, inquiry, spent>>

GrowOld(e) ==
  /\ e \in (book \intersect Ageing) \ late
  /\ late' = late \union {e}
  /\ UNCHANGED <<book, stored, evidence, truth, unannounced, known, judging, inquiry, spent>>

\* The actuator's own doing is such a move as well.
ProviderMoves(r, s) ==
  /\ s = "REFUNDED" => Kind(r) = "PAYMENT"
  /\ <<truth[r], s>> \in {<<"ABSENT", "PENDING">>, <<"ABSENT", "SETTLED">>,
    <<"PENDING", "SETTLED">>, <<"PENDING", "FAILED">>, <<"SETTLED", "REFUNDED">>}
  /\ Spend("moves", MaxMoves)
  /\ truth' = [truth EXCEPT ![r] = s]
  /\ UNCHANGED <<book, late, stored, evidence, unannounced, known, judging, inquiry>>

\* The upsert: a stored row gives way only to a later one.
Newer(o, rows) == rows[o.row] # NoRow => rows[o.row].at < o.at

\* One upsert after the other: the first of the latest of a row stays.
Stays(j, obs) == \A k \in DOMAIN obs : obs[k].row = obs[j].row =>
                   obs[k].at < obs[j].at \/ (obs[k].at = obs[j].at /\ j <= k)
UpsertAll(obs, rows) ==
  [r \in Rows |->
    IF \E j \in DOMAIN obs : obs[j].row = r /\ Stays(j, obs) /\ Newer(obs[j], rows)
    THEN LET j == CHOOSE j \in DOMAIN obs : obs[j].row = r /\ Stays(j, obs) /\ Newer(obs[j], rows)
         IN  [status |-> obs[j].status, at |-> obs[j].at]
    ELSE rows[r]]

\* The open expectations a row is inserted under.
Remember(new) ==
  known' = [r \in Rows |-> IF stored[r] = NoRow /\ new[r] # NoRow THEN book ELSE known[r]]

\* A webhook or a poll is saved.  Its event follows in a transaction of its own;
\* only an insert announces a row that exists: an update keeps the old
\* observation_id, so the event it announces names no row and its handler returns.
Observe(r) ==
  /\ \E o \in Reports[r] :
       LET obs == [row |-> r, status |-> o.status, at |-> o.at]
       IN  /\ Newer(obs, stored)
           /\ stored' = UpsertAll(<<obs>>, stored)
           /\ evidence' = evidence \union {EvidenceOf(obs)}
  /\ unannounced' = IF stored[r] = NoRow THEN unannounced \union {r} ELSE unannounced
  /\ Remember(stored')
  /\ UNCHANGED <<book, late, truth, judging, inquiry, spent>>

Announce(x) ==
  /\ x \in unannounced
  /\ event[x] \in {"NONE", "PROCESSED", "FAILED"}
  /\ unannounced' = unannounced \ {x}
  /\ event' = [event EXCEPT ![x] = "PENDING"]
  /\ UNCHANGED <<book, late, stored, evidence, truth, known, worker, saved, raised, inquiry, spent>>

-----------------------------------------------------------------------------
(* V2ControlWorker: OBSERVATION_INGESTED.                                  *)

\* poll_pending_events: all of them, the limit of five is never reached here.
Poll(w) ==
  LET pending == {x \in Events : event[x] = "PENDING"}
  IN  /\ worker[w] = Idle
      /\ pending # {}
      /\ event' = [x \in Events |-> IF x \in pending THEN "IN_PROGRESS" ELSE event[x]]
      /\ worker' = [worker EXCEPT ![w].batch = pending]
      /\ UNCHANGED <<intake, saved, raised, inquiry, spent>>

Unexpected(r, x) ==
  [of |-> NoRef, rows |-> <<r>>, reason |-> "UNEXPECTED_EXECUTION", on |-> x]

\* The expectations to judge for the next event; a row that none is found by is
\* unexpected at once.
Find(w, x) ==
  LET open == IF x = All THEN book ELSE {e \in book : Finds(x, e)}
      alarm == x # All /\ open = {}
  IN  /\ worker[w].pc = "IDLE" /\ x \in worker[w].batch
      /\ worker' = [worker EXCEPT
           ![w].pc = IF alarm THEN "FILE" ELSE "JUDGE", ![w].batch = @ \ {x}, ![w].on = x,
           ![w].todo = open, ![w].results = IF alarm THEN <<Unexpected(x, x)>> ELSE <<>>]
      /\ UNCHANGED <<intake, event, saved, raised, inquiry, spent>>

\* Each expectation is judged on a read of its own.
Judge(w, e) ==
  /\ worker[w].pc = "JUDGE" /\ e \in worker[w].todo
  /\ \E order \in Orders(Candidates(e, stored)) :
       worker' = [worker EXCEPT
         ![w].todo = @ \ {e},
         ![w].mapped = @ \union Candidates(e, stored),
         ![w].results = Append(@, [of |-> e, rows |-> order, on |-> worker[w].on,
           reason |-> Verdict(e, ReadAll(order, stored), e \in late)])]
  /\ UNCHANGED <<intake, event, saved, raised, inquiry, spent>>

\* reconcile_batch reads all observations once the expectations are judged.
Sweep(w) ==
  /\ worker[w].pc = "JUDGE" /\ worker[w].todo = {}
  /\ LET stray == IF worker[w].on = All THEN Stored(stored) \ worker[w].mapped ELSE {}
     IN  \E order \in Orders(stray) :
           worker' = [worker EXCEPT ![w].pc = "FILE", ![w].mapped = {},
             ![w].results = @ \o [j \in DOMAIN order |-> Unexpected(order[j], All)]]
  /\ UNCHANGED <<intake, event, saved, raised, inquiry, spent>>

\* The result is saved, then in another transaction its discrepancy is published.
File(w) ==
  LET res == Head(worker[w].results)
  IN  /\ worker[w].pc = "FILE" /\ worker[w].results # <<>>
      /\ saved' = saved \union {res}
      /\ worker' = IF res.reason = "MATCH" THEN [worker EXCEPT ![w].results = Tail(@)]
                   ELSE [worker EXCEPT ![w].pc = "RAISE"]
      /\ UNCHANGED <<intake, event, raised, inquiry, spent>>

Raise(w) ==
  /\ worker[w].pc = "RAISE"
  /\ raised' = raised \union {Head(worker[w].results)}
  /\ worker' = [worker EXCEPT ![w].pc = "FILE", ![w].results = Tail(@)]
  /\ UNCHANGED <<intake, event, saved, inquiry, spent>>

\* Mutant of Done: the handler returns with the first result still unraised.
DoneOnceSaved(w) == worker[w].pc = "RAISE" \/ (worker[w].pc = "FILE" /\ worker[w].results = <<>>)

Done(w) == worker[w].pc = "FILE" /\ worker[w].results = <<>>

\* The next event of the batch.
Release(w) == [worker EXCEPT ![w] = [Idle EXCEPT !.batch = worker[w].batch]]

Finish(w) ==
  /\ Done(w)
  /\ event' = [event EXCEPT ![worker[w].on] = "PROCESSED"]
  /\ worker' = Release(w)
  /\ UNCHANGED <<intake, saved, raised, inquiry, spent>>

\* Any exception of the handler.
Fail(w) ==
  /\ worker[w].pc # "IDLE"
  /\ Spend("troubles", MaxTroubles)
  /\ event' = [event EXCEPT ![worker[w].on] = "FAILED"]
  /\ worker' = Release(w)
  /\ UNCHANGED <<intake, saved, raised, inquiry>>

\* The process dies with its batch; its events stay IN_PROGRESS.
Crash(w) ==
  /\ worker[w] # Idle
  /\ Spend("troubles", MaxTroubles)
  /\ worker' = [worker EXCEPT ![w] = Idle]
  /\ UNCHANGED <<intake, event, saved, raised, inquiry>>

Held(x) == \E w \in Workers : x \in worker[w].batch \union {worker[w].on}

\* recover_stale_events goes by the age of the lease: a slow holder may be alive.
Recover(x) ==
  /\ event[x] = "IN_PROGRESS"
  /\ IF Held(x) THEN Spend("troubles", MaxTroubles) ELSE UNCHANGED spent
  /\ event' = [event EXCEPT ![x] = "PENDING"]
  /\ UNCHANGED <<intake, worker, saved, raised, inquiry>>

\* The process dies between a commit and the transaction that announces it.
LoseAnnouncement(x) ==
  /\ x \in unannounced
  /\ Spend("troubles", MaxTroubles)
  /\ unannounced' = unannounced \ {x}
  /\ UNCHANGED <<book, late, stored, evidence, truth, known, judging, inquiry>>

-----------------------------------------------------------------------------
(* V2ControlWorker: DISCREPANCY_DETECTED, from the claim to the policy.    *)

\* The stale-event guard: what matches by now needs no investigation.
Begin(res, hyp) ==
  \E pc \in {"ASSEMBLE", "RESOLVED"} :
    /\ LET e == res.of
           verdicts == Verdicts(e, stored, e \in late)
       IN  IF e = NoRef \/ Candidates(e, stored) = {} THEN pc = "ASSEMBLE"
           ELSE IF pc = "RESOLVED" THEN "MATCH" \in verdicts ELSE verdicts # {"MATCH"}
    /\ inquiry' = [NoInquiry EXCEPT !.pc = pc, !.of = res.of, !.reason = res.reason,
                                    !.rows = res.rows, !.hyp = hyp, !.looks = inquiry.looks]

SameIncident(res) == res.of = inquiry.of /\ res.reason = inquiry.reason

Inquire ==
  /\ inquiry.pc \in {"NONE", "RESOLVED", "ESCALATED"}
  /\ Spend("inquiries", MaxInquiries)
  /\ \E res \in raised : Begin(res, NoRef)
  /\ UNCHANGED <<intake, judging>>

\* A matured retry goes by a result of its subject and reason, the latest one
\* (which one that is is not kept here), and asks the model again; ...
Retry ==
  /\ inquiry.pc = "RETRY"
  /\ Spend("inquiries", MaxInquiries)
  /\ \E res \in saved : SameIncident(res) /\ Begin(res, NoRef)
  /\ UNCHANGED <<intake, judging>>

\* ... after a crash, the event that is delivered again finds the incident
\* VERIFYING with a hypothesis, and reuses it on fresh evidence.
Resume ==
  /\ inquiry.pc = "CRASHED"
  /\ Spend("inquiries", MaxInquiries)
  /\ \E res \in raised : SameIncident(res) /\ Begin(res, inquiry.hyp)
  /\ UNCHANGED <<intake, judging>>

\* EvidenceAssembler.assemble: the rows of the result as they are by now.
Assemble ==
  /\ inquiry.pc = "ASSEMBLE"
  /\ inquiry' = [inquiry EXCEPT
       !.obs = ReadAll(inquiry.rows, stored),
       !.pc = IF inquiry.hyp = NoRef THEN "ASK" ELSE "VERIFY",
       !.todo = IF inquiry.hyp = NoRef THEN <<>> ELSE inquiry.hyp.intents]
  /\ UNCHANGED <<intake, judging, spent>>

\* evidence_records: what the agent input lists.
Shown == {EvidenceOf(inquiry.obs[j]) : j \in DOMAIN inquiry.obs} \intersect evidence

\* LocalLLMInvestigator.investigate: an answer that does not parse raises, which
\* schedules a retry; one that the validator refuses escalates.
Ask ==
  /\ inquiry.pc = "ASK"
  /\ \E h \in Hypotheses :
       inquiry' =
         IF ~SchemaOk(h) THEN [inquiry EXCEPT !.pc = "RETRY"]
         ELSE IF ~Validated(h, Shown) THEN [inquiry EXCEPT !.pc = "ESCALATED"]
         ELSE [inquiry EXCEPT !.pc = "VERIFY", !.hyp = h, !.todo = h.intents]
  /\ UNCHANGED <<intake, judging, spent>>

\* One intent, whatever became of the one before.
Verify ==
  LET e == inquiry.of
      obs == inquiry.obs
      answered(news, outcome) ==
        inquiry' = [inquiry EXCEPT !.todo = Tail(@), !.news = @ \o news,
                      !.outcome = IF @ = "SUCCEEDED" THEN outcome ELSE @]
  IN  /\ inquiry.pc = "VERIFY" /\ inquiry.todo # <<>>
      /\ \/ /\ Rejected(e, obs, truth)
            /\ answered(<<>>, "REJECTED")
            /\ UNCHANGED spent
         \/ /\ ~Rejected(e, obs, truth)
            /\ \E order \in Orders(AnswerRows(e, obs, truth)) :
                 answered([j \in DOMAIN order |->
                   [row |-> order[j], status |-> truth[order[j]], at |-> Created[order[j]]]],
                   "SUCCEEDED")
            /\ UNCHANGED spent
         \/ /\ Routed(e, obs) /\ QueryRef(e, obs) # NoRef
            /\ Spend("setbacks", MaxSetbacks)
            /\ answered(<<>>, "FAILED")
      /\ UNCHANGED <<intake, judging>>

Matches(obs) ==
  inquiry.of # NoRef /\ Verdict(inquiry.of, obs, inquiry.of \in late) = "MATCH"

\* Mutant of Commit: only what a query brought is saved.
CommitQueried(news) ==
  LET queried == SelectSeq(news, LAMBDA o : o.row \in ApiRows)
  IN  /\ stored' = UpsertAll(queried, stored)
      /\ evidence' = evidence \union {EvidenceOf(queried[j]) : j \in DOMAIN queried}
      /\ Remember(stored')

\* An observer's row refers to no evidence; only what was queried does.
Commit(news) ==
  /\ stored' = UpsertAll(news, stored)
  /\ evidence' = evidence \union
       {EvidenceOf(news[j]) : j \in {k \in DOMAIN news : news[k].row \in ApiRows}}
  /\ Remember(stored')

Counted == inquiry.obs \o inquiry.news

\* The comparison, then the policy; what was learned is stored unless the observer
\* is asked first.  commit_verification_success announces nothing.
Decide(otherwise) ==
  LET pc == IF Matches(Counted) THEN "RESOLVED"
            ELSE IF Policy(inquiry.of, inquiry.obs, Counted) = "ESCALATE" THEN otherwise
            ELSE "DECIDED"
  IN  /\ inquiry' = [inquiry EXCEPT !.pc = pc, !.again = IF pc = "REOBSERVE" THEN Counted ELSE <<>>]
      /\ IF pc = "REOBSERVE" THEN UNCHANGED <<stored, evidence, known>> ELSE Commit(inquiry.news)

\* The first result that did not succeed decides.
Conclude ==
  /\ inquiry.pc = "VERIFY" /\ inquiry.todo = <<>>
  /\ IF inquiry.outcome = "SUCCEEDED" THEN Decide("REOBSERVE")
     ELSE /\ inquiry' = [inquiry EXCEPT
               !.pc = IF inquiry.outcome = "FAILED" THEN "RETRY" ELSE "ESCALATED"]
          /\ UNCHANGED <<stored, evidence, known>>
  /\ UNCHANGED <<book, late, truth, unannounced, judging, spent>>

\* The guard before an escalation: one observation after the other is made again,
\* and what differs is kept; a failed read is logged.
Reobserve ==
  LET o == Head(inquiry.again)
      learn(news) ==
        inquiry' = [inquiry EXCEPT !.again = Tail(@), !.news = @ \o news, !.looks = @ + 1]
  IN  /\ inquiry.pc = "REOBSERVE" /\ inquiry.again # <<>>
      /\ \/ /\ \E read \in Reads(Kind(o.row), Reference[o.row], truth, Now + inquiry.looks) :
                 learn(IF read # <<>> /\ read[1].status = o.status THEN <<>> ELSE read)
            /\ UNCHANGED spent
         \/ Provider[o.row] = "razorpay" /\ Spend("setbacks", MaxSetbacks) /\ learn(<<>>)
      /\ UNCHANGED <<intake, judging>>

\* The comparison and the policy once more; had nothing changed, nor would they.
Reconsider ==
  /\ inquiry.pc = "REOBSERVE" /\ inquiry.again = <<>>
  /\ Decide("ESCALATED")
  /\ UNCHANGED <<book, late, truth, unannounced, judging, spent>>

\* After the actuator the target is observed, and persist_reobservation_and_resolve
\* saves and announces what was observed if it matches; a refusal of the gate or of
\* the actuator, or any exception, escalates.
Converge ==
  LET repair == Policy(inquiry.of, inquiry.obs, Counted) = "REPAIR_MERCHANT_STATE"
      target == LatestOf(IF repair THEN "merchant" ELSE "razorpay", Counted)
  IN  /\ inquiry.pc = "DECIDED"
      /\ \/ /\ inquiry' = [inquiry EXCEPT !.pc = "ESCALATED"]
            /\ UNCHANGED <<stored, evidence, known, unannounced>>
         \/ \E read \in Reads(IF repair THEN "ORDER" ELSE "PAYMENT", Reference[target.row],
                              truth, Now + inquiry.looks) :
              LET news == inquiry.news \o read
                  resolved == Matches(inquiry.obs \o news)
              IN  /\ inquiry' = [inquiry EXCEPT !.news = news, !.looks = @ + 1,
                                   !.pc = IF resolved THEN "RESOLVED" ELSE "ESCALATED"]
                  /\ unannounced' = IF resolved /\ news # <<>> THEN unannounced \union {All}
                                    ELSE unannounced
                  /\ IF resolved THEN Commit(news) ELSE UNCHANGED <<stored, evidence, known>>
      /\ UNCHANGED <<book, late, truth, judging, spent>>

\* The worker dies; update_hypothesis had made the incident VERIFYING.
CrashInquiry ==
  /\ inquiry.pc \in {"ASSEMBLE", "ASK", "VERIFY", "REOBSERVE"}
  /\ Spend("setbacks", MaxSetbacks)
  /\ inquiry' = [NoInquiry EXCEPT !.pc = "CRASHED", !.of = inquiry.of,
                                  !.reason = inquiry.reason, !.hyp = inquiry.hyp,
                                  !.looks = inquiry.looks]
  /\ UNCHANGED <<intake, judging>>

-----------------------------------------------------------------------------
Arrive ==
  \/ \E e \in Expectations : OpenExpectation(e) \/ GrowOld(e)
  \/ \E r \in Records, s \in Statuses : ProviderMoves(r, s)
  \/ \E r \in Rows : Observe(r)
  \/ \E x \in Events : Announce(x) \/ LoseAnnouncement(x) \/ Recover(x)

Work(w) ==
  \/ Poll(w)
  \/ \E x \in Events : Find(w, x)
  \/ \E e \in Expectations : Judge(w, e)
  \/ Sweep(w) \/ File(w) \/ Raise(w) \/ Finish(w)

Investigate ==
  \/ Inquire \/ Retry \/ Resume
  \/ Assemble \/ Ask \/ Verify \/ Conclude
  \/ Reobserve \/ Reconsider \/ Converge

Next ==
  \/ Arrive
  \/ \E w \in Workers : Work(w) \/ Fail(w) \/ Crash(w)
  \/ Investigate
  \/ CrashInquiry

Spec == Init /\ [][Next]_vars

\* The workers poll for ever, and stale events are recovered on every poll.
FairSpec ==
  /\ Spec
  /\ \A w \in Workers : WF_vars(Work(w))
  /\ \A x \in Events : WF_vars(Recover(x) /\ ~Held(x))

-----------------------------------------------------------------------------
Result == [of : Expectations \union {NoRef}, rows : Seq(Rows), on : Events,
           reason : Reasons \union {"MATCH"}]

TypeOK ==
  /\ book \subseteq Expectations /\ late \subseteq book
  /\ stored \in [Rows -> [status : CanonicalStatus, at : Nat] \union {NoRow}]
  /\ evidence \subseteq Rows \X CanonicalStatus
  /\ truth \in [Records -> Statuses]
  /\ unannounced \subseteq Events
  /\ event \in [Events -> {"NONE", "PENDING", "IN_PROGRESS", "PROCESSED", "FAILED"}]
  /\ worker \in [Workers ->
       [pc : {"IDLE", "JUDGE", "FILE", "RAISE"}, batch : SUBSET Events,
        on : Events \union {NoRef}, todo : SUBSET Expectations, mapped : SUBSET Rows,
        results : Seq(Result)]]
  /\ saved \subseteq Result /\ raised \subseteq saved
  /\ inquiry.pc \in {"NONE", "ASSEMBLE", "ASK", "VERIFY", "REOBSERVE", "DECIDED",
                     "RETRY", "CRASHED", "RESOLVED", "ESCALATED"}
  /\ inquiry.obs \in Seq(Observation) /\ inquiry.news \in Seq(Observation)
  /\ known \in [Rows -> SUBSET book]

\* What evaluate_expectation_centric says must not depend on the order in which
\* the database returns the rows, as long as no two of them tie.
VerdictMeetsReference ==
  \A e \in Expectations :
    LET S == Candidates(e, stored)
    IN  Tied(S, stored) \/
        Verdicts(e, stored, e \in late) =
          {Judgement(e, {Read(r, stored) : r \in S}, e \in late)}

\* A row and an expectation that share a key, in the domain the expectation names.
Belongs(r, e) ==
  /\ Same(Keys[r].internal, Keys[e].internal) \/ Same(Keys[r].provider, Keys[e].provider)
  /\ Keys[e].domain \in {NoRef, Keys[r].domain}

\* An event is marked PROCESSED only when each expectation that was open at the
\* insert of its row, and that the row belongs to, has a result of that event on
\* file that counts the row, and the discrepancy of that result is in an event of
\* its own: whatever crashed, failed or was delivered twice (worker.py, 138-160
\* and 208-214).
ProcessedMeansJudged ==
  \A r \in Rows : event[r] = "PROCESSED" =>
    \A e \in known[r] : Belongs(r, e) =>
      \E res \in saved :
        /\ res.of = e /\ res.on = r /\ \E j \in DOMAIN res.rows : res.rows[j] = r
        /\ res.reason = "MATCH" \/ res \in raised

\* The event path alarms about a row only if no expectation that was open at its
\* insert shares a key with it (worker.py, 193-198).
DirectAlarmsAreTrue ==
  \A res \in saved : res.of = NoRef /\ res.on # All =>
    \A e \in known[res.rows[1]] : ~Belongs(res.rows[1], e)

\* "Observation lacks any legitimate expectation" (src/src/engine/reconciliation_controls.py:137):
\* so should every alarm, the batch's too.  It does not: a row inserted after its
\* expectation was judged and before get_all is in no candidate set.
UnexpectedLacksExpectation ==
  \A res \in saved : res.of = NoRef =>
    \A e \in known[res.rows[1]] : ~Belongs(res.rows[1], e)

\* A hypothesis that reaches the provider names only evidence on file, also when a
\* crash made it be reused on evidence assembled anew (worker.py, 330-343).
VouchedBeforeQuery ==
  inquiry.hyp # NoRef => inquiry.hyp.supporting \union inquiry.hyp.contradicting \subseteq evidence

\* Once the query has found refunds of the receipt that a refund expectation names,
\* the investigation settles it on that receipt alone: neither another refund of the
\* payment nor anything the observer reads again is counted with them
\* (integrations/verifier.py, 94-97; worker.py, 388-410 and 447-463).
OfItsReceipt ==
  \A j \in DOMAIN Counted : ExecutionId(Counted[j].row) = Keys[inquiry.of].internal
SettledByItsOwnRefund ==
  /\ inquiry.pc = "RESOLVED"
  /\ Domain[inquiry.of] = "REFUND" /\ Keys[inquiry.of].internal # NoRef
  /\ \E j \in DOMAIN inquiry.news : inquiry.news[j].row \in ApiRows
  => OfItsReceipt

\* What an investigation settles an incident on is on record, and the evidence of
\* what it queried with it, whichever of its ways led there and whatever was saved
\* since (worker.py, 399-404, 453-458 and 574-579).
ResolvedIsOnRecord ==
  inquiry.pc = "RESOLVED" =>
    /\ \A j \in DOMAIN Counted :
         stored[Counted[j].row] # NoRow /\ Counted[j].at <= stored[Counted[j].row].at
    /\ \A j \in DOMAIN inquiry.news :
         inquiry.news[j].row \in ApiRows => EvidenceOf(inquiry.news[j]) \in evidence

\* "Evidence refers to a different financial entity" (docs/01-product-spec.md:531) is a
\* failure to be understood: what an investigation settles a refund expectation with
\* should be of its receipt.  The observer's rows name the payment instead, and where
\* the query found no refund, the payment, read again, stands in for it.
RefundIsOfItsReceipt ==
  /\ inquiry.pc = "RESOLVED" /\ inquiry.news # <<>>
  /\ Domain[inquiry.of] = "REFUND" /\ Keys[inquiry.of].internal # NoRef
  => OfItsReceipt

\* An announced insert is judged in the end, against each open expectation that it
\* belongs to, unless the handler of its event failed.
EveryInsertIsJudged ==
  \A r \in Rows, e \in Expectations :
    (event[r] = "PENDING" /\ e \in known[r] /\ Belongs(r, e))
      ~> (\/ event[r] = "FAILED"
          \/ \E res \in saved : res.of = e /\ \E j \in DOMAIN res.rows : res.rows[j] = r)
===============================================================================
