-------------------------- MODULE RefundRecovery --------------------------
(***************************************************************************)
(* The first-generation refund loop: what the provider did reaches the     *)
(* kernel as notifications and query results, batches turn them into cases *)
(* (module RefundCases), the control policy authorises a refund for a      *)
(* proven absence, and the dispatchers of the outbox                       *)
(* (src/src/recovery/outbox.py) send it.  Notifications are lost,          *)
(* repeated, delayed and reordered; other parties refund at the provider;  *)
(* dispatchers race and crash.  The repository composes these parts in its *)
(* tests and in section 9 of its reconciliation specification; its         *)
(* ActionRegistry, which nothing puts before the outbox, is left out.      *)
(***************************************************************************)
EXTENDS RefundCases

CONSTANTS
  Dispatchers,
  SettledWord,   \* the provider's status of an executed refund, in upper case
  Rogue,         \* [receipt, amount, currency] of refunds others may make
  MaxNow, MaxFacts, MaxMessages
    \* bounds of the model; MaxFacts is of refunds and records together

ASSUME RecoveryAssumption ==
  /\ \A r \in Rogue : r.amount \in Nat /\ r.currency \in STRING
  /\ SettledWord \in STRING /\ None \notin Nat
  /\ {MaxNow, MaxFacts, MaxMessages} \subseteq Nat

VARIABLES
  refunds,  \* the provider's refunds, in the order they were made
  honoured, \* the idempotency keys it has executed
  now,
  raw,      \* the records collected so far, in the order they arrived
  case,     \* per context: its case in the latest batch
  outbox,   \* the messages: [intent, status]
  todo,     \* per dispatcher: the messages of its poll still to go
  pc, reply \* per dispatcher: step, what the provider answered

evidenceVars == <<raw, case>>
worldVars == <<refunds, honoured>>
dispatchVars == <<todo, pc, reply>>
vars == <<worldVars, now, evidenceVars, outbox, dispatchVars>>

Refund == [receipt : Intents \union {r.receipt : r \in Rogue},
           amount : Nat, currency : STRING,
           at : Nat, status : {"PROCESSING", "FAILED", SettledWord},
           by : {"dispatcher", "other"}]

\* A raw record: the normaliser's, or a query's.
Record == [source : {"razorpay_webhook", "razorpay_api"},
           event : {"CREATED", "PROCESSED", "FAILED", "QUERY"},
           entity : 1..MaxFacts \union {None},
           receipt : Intents \union {r.receipt : r \in Rogue},
           status : {"PROCESSING", "FAILED", SettledWord, "UNKNOWN"},
           confidence : {Executed, NotExecuted, "NON_AUTHORITATIVE_QUERY", None},
           at : Nat \union {None},
           amount : Nat \union {None}, currency : STRING \union {None}]

MessageStatuses == {"PENDING", "PROCESSING", "DISPATCHED", "RETRYABLE", "AMBIGUOUS"}

Init ==
  /\ refunds = <<>> /\ honoured = {}
  /\ now = 0
  /\ raw = <<>> /\ case = [c \in Contexts |-> None]
  /\ outbox = <<>>
  /\ todo = [d \in Dispatchers |-> {}]
  /\ pc = [d \in Dispatchers |-> "idle"]
  /\ reply = [d \in Dispatchers |-> "none"]

-----------------------------------------------------------------------------
(* The provider and the collector of raw records.                          *)

NewRefund(receipt, amount, currency, by) ==
  [receipt |-> receipt, amount |-> amount, currency |-> currency,
   at |-> now, status |-> "PROCESSING", by |-> by]

Tick == now < MaxNow /\ now' = now + 1
        /\ UNCHANGED <<worldVars, evidenceVars, outbox, dispatchVars>>

RogueRefund(r) ==
  /\ Len(refunds) + Len(raw) < MaxFacts
  /\ refunds' = Append(refunds, NewRefund(r.receipt, r.amount, r.currency, "other"))
  /\ UNCHANGED <<honoured, now, evidenceVars, outbox, dispatchVars>>

Settle(k) ==
  /\ refunds[k].status = "PROCESSING"
  /\ \E status \in {SettledWord, "FAILED"} : refunds' = [refunds EXCEPT ![k].status = status]
  /\ UNCHANGED <<honoured, now, evidenceVars, outbox, dispatchVars>>

Collect(r) ==
  /\ Len(refunds) + Len(raw) < MaxFacts
  /\ raw' = Append(raw, r)
  /\ UNCHANGED <<worldVars, now, case, outbox, dispatchVars>>

\* Every record of a refund carries the creation time of the refund.
About(k, source, event, status, confidence) ==
  [source |-> source, event |-> event, entity |-> k, receipt |-> refunds[k].receipt,
   status |-> status, confidence |-> confidence, at |-> refunds[k].at,
   amount |-> refunds[k].amount, currency |-> refunds[k].currency]

\* A notification, now or ever after the event it is about.
Notify(k) ==
  \/ Collect(About(k, "razorpay_webhook", "CREATED", "PROCESSING", None))
  \/ refunds[k].status = SettledWord
       /\ Collect(About(k, "razorpay_webhook", "PROCESSED", SettledWord, None))
  \/ refunds[k].status = "FAILED"
       /\ Collect(About(k, "razorpay_webhook", "FAILED", "FAILED", None))

\* RazorpayProviderAdapter.query_refund_status: any refund with the receipt
\* confirms, whatever its status.
Confidence(i) ==
  IF \E k \in DOMAIN refunds : refunds[k].receipt = i THEN Executed ELSE NotExecuted

\* The record of a query that found no refund, with or without its time.
Nothing(i, confidence, at) ==
  [source |-> "razorpay_api", event |-> "QUERY", entity |-> None, receipt |-> i,
   status |-> "UNKNOWN", confidence |-> confidence, at |-> at,
   amount |-> None, currency |-> None]

\* What a query may answer; an incomplete lookup proves nothing.
Answers(i) ==
  {About(k, "razorpay_api", "QUERY", refunds[k].status, Confidence(i)) :
     k \in {j \in DOMAIN refunds : refunds[j].receipt = i}}
  \union {Nothing(i, NotExecuted, at) : at \in IF Confidence(i) = NotExecuted THEN {now, None} ELSE {}}
  \union {Nothing(i, "NON_AUTHORITATIVE_QUERY", None)}

\* A query and the record of its result.
QueryRefund(i) == \E r \in Answers(i) : Collect(r)

-----------------------------------------------------------------------------
(* Reconciliation and control.                                             *)

\* ingest_and_generate_cases over everything collected so far.
GenerateCases ==
  /\ ~Aborts(raw)
  /\ LET results == [c \in Contexts |-> Case(c, raw, now)] IN
     case' \in {f \in [Contexts -> UNION {results[c] : c \in Contexts}] :
                 \A c \in Contexts : f[c] \in results[c]}
  /\ UNCHANGED <<worldVars, now, raw, outbox, dispatchVars>>

\* Mutant of Key: every attempt has a key of its own.
KeyPerAttempt(i, n) == <<i, n>>

\* Refund.get_provider_idempotency_key: of the payment and the intent alone.
Key(i, n) == i

Open == {"PENDING", "PROCESSING", "DISPATCHED"}

\* publish_action, under the lock: refused while an executable action exists.
Publishable(i) == \A m \in DOMAIN outbox : outbox[m].intent = i => outbox[m].status \notin Open

\* An absent execution goes to the control policy with the confidence of some
\* query made before, and what the policy allows is published.
Authorize(i) ==
  /\ case[i] # None /\ case[i].type = "ABSENT_EXECUTION"
  /\ \E k \in DOMAIN raw : raw[k].receipt = i /\ Eligible(case[i].state, raw[k].confidence)
  /\ Publishable(i)
  /\ Len(outbox) < MaxMessages
  /\ outbox' = Append(outbox, [intent |-> i, status |-> "PENDING"])
  /\ UNCHANGED <<worldVars, now, evidenceVars, dispatchVars>>

-----------------------------------------------------------------------------
(* OutboxDispatcher.process_pending.                                       *)

\* The messages of a poll are taken in the order of the outbox.
InHand(d) == Min(todo[d])

SetStatus(m, status) == [outbox EXCEPT ![m].status = status]

Poll(d) ==
  /\ pc[d] = "idle"
  /\ LET pending == {m \in DOMAIN outbox : outbox[m].status = "PENDING"}
     IN pending # {} /\ todo' = [todo EXCEPT ![d] = pending]
  /\ pc' = [pc EXCEPT ![d] = "begin"]
  /\ UNCHANGED <<worldVars, now, evidenceVars, outbox, reply>>

\* The status is set whatever it has become since the poll.
Begin(d) ==
  /\ pc[d] = "begin"
  /\ outbox' = SetStatus(InHand(d), "PROCESSING")
  /\ pc' = [pc EXCEPT ![d] = "send"]
  /\ UNCHANGED <<worldVars, now, evidenceVars, todo, reply>>

\* dispatch_action: the provider executes the refund unless it has honoured
\* the key, and answers, refuses, or the answer is lost before or after.
Send(d) ==
  LET m == InHand(d)
      i == outbox[m].intent
      key == Key(i, m)
      e == Expectation[i]
  IN /\ pc[d] = "send"
     /\ \/ /\ reply' \in {[reply EXCEPT ![d] = r] : r \in {"accepted", "raised"}}
           /\ IF key \in honoured THEN UNCHANGED worldVars
              ELSE /\ Len(refunds) + Len(raw) < MaxFacts
                   /\ refunds' = Append(refunds, NewRefund(i, e.amount, e.currency, "dispatcher"))
                   /\ honoured' = honoured \union {key}
        \/ /\ reply' \in {[reply EXCEPT ![d] = r] : r \in {"refused", "raised"}}
           /\ UNCHANGED worldVars
     /\ pc' = [pc EXCEPT ![d] = "record"]
     /\ UNCHANGED <<now, evidenceVars, outbox, todo>>

RecordReply(d) ==
  /\ pc[d] = "record"
  /\ outbox' = SetStatus(InHand(d), CASE reply[d] = "accepted" -> "DISPATCHED"
                                          [] reply[d] = "refused"  -> "RETRYABLE"
                                          [] OTHER                 -> "AMBIGUOUS")
  /\ todo' = [todo EXCEPT ![d] = @ \ {InHand(d)}]
  /\ pc' = [pc EXCEPT ![d] = IF todo[d] = {InHand(d)} THEN "idle" ELSE "begin"]
  /\ reply' = [reply EXCEPT ![d] = "none"]
  /\ UNCHANGED <<worldVars, now, evidenceVars>>

\* The process dies between two steps of its loop and a new one polls.
Crash(d) ==
  /\ pc[d] # "idle"
  /\ todo' = [todo EXCEPT ![d] = {}]
  /\ pc' = [pc EXCEPT ![d] = "idle"]
  /\ reply' = [reply EXCEPT ![d] = "none"]
  /\ UNCHANGED <<worldVars, now, evidenceVars, outbox>>

Dispatch(d) == Poll(d) \/ Begin(d) \/ Send(d) \/ RecordReply(d)

Next ==
  \/ Tick
  \/ \E r \in Rogue : RogueRefund(r)
  \/ \E k \in DOMAIN refunds : Settle(k) \/ Notify(k)
  \/ \E i \in Intents : QueryRefund(i) \/ Authorize(i)
  \/ GenerateCases
  \/ \E d \in Dispatchers : Dispatch(d) \/ Crash(d)

Spec == Init /\ [][Next]_vars

-----------------------------------------------------------------------------

LedgerTypeOK ==
  /\ refunds \in Seq(Refund) /\ honoured \subseteq {Key(i, m) : i \in Intents, m \in 1..MaxMessages}
  /\ now \in 0..MaxNow

EvidenceTypeOK ==
  /\ raw \in Seq(Record)
  /\ case \in [Contexts -> [type : Discrepancies, state : States] \union {None}]

OutboxTypeOK == outbox \in Seq([intent : Intents, status : MessageStatuses])

DispatchTypeOK ==
  /\ todo \in [Dispatchers -> SUBSET (1..MaxMessages)]
  /\ pc \in [Dispatchers -> {"idle", "begin", "send", "record"}]
  /\ reply \in [Dispatchers -> {"none", "accepted", "refused", "raised"}]

TypeOK == LedgerTypeOK /\ EvidenceTypeOK /\ OutboxTypeOK /\ DispatchTypeOK

\* spec 5.3, and 6 on CONTRADICTED: split-brain evidence settles nothing.  In
\* whatever order its records arrived, and equal times are read, a context whose
\* evidence contradicts itself is neither a match nor a mismatch nor an absence:
\* it waits for its deadline, goes to review, or is an excess already counted.
ContradictionIsNotSettled ==
  \A i \in Intents :
    Contradictory(Observations(i, raw, now)) =>
      \A result \in Case(i, raw, now) :
        result.type \in {"IN_FLIGHT_PENDING", "EPISTEMIC_STALEMATE", "EXCESS_EFFECT"}

\* spec 5.2: an absent execution is proven.  A batch that says so has seen an
\* authoritative denial and nothing, correlated with the intent, that implies an execution.
AbsenceIsProven ==
  [][\A i \in Intents :
       case'[i] # case[i] /\ case'[i].type = "ABSENT_EXECUTION" =>
         /\ \E k \in Observed(i, raw, now) : Denies(raw[k])
         /\ ~\E k \in Observed(i, raw, now) : Confirms(raw[k]) \/ raw[k].status \in Concrete
         /\ now >= Expectation[i].at + Sla]_vars

\* EXCESS_EFFECT is real: the provider made two refunds with the receipt,
\* however often their notifications were repeated.
ExcessIsReal ==
  \A i \in Intents :
    case[i] # None /\ case[i].type = "EXCESS_EFFECT" =>
      Cardinality({k \in DOMAIN refunds : refunds[k].receipt = i}) > 1

\* However often an action is published, sent and sent again, the provider
\* refunds an intent once for the control loop.
OneEffectPerIntent ==
  \A j, k \in DOMAIN refunds :
    refunds[j].by = "dispatcher" /\ refunds[k].by = "dispatcher" /\ j # k =>
      refunds[j].receipt # refunds[k].receipt

\* outbox.py: "at most one executable action can be committed per refund
\* intent operation".
OneExecutableAction ==
  \A m, n \in DOMAIN outbox :
    outbox[m].status \in Open /\ outbox[n].status \in Open /\ m # n =>
      outbox[m].intent # outbox[n].intent

\* spec 8.1, and state/engine.py on equal times: "Deterministic string sorting
\* of observation ID".  The same evidence at the same time is the same case.
SameEvidenceSameCase ==
  \A i \in Intents : Cardinality({result.type : result \in Case(i, raw, now)}) = 1

\* spec 8.4: "Once an EXCESS_EFFECT or VALUE_MISMATCH is identified, it cannot
\* be cleared or demoted by subsequent asynchronous events".
ExcessIsNotCleared ==
  [][\A i \in Intents :
       case[i] # None /\ case[i].type \in {"EXCESS_EFFECT", "VALUE_MISMATCH"} =>
         case'[i].type \in {"EXCESS_EFFECT", "VALUE_MISMATCH"}]_vars

\* A clean match is of a refund the provider made with the intent's receipt, in
\* the intent's time: not of an older one, nor of another intent's, nor of none.
\* The refund may still be PROCESSING, and FAILED when a query saw it: the state
\* engine counts either as executed (MatchIsRefunded is what the spec asks).
MatchHasARefund ==
  \A i \in Intents :
    case[i] # None /\ case[i].type = "MATCH" =>
      \E k \in DOMAIN refunds :
        /\ refunds[k].receipt = i
        /\ refunds[k].at + Buffer >= Expectation[i].at
        /\ refunds[k].at <= Expectation[i].at + Tolerance

\* spec 6: MATCH is for REFUNDED; what is PROCESSING waits (IN_FLIGHT_PENDING)
\* and what FAILED is CONTRADICTORY_TERMINALITY.
MatchIsRefunded ==
  \A i \in Intents :
    case[i] # None /\ case[i].type = "MATCH" =>
      \E k \in DOMAIN refunds : refunds[k].receipt = i /\ refunds[k].status = SettledWord

\* spec 6: MATCH is for an amount and a currency that match the intent's.
MatchIsOfTheAmount ==
  \A i \in Intents :
    case[i] # None /\ case[i].type = "MATCH" =>
      \E k \in DOMAIN refunds : /\ refunds[k].receipt = i
                                /\ refunds[k].amount = Expectation[i].amount
                                /\ refunds[k].currency = Expectation[i].currency

\* spec 6, the row of CONTRADICTORY_TERMINALITY: what FAILED is NOT_EXECUTED.
FailedIsNotExecuted ==
  \A i \in Intents :
    case[i] # None /\ case[i].type = "CONTRADICTORY_TERMINALITY" =>
      case[i].state.execution = "NOT_EXECUTED"
=============================================================================
