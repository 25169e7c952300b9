----------------------- MODULE RefundRecoveryProofs -----------------------
(***************************************************************************)
(* Proofs about RefundRecovery: the key of an intent is what keeps the     *)
(* provider from refunding it twice, and what a case says of the provider  *)
(* is so.                                                                  *)
(***************************************************************************)
EXTENDS RefundRecovery, StateEngineProofs, SequenceTheorems, TLAPS

LedgerIsSeq == \E S : refunds \in Seq(S)

RefundShape(r) ==
  r = [receipt |-> r.receipt, amount |-> r.amount, currency |-> r.currency,
       at |-> r.at, status |-> r.status, by |-> r.by]

RefundShapes == \A k \in DOMAIN refunds : RefundShape(refunds[k])

\* What the control loop had refunded, the provider remembers by its key.
RefundsAreHonoured ==
  \A k \in DOMAIN refunds : refunds[k].by = "dispatcher" => refunds[k].receipt \in honoured

LedgerInv == LedgerIsSeq /\ RefundShapes /\ RefundsAreHonoured /\ OneEffectPerIntent

\* A new entry of the ledger keeps the invariant when its key is new.
LEMMA LedgerGrows ==
  ASSUME LedgerInv, NEW r, RefundShape(r),
         refunds' = Append(refunds, r),
         \/ r.by = "other" /\ honoured' = honoured
         \/ r.by = "dispatcher" /\ r.receipt \notin honoured
              /\ honoured' = honoured \union {r.receipt}
  PROVE  LedgerInv'
<1>1. PICK S : refunds \in Seq(S) BY DEF LedgerInv, LedgerIsSeq
<1>2. refunds \in Seq(S \union {r}) BY <1>1, SeqMonotonic
<1> DEFINE n == Len(refunds)
<1>3. /\ n \in Nat /\ DOMAIN refunds = 1..n /\ DOMAIN refunds' = 1..(n + 1)
      /\ refunds' \in Seq(S \union {r})
      /\ refunds'[n + 1] = r
      /\ \A k \in 1..n : refunds'[k] = refunds[k]
  BY <1>2
<1> HIDE DEF n
<1>4. LedgerIsSeq' BY <1>3 DEF LedgerIsSeq
<1>5. RefundShapes' 
  <2> SUFFICES ASSUME NEW k \in 1..(n + 1) PROVE RefundShape(refunds'[k])
    BY <1>3 DEF RefundShapes, RefundShape
  <2>1. k = n + 1 \/ k \in 1..n BY <1>3
  <2> QED BY <2>1, <1>3 DEF LedgerInv, RefundShapes
<1>6. RefundsAreHonoured'
  <2> SUFFICES ASSUME NEW k \in 1..(n + 1), refunds'[k].by = "dispatcher"
               PROVE  refunds'[k].receipt \in honoured'
    BY <1>3 DEF RefundsAreHonoured
  <2>1. k = n + 1 \/ k \in 1..n BY <1>3
  <2> QED BY <2>1, <1>3 DEF LedgerInv, RefundsAreHonoured
<1>7. OneEffectPerIntent'
  <2> SUFFICES ASSUME NEW j \in 1..(n + 1), NEW k \in 1..(n + 1), j # k,
                      refunds'[j].by = "dispatcher", refunds'[k].by = "dispatcher"
               PROVE  refunds'[j].receipt # refunds'[k].receipt
    BY <1>3 DEF OneEffectPerIntent
  <2>1. CASE j \in 1..n /\ k \in 1..n
    BY <2>1, <1>3 DEF LedgerInv, OneEffectPerIntent
  <2>2. CASE j = n + 1 /\ k \in 1..n
    BY <2>2, <1>3 DEF LedgerInv, RefundsAreHonoured
  <2>3. CASE k = n + 1 /\ j \in 1..n
    BY <2>3, <1>3 DEF LedgerInv, RefundsAreHonoured
  <2> QED BY <1>3, <2>1, <2>2, <2>3
<1> QED BY <1>4, <1>5, <1>6, <1>7 DEF LedgerInv

\* The provider's ledger and its memory of keys agree in every state.
THEOREM LedgerInvariant == Spec => []LedgerInv
<1>1. Init => LedgerInv
  BY EmptySeq DEF Init, LedgerInv, LedgerIsSeq, RefundShapes, RefundsAreHonoured,
     OneEffectPerIntent
<1>2. LedgerInv /\ [Next]_vars => LedgerInv'
  <2> SUFFICES ASSUME LedgerInv, [Next]_vars PROVE LedgerInv' OBVIOUS
  <2>1. ASSUME UNCHANGED worldVars PROVE LedgerInv'
    BY <2>1 DEF worldVars, LedgerInv, LedgerIsSeq, RefundShapes, RefundsAreHonoured,
       OneEffectPerIntent
  <2>2. ASSUME NEW r \in Rogue, RogueRefund(r) PROVE LedgerInv'
    <3> DEFINE e == NewRefund(r.receipt, r.amount, r.currency, "other")
    <3>1. RefundShape(e) /\ e.by = "other" BY DEF RefundShape, NewRefund
    <3>2. refunds' = Append(refunds, e) /\ honoured' = honoured BY <2>2 DEF RogueRefund
    <3> HIDE DEF e
    <3> QED BY <3>1, <3>2, LedgerGrows
  <2>3. ASSUME NEW n \in DOMAIN refunds, Settle(n) PROVE LedgerInv'
    <3>1. PICK status : refunds' = [refunds EXCEPT ![n].status = status]
      BY <2>3 DEF Settle
    <3>2. DOMAIN refunds' = DOMAIN refunds BY <3>1
    <3>3. honoured' = honoured BY <2>3 DEF Settle
    <3>4. ASSUME NEW k \in DOMAIN refunds
          PROVE  /\ RefundShape(refunds'[k])
                 /\ refunds'[k].by = refunds[k].by
                 /\ refunds'[k].receipt = refunds[k].receipt
      <4>1. RefundShape(refunds[k]) BY DEF LedgerInv, RefundShapes
      <4>2. CASE k # n
        BY <3>1, <4>1, <4>2
      <4>3. CASE k = n
        <5> DEFINE r == refunds[k]
        <5>1. refunds'[k] = [r EXCEPT !.status = status] BY <3>1, <4>3
        <5>2. r = [receipt |-> r.receipt, amount |-> r.amount, currency |-> r.currency,
                   at |-> r.at, status |-> r.status, by |-> r.by]
          BY <4>1 DEF RefundShape
        <5> HIDE DEF r
        <5>3. [r EXCEPT !.status = status] =
                [receipt |-> r.receipt, amount |-> r.amount, currency |-> r.currency,
                 at |-> r.at, status |-> status, by |-> r.by]
          BY <5>2
        <5> QED BY <5>1, <5>3 DEF RefundShape, r
      <4> QED BY <4>2, <4>3
    <3>5. LedgerIsSeq'
      <4>1. PICK S : refunds \in Seq(S) BY DEF LedgerInv, LedgerIsSeq
      <4>2. refunds \in Seq(S \union {refunds'[n]}) BY <4>1, SeqMonotonic
      <4>3. n \in 1..Len(refunds) BY <4>1
      <4>4. refunds' = [refunds EXCEPT ![n] = refunds'[n]] BY <3>1
      <4>5. [refunds EXCEPT ![n] = refunds'[n]] \in Seq(S \union {refunds'[n]})
        BY <4>2, <4>3, ExceptSeq
      <4> QED BY <4>4, <4>5 DEF LedgerIsSeq
    <3>6. RefundShapes' BY <3>2, <3>4 DEF RefundShapes, RefundShape
    <3>7. RefundsAreHonoured' BY <3>2, <3>3, <3>4 DEF LedgerInv, RefundsAreHonoured
    <3>8. OneEffectPerIntent' BY <3>2, <3>4 DEF LedgerInv, OneEffectPerIntent
    <3> QED BY <3>5, <3>6, <3>7, <3>8 DEF LedgerInv
  <2>4. ASSUME NEW d \in Dispatchers, Send(d) PROVE LedgerInv'
    <3> DEFINE m == InHand(d)
               i == outbox[m].intent
               e == NewRefund(i, Expectation[i].amount, Expectation[i].currency, "dispatcher")
    <3>1. CASE UNCHANGED worldVars BY <3>1, <2>1
    <3>2. CASE /\ i \notin honoured /\ refunds' = Append(refunds, e)
               /\ honoured' = honoured \union {i}
      <4>1. RefundShape(e) /\ e.by = "dispatcher" /\ e.receipt = i
        BY DEF RefundShape, NewRefund
      <4> HIDE DEF e, i
      <4> QED BY <3>2, <4>1, LedgerGrows
    <3> QED BY <2>4, <3>1, <3>2 DEF Send, Key
  <2> QED
    BY <2>1, <2>2, <2>3, <2>4
    DEF Next, vars, worldVars, evidenceVars, dispatchVars, Tick, Notify, Collect,
        QueryRefund, GenerateCases, Authorize, Dispatch, Poll, Begin, RecordReply, Crash
<1> QED BY <1>1, <1>2, PTL DEF Spec

\* One financial effect per intent, whatever the dispatchers repeat.
THEOREM RefundedOnce == Spec => []OneEffectPerIntent
BY LedgerInvariant, PTL DEF LedgerInv

-----------------------------------------------------------------------------
(* Types.                                                                  *)

\* A dispatcher at work has messages of the outbox left.
Queued(d) == todo[d] \subseteq DOMAIN outbox /\ (pc[d] # "idle" => todo[d] # {})

QueueOK == Len(outbox) <= MaxMessages /\ \A d \in Dispatchers : Queued(d)

TypeInv == TypeOK /\ QueueOK

\* The observations of a context are finitely many.
LEMMA ObservationsAreFinite ==
  ASSUME NEW c, NEW log \in Seq(Record), NEW t
  PROVE  /\ IsFiniteSet(DOMAIN log) /\ IsFiniteSet(DOMAIN Observations(c, log, t))
         /\ DOMAIN Observations(c, log, t) = Observed(c, log, t)
         /\ Observed(c, log, t) \subseteq Records(c, log)
         /\ Records(c, log) \subseteq DOMAIN log
<1>1. DOMAIN log = 1..Len(log) /\ Len(log) \in Int /\ 1 \in Int OBVIOUS
<1>2. IsFiniteSet(DOMAIN log) BY <1>1, FS_Interval
<1>3. DOMAIN Observations(c, log, t) = Observed(c, log, t) BY DEF Observations
<1>4. Observed(c, log, t) \subseteq Records(c, log) BY DEF Observed
<1>5. Records(c, log) \subseteq DOMAIN log BY DEF Records
<1> QED BY <1>2, <1>3, <1>4, <1>5, FS_Subset

\* A case of a context comes with a state its observations reconstruct.
LEMMA CaseHasAState ==
  ASSUME NEW c, NEW log \in Seq(Record), NEW t, NEW x \in Case(c, log, t), c # Orphans \/ x # None
  PROVE  \E s \in SortedOrders(Observations(c, log, t)) :
           \E record :
             x = [type |-> IF c = Orphans THEN ClassifyOrphan(Reconstruct(s))
                           ELSE Classify(Expectation[c], Reconstruct(s), t, record, Executions(c, log)),
                  state |-> Reconstruct(s)]
<1> DEFINE r == IF Observed(c, log, t) = {} THEN None ELSE Latest(c, log, t)
           type(k) == IF c = Orphans THEN ClassifyOrphan(k)
                      ELSE Classify(Expectation[c], k, t, r, Executions(c, log))
<1>1. x \in {[type |-> type(k), state |-> k] :
               k \in {Reconstruct(s) : s \in SortedOrders(Observations(c, log, t))}}
  BY DEF Case
<1> HIDE DEF r
<1> QED BY <1>1

LEMMA CaseType ==
  ASSUME NEW c, NEW log \in Seq(Record), NEW t
  PROVE  Case(c, log, t) \subseteq [type : Discrepancies, state : States] \union {None}
<1> SUFFICES ASSUME NEW x \in Case(c, log, t), x # None
             PROVE  x \in [type : Discrepancies, state : States]
  OBVIOUS
<1>1. PICK s \in SortedOrders(Observations(c, log, t)) :
        \E record :
          x = [type |-> IF c = Orphans THEN ClassifyOrphan(Reconstruct(s))
                        ELSE Classify(Expectation[c], Reconstruct(s), t, record, Executions(c, log)),
               state |-> Reconstruct(s)]
  BY CaseHasAState
<1>2. Reconstruct(s) \in States
  BY ObservationsAreFinite, OrdersAreSequences, ReconstructType
<1>3. \A e, k, r, n : Classify(e, k, t, r, n) \in Discrepancies
  BY DEF Classify, ClassifyExecution, ClassifyUnexecuted, Discrepancies
<1>4. \A k : ClassifyOrphan(k) \in Discrepancies
  BY DEF ClassifyOrphan, Discrepancies
<1> QED BY <1>1, <1>2, <1>3, <1>4

\* What is collected is a record.
LEMMA AnswersAreRecords ==
  ASSUME TypeOK, NEW i \in Intents, NEW r \in Answers(i),
         Len(refunds) + Len(raw) < MaxFacts
  PROVE  r \in Record
<1>1. DOMAIN refunds \subseteq 1..MaxFacts
  BY RecoveryAssumption DEF TypeOK, LedgerTypeOK, EvidenceTypeOK
<1>2. \A at \in {now, None} : at \in Nat \union {None} BY DEF TypeOK, LedgerTypeOK
<1>3. \A at \in Nat \union {None}, c \in {NotExecuted, "NON_AUTHORITATIVE_QUERY"} :
        Nothing(i, c, at) \in Record
  BY DEF Nothing, Record
<1>4. ASSUME NEW k \in DOMAIN refunds
      PROVE  About(k, "razorpay_api", "QUERY", refunds[k].status, Confidence(i)) \in Record
  <2>1. refunds[k] \in Refund BY DEF TypeOK, LedgerTypeOK
  <2>2. Confidence(i) \in {Executed, NotExecuted} BY DEF Confidence
  <2> QED BY <1>1, <2>1, <2>2 DEF About, Record, Refund
<1>5. \/ \E k \in DOMAIN refunds :
             r = About(k, "razorpay_api", "QUERY", refunds[k].status, Confidence(i))
      \/ \E at \in {now, None} : r = Nothing(i, NotExecuted, at)
      \/ r = Nothing(i, "NON_AUTHORITATIVE_QUERY", None)
  BY DEF Answers
<1>6. None \in Nat \union {None} OBVIOUS
<1> QED BY <1>2, <1>3, <1>4, <1>5, <1>6

LEMMA NoticesAreRecords ==
  ASSUME TypeOK, NEW k \in DOMAIN refunds, Len(refunds) + Len(raw) < MaxFacts,
         NEW event \in {"CREATED", "PROCESSED", "FAILED"},
         NEW status \in {"PROCESSING", "FAILED", SettledWord}
  PROVE  About(k, "razorpay_webhook", event, status, None) \in Record
<1>1. k \in 1..MaxFacts BY RecoveryAssumption DEF TypeOK, LedgerTypeOK, EvidenceTypeOK
<1>2. refunds[k] \in Refund BY DEF TypeOK, LedgerTypeOK
<1> QED BY <1>1, <1>2 DEF About, Record, Refund

\* A refund the provider makes is one.
LEMMA NewRefundType ==
  ASSUME TypeOK, NEW receipt \in Intents \union {r.receipt : r \in Rogue},
         NEW amount \in Nat, NEW currency \in STRING, NEW by \in {"dispatcher", "other"}
  PROVE  NewRefund(receipt, amount, currency, by) \in Refund
BY DEF TypeOK, LedgerTypeOK, NewRefund, Refund

\* What a dispatcher has in hand is a message of the outbox.
LEMMA InHandIsQueued ==
  ASSUME TypeInv, NEW d \in Dispatchers, pc[d] # "idle"
  PROVE  InHand(d) \in todo[d] /\ InHand(d) \in DOMAIN outbox /\ InHand(d) \in 1..MaxMessages
<1>1. todo[d] # {} /\ todo[d] \subseteq DOMAIN outbox BY DEF TypeInv, QueueOK, Queued
<1>2. todo[d] \subseteq 1..MaxMessages BY DEF TypeInv, TypeOK, DispatchTypeOK
<1> DEFINE T == {n \in Nat : \A m \in todo[d] : m <= n => \E x \in todo[d] : \A y \in todo[d] : x <= y}
<1>3. 0 \in T BY <1>2
<1>4. ASSUME NEW n \in Nat, n \in T PROVE n + 1 \in T
  <2> SUFFICES ASSUME NEW m \in todo[d], m <= n + 1
               PROVE  \E x \in todo[d] : \A y \in todo[d] : x <= y
    OBVIOUS
  <2>1. CASE \E y \in todo[d] : y <= n BY <1>4, <2>1
  <2>2. CASE \A y \in todo[d] : ~(y <= n)
    <3>1. \A y \in todo[d] : m <= y BY <1>2, <2>2
    <3> QED BY <3>1
  <2> QED BY <2>1, <2>2
<1>5. Nat \subseteq T
  <2> HIDE DEF T
  <2> QED BY <1>3, <1>4, SetInduction
<1>6. PICK m : m \in todo[d] BY <1>1
<1>7. m \in T /\ m <= m BY <1>2, <1>5, <1>6
<1>8. \E x \in todo[d] : \A y \in todo[d] : x <= y BY <1>6, <1>7
<1>9. InHand(d) \in todo[d] BY <1>8 DEF InHand, Min
<1> QED BY <1>1, <1>2, <1>9

LEMMA StatusType ==
  ASSUME TypeInv, NEW m \in DOMAIN outbox, NEW status \in MessageStatuses
  PROVE  /\ SetStatus(m, status) \in Seq([intent : Intents, status : MessageStatuses])
         /\ DOMAIN SetStatus(m, status) = DOMAIN outbox
         /\ Len(SetStatus(m, status)) = Len(outbox)
<1> DEFINE M == [intent : Intents, status : MessageStatuses]
           e == [outbox[m] EXCEPT !.status = status]
<1>1. outbox \in Seq(M) /\ m \in 1..Len(outbox) BY DEF TypeInv, TypeOK, OutboxTypeOK
<1>2. outbox[m] \in M
  <2> HIDE DEF M
  <2> QED BY <1>1
<1>3. e \in M BY <1>2
<1>4. SetStatus(m, status) = [outbox EXCEPT ![m] = e] BY DEF SetStatus
<1> HIDE DEF M, e
<1>5. [outbox EXCEPT ![m] = e] \in Seq(M) /\ Len([outbox EXCEPT ![m] = e]) = Len(outbox)
  BY <1>1, <1>3, ExceptSeq
<1> QED BY <1>1, <1>4, <1>5 DEF M

\* What a step leaves alone keeps its type.
LEMMA TypesUnchanged ==
  ASSUME TypeInv
  PROVE  /\ UNCHANGED <<worldVars, now>> => LedgerTypeOK'
         /\ UNCHANGED evidenceVars => EvidenceTypeOK'
         /\ UNCHANGED outbox => OutboxTypeOK'
         /\ UNCHANGED dispatchVars => DispatchTypeOK'
         /\ UNCHANGED <<outbox, dispatchVars>> => QueueOK'
<1>1. LedgerTypeOK /\ EvidenceTypeOK /\ OutboxTypeOK /\ DispatchTypeOK /\ QueueOK
  BY DEF TypeInv, TypeOK
<1>2. UNCHANGED <<worldVars, now>> => LedgerTypeOK' BY <1>1 DEF worldVars, LedgerTypeOK
<1>3. UNCHANGED evidenceVars => EvidenceTypeOK' BY <1>1 DEF evidenceVars, EvidenceTypeOK
<1>4. UNCHANGED outbox => OutboxTypeOK' BY <1>1 DEF OutboxTypeOK
<1>5. UNCHANGED dispatchVars => DispatchTypeOK' BY <1>1 DEF dispatchVars, DispatchTypeOK
<1>6. UNCHANGED <<outbox, dispatchVars>> => QueueOK'
  BY <1>1 DEF dispatchVars, QueueOK, Queued
<1> QED BY <1>2, <1>3, <1>4, <1>5, <1>6

\* The types, and the queue of every dispatcher.
THEOREM TypeInvariant == Spec => []TypeInv
<1>1. Init => TypeInv
  <2> SUFFICES ASSUME Init PROVE TypeInv OBVIOUS
  <2>1. <<>> \in Seq(Refund) /\ <<>> \in Seq(Record)
        /\ <<>> \in Seq([intent : Intents, status : MessageStatuses]) /\ Len(<<>>) = 0
    BY EmptySeq
  <2>2. LedgerTypeOK BY <2>1, RecoveryAssumption DEF Init, LedgerTypeOK
  <2>3. EvidenceTypeOK BY <2>1 DEF Init, EvidenceTypeOK
  <2>4. OutboxTypeOK BY <2>1 DEF Init, OutboxTypeOK
  <2>5. DispatchTypeOK BY DEF Init, DispatchTypeOK
  <2>6. QueueOK BY <2>1, RecoveryAssumption DEF Init, QueueOK, Queued
  <2> QED BY <2>2, <2>3, <2>4, <2>5, <2>6 DEF TypeInv, TypeOK
<1>2. TypeInv /\ [Next]_vars => TypeInv'
  <2> SUFFICES ASSUME TypeInv, [Next]_vars PROVE TypeInv' OBVIOUS
  <2>0. TypeOK /\ LedgerTypeOK /\ EvidenceTypeOK /\ OutboxTypeOK /\ DispatchTypeOK /\ QueueOK
    BY DEF TypeInv, TypeOK
  <2>1. CASE UNCHANGED vars
    BY <2>1, TypesUnchanged DEF vars, TypeInv, TypeOK, worldVars, evidenceVars, dispatchVars
  <2>2. CASE Tick
    <3>1. LedgerTypeOK' BY <2>0, <2>2, RecoveryAssumption DEF Tick, worldVars, LedgerTypeOK
    <3> QED BY <2>2, <3>1, TypesUnchanged DEF Tick, TypeInv, TypeOK
  <2>3. ASSUME NEW r \in Rogue, RogueRefund(r) PROVE TypeInv'
    <3> DEFINE e == NewRefund(r.receipt, r.amount, r.currency, "other")
    <3>1. e \in Refund BY <2>0, NewRefundType, RecoveryAssumption
    <3>2. refunds' = Append(refunds, e)
          /\ UNCHANGED <<honoured, now, evidenceVars, outbox, dispatchVars>>
      BY <2>3 DEF RogueRefund
    <3> HIDE DEF e
    <3>3. refunds' \in Seq(Refund) BY <2>0, <3>1, <3>2 DEF LedgerTypeOK
    <3>4. LedgerTypeOK' BY <2>0, <3>2, <3>3 DEF LedgerTypeOK
    <3> QED BY <3>2, <3>4, TypesUnchanged DEF TypeInv, TypeOK
  <2>4. ASSUME NEW k \in DOMAIN refunds, Settle(k) PROVE TypeInv'
    <3>1. PICK status \in {SettledWord, "FAILED"} :
               refunds' = [refunds EXCEPT ![k] = [refunds[k] EXCEPT !.status = status]]
      BY <2>4 DEF Settle
    <3>2. k \in 1..Len(refunds) /\ refunds[k] \in Refund /\ refunds \in Seq(Refund)
      BY <2>0 DEF LedgerTypeOK
    <3>3. [refunds[k] EXCEPT !.status = status] \in Refund BY <3>2 DEF Refund
    <3>4. refunds' \in Seq(Refund) BY <3>1, <3>2, <3>3, ExceptSeq
    <3>5. UNCHANGED <<honoured, now, evidenceVars, outbox, dispatchVars>>
      BY <2>4 DEF Settle
    <3>6. LedgerTypeOK' BY <2>0, <3>4, <3>5 DEF LedgerTypeOK
    <3> QED BY <3>5, <3>6, TypesUnchanged DEF TypeInv, TypeOK
  <2>5. ASSUME NEW r \in Record, Collect(r) PROVE TypeInv'
    <3>1. raw' \in Seq(Record) BY <2>0, <2>5 DEF Collect, EvidenceTypeOK
    <3>2. UNCHANGED <<worldVars, now, case, outbox, dispatchVars>> BY <2>5 DEF Collect
    <3>3. EvidenceTypeOK' BY <2>0, <3>1, <3>2 DEF EvidenceTypeOK
    <3> QED BY <3>2, <3>3, TypesUnchanged DEF TypeInv, TypeOK
  <2>6. ASSUME NEW k \in DOMAIN refunds, Notify(k) PROVE TypeInv'
    <3>1. PICK event \in {"CREATED", "PROCESSED", "FAILED"},
               status \in {"PROCESSING", "FAILED", SettledWord} :
               Collect(About(k, "razorpay_webhook", event, status, None))
      BY <2>6 DEF Notify
    <3>2. Len(refunds) + Len(raw) < MaxFacts BY <3>1 DEF Collect
    <3> QED BY <2>0, <2>5, <3>1, <3>2, NoticesAreRecords
  <2>7. ASSUME NEW i \in Intents, QueryRefund(i) PROVE TypeInv'
    <3>1. PICK r \in Answers(i) : Collect(r) BY <2>7 DEF QueryRefund
    <3>2. Len(refunds) + Len(raw) < MaxFacts BY <3>1 DEF Collect
    <3> QED BY <2>0, <2>5, <3>1, <3>2, AnswersAreRecords
  <2>8. ASSUME NEW i \in Intents, Authorize(i) PROVE TypeInv'
    <3> DEFINE M == [intent : Intents, status : MessageStatuses]
               e == [intent |-> i, status |-> "PENDING"]
    <3>1. e \in M BY DEF MessageStatuses
    <3>2. outbox' = Append(outbox, e) /\ Len(outbox) < MaxMessages BY <2>8 DEF Authorize
    <3>3. outbox \in Seq(M) BY <2>0 DEF OutboxTypeOK
    <3> HIDE DEF M, e
    <3>4. outbox' \in Seq(M) /\ Len(outbox') = Len(outbox) + 1
          /\ DOMAIN outbox \subseteq DOMAIN outbox'
      BY <3>1, <3>2, <3>3
    <3>5. Len(outbox) \in Nat /\ Len(outbox) + 1 \in 1..MaxMessages
      BY <3>2, <3>3, RecoveryAssumption
    <3>6. Len(outbox') <= MaxMessages BY <3>4, <3>5, RecoveryAssumption
    <3>7. UNCHANGED <<worldVars, now, evidenceVars, dispatchVars>> BY <2>8 DEF Authorize
    <3>8. OutboxTypeOK' BY <3>4 DEF M, OutboxTypeOK
    <3>9. QueueOK' BY <2>0, <3>4, <3>6, <3>7 DEF dispatchVars, QueueOK, Queued
    <3> QED BY <3>7, <3>8, <3>9, TypesUnchanged DEF TypeInv, TypeOK
  <2>9. CASE GenerateCases
    <3> DEFINE results == [c \in Contexts |-> Case(c, raw, now)]
               C == [type : Discrepancies, state : States] \union {None}
    <3>1. case' \in {f \in [Contexts -> UNION {results[c] : c \in Contexts}] :
                      \A c \in Contexts : f[c] \in results[c]}
      BY <2>9 DEF GenerateCases
    <3>2. \A c \in Contexts : results[c] \subseteq C
      BY <2>0, CaseType DEF EvidenceTypeOK
    <3> HIDE DEF results, C
    <3>3. case' \in [Contexts -> C] BY <3>1, <3>2
    <3>4. UNCHANGED <<worldVars, now, raw, outbox, dispatchVars>> BY <2>9 DEF GenerateCases
    <3>5. EvidenceTypeOK' BY <2>0, <3>3, <3>4 DEF C, EvidenceTypeOK
    <3> QED BY <3>4, <3>5, TypesUnchanged DEF TypeInv, TypeOK
  <2>10. ASSUME NEW d \in Dispatchers, Poll(d) PROVE TypeInv'
    <3> DEFINE pending == {m \in DOMAIN outbox : outbox[m].status = "PENDING"}
    <3>1. pending \subseteq DOMAIN outbox /\ pending \subseteq 1..MaxMessages
      BY <2>0, RecoveryAssumption DEF OutboxTypeOK, QueueOK
    <3>2. /\ pending # {} /\ todo' = [todo EXCEPT ![d] = pending]
          /\ pc' = [pc EXCEPT ![d] = "begin"]
          /\ UNCHANGED <<worldVars, now, evidenceVars, outbox, reply>>
      BY <2>10 DEF Poll
    <3> HIDE DEF pending
    <3>3. DispatchTypeOK' BY <2>0, <3>1, <3>2 DEF DispatchTypeOK
    <3>4. QueueOK'
      <4>1. Len(outbox') <= MaxMessages BY <2>0, <3>2 DEF QueueOK
      <4>2. ASSUME NEW x \in Dispatchers PROVE Queued(x)'
        BY <2>0, <3>1, <3>2 DEF QueueOK, Queued, DispatchTypeOK
      <4> QED BY <4>1, <4>2 DEF QueueOK
    <3> QED BY <3>2, <3>3, <3>4, TypesUnchanged DEF TypeInv, TypeOK
  <2>11. ASSUME NEW d \in Dispatchers, Begin(d) PROVE TypeInv'
    <3>0. /\ pc[d] = "begin" /\ outbox' = SetStatus(InHand(d), "PROCESSING")
          /\ pc' = [pc EXCEPT ![d] = "send"]
          /\ UNCHANGED <<worldVars, now, evidenceVars, todo, reply>>
      BY <2>11 DEF Begin
    <3>1. InHand(d) \in DOMAIN outbox /\ "PROCESSING" \in MessageStatuses
      BY <3>0, InHandIsQueued DEF MessageStatuses
    <3>2. outbox' \in Seq([intent : Intents, status : MessageStatuses])
          /\ DOMAIN outbox' = DOMAIN outbox /\ Len(outbox') = Len(outbox)
      BY <3>0, <3>1, StatusType
    <3>3. OutboxTypeOK' BY <2>0, <3>0, <3>2 DEF OutboxTypeOK
    <3>4. DispatchTypeOK' BY <2>0, <3>0 DEF DispatchTypeOK
    <3>5. QueueOK' BY <2>0, <3>0, <3>2 DEF QueueOK, Queued, DispatchTypeOK
    <3> QED BY <3>0, <3>3, <3>4, <3>5, TypesUnchanged DEF TypeInv, TypeOK
  <2>12. ASSUME NEW d \in Dispatchers, Send(d) PROVE TypeInv'
    <3> DEFINE m == InHand(d)
               i == outbox[m].intent
               e == NewRefund(i, Expectation[i].amount, Expectation[i].currency, "dispatcher")
    <3>0. pc[d] = "send" BY <2>12 DEF Send
    <3>1. m \in DOMAIN outbox /\ m \in 1..MaxMessages BY <3>0, InHandIsQueued
    <3>2. i \in Intents
      <4> HIDE DEF m
      <4> DEFINE M == [intent : Intents, status : MessageStatuses]
      <4>1. outbox \in Seq(M) BY <2>0 DEF OutboxTypeOK
      <4> HIDE DEF M
      <4>2. outbox[m] \in M BY <3>1, <4>1
      <4> QED BY <4>2 DEF M
    <3>3. e \in Refund
      <4>1. Expectation[i].amount \in Nat /\ Expectation[i].currency \in STRING
        BY <3>2, CasesAssumption
      <4> HIDE DEF i
      <4> QED BY <2>0, <3>2, <4>1, NewRefundType
    <3>4. \/ UNCHANGED worldVars
          \/ refunds' = Append(refunds, e) /\ honoured' = honoured \union {Key(i, m)}
      BY <2>12 DEF Send
    <3>5. \E x \in {"accepted", "refused", "raised"} : reply' = [reply EXCEPT ![d] = x]
      BY <2>12 DEF Send
    <3>6. /\ pc' = [pc EXCEPT ![d] = "record"] /\ pc[d] = "send"
          /\ UNCHANGED <<now, evidenceVars, outbox, todo>>
      BY <2>12 DEF Send
    <3> HIDE DEF e, i, m
    <3>7. refunds' \in Seq(Refund)
      <4>1. CASE UNCHANGED worldVars BY <2>0, <4>1 DEF LedgerTypeOK, worldVars
      <4>2. CASE refunds' = Append(refunds, e) BY <2>0, <3>3, <4>2 DEF LedgerTypeOK
      <4> QED BY <3>4, <4>1, <4>2
    <3>8. honoured' \subseteq {Key(j, n) : j \in Intents, n \in 1..MaxMessages}
      <4>1. CASE UNCHANGED worldVars BY <2>0, <4>1 DEF LedgerTypeOK, worldVars
      <4>2. CASE honoured' = honoured \union {Key(i, m)}
        BY <2>0, <3>1, <3>2, <4>2 DEF LedgerTypeOK
      <4> QED BY <3>4, <4>1, <4>2
    <3>9. LedgerTypeOK' BY <2>0, <3>6, <3>7, <3>8 DEF LedgerTypeOK
    <3>10. DispatchTypeOK' BY <2>0, <3>5, <3>6 DEF DispatchTypeOK
    <3>11. QueueOK' BY <2>0, <3>6 DEF QueueOK, Queued, DispatchTypeOK
    <3> QED BY <3>6, <3>9, <3>10, <3>11, TypesUnchanged DEF TypeInv, TypeOK
  <2>13. ASSUME NEW d \in Dispatchers, RecordReply(d) PROVE TypeInv'
    <3>1. /\ todo' = [todo EXCEPT ![d] = todo[d] \ {InHand(d)}] /\ pc[d] = "record"
          /\ pc' = [pc EXCEPT ![d] = IF todo[d] = {InHand(d)} THEN "idle" ELSE "begin"]
          /\ reply' = [reply EXCEPT ![d] = "none"]
          /\ UNCHANGED <<worldVars, now, evidenceVars>>
      BY <2>13 DEF RecordReply
    <3>2. InHand(d) \in DOMAIN outbox /\ InHand(d) \in todo[d] BY <3>1, InHandIsQueued
    <3>3. PICK status \in MessageStatuses : outbox' = SetStatus(InHand(d), status)
      BY <2>13 DEF RecordReply, MessageStatuses
    <3>4. outbox' \in Seq([intent : Intents, status : MessageStatuses])
          /\ DOMAIN outbox' = DOMAIN outbox /\ Len(outbox') = Len(outbox)
      BY <3>2, <3>3, StatusType
    <3>5. OutboxTypeOK' BY <2>0, <3>1, <3>4 DEF OutboxTypeOK
    <3>6. DispatchTypeOK' BY <2>0, <3>1 DEF DispatchTypeOK
    <3>7. QueueOK'
      <4>1. Len(outbox') <= MaxMessages BY <2>0, <3>4 DEF QueueOK
      <4>2. ASSUME NEW x \in Dispatchers PROVE Queued(x)'
        <5>1. Queued(x) BY <2>0 DEF QueueOK
        <5>2. CASE x # d
          <6>1. todo'[x] = todo[x] /\ pc'[x] = pc[x] BY <2>0, <3>1, <5>2 DEF DispatchTypeOK
          <6> QED BY <3>4, <5>1, <6>1 DEF Queued
        <5>3. CASE x = d
          <6>1. /\ todo'[x] = todo[d] \ {InHand(d)}
                /\ pc'[x] = IF todo[d] = {InHand(d)} THEN "idle" ELSE "begin"
            BY <2>0, <3>1, <5>3 DEF DispatchTypeOK
          <6> QED BY <3>2, <3>4, <5>1, <5>3, <6>1 DEF Queued
        <5> QED BY <5>2, <5>3
      <4> QED BY <4>1, <4>2 DEF QueueOK
    <3> QED BY <3>1, <3>5, <3>6, <3>7, TypesUnchanged DEF TypeInv, TypeOK
  <2>14. ASSUME NEW d \in Dispatchers, Crash(d) PROVE TypeInv'
    <3>1. /\ todo' = [todo EXCEPT ![d] = {}] /\ pc' = [pc EXCEPT ![d] = "idle"]
          /\ reply' = [reply EXCEPT ![d] = "none"]
          /\ UNCHANGED <<worldVars, now, evidenceVars, outbox>>
      BY <2>14 DEF Crash
    <3>2. DispatchTypeOK' BY <2>0, <3>1 DEF DispatchTypeOK
    <3>3. QueueOK' BY <2>0, <3>1 DEF QueueOK, Queued, DispatchTypeOK
    <3> QED BY <3>1, <3>2, <3>3, TypesUnchanged DEF TypeInv, TypeOK
  <2> QED
    BY <2>1, <2>2, <2>3, <2>4, <2>6, <2>7, <2>8, <2>9, <2>10, <2>11, <2>12, <2>13, <2>14
    DEF Next, Dispatch
<1> QED BY <1>1, <1>2, PTL DEF Spec

\* RefundRecovery.TypeOK.
THEOREM TypeCorrect == Spec => []TypeOK
BY TypeInvariant, PTL DEF TypeInv

-----------------------------------------------------------------------------
(* The records and the provider's ledger.                                  *)

\* A record of a refund carries its receipt and its time and never denies it;
\* one of no refund tells of none.
OfRefund(r) ==
  /\ r.entity \in DOMAIN refunds
  /\ r.receipt = refunds[r.entity].receipt /\ r.at = refunds[r.entity].at
  /\ r.confidence # NotExecuted
  /\ r.source # "razorpay_api" => r.confidence = None

OfNone(r) == r.source = "razorpay_api" /\ r.status = "UNKNOWN" /\ r.confidence # Executed

RecordsAreReal == \A k \in DOMAIN raw : OfRefund(raw[k]) \/ OfNone(raw[k])

\* No refund leaves the ledger, changes its receipt or its time.
LedgerGrowth ==
  /\ DOMAIN refunds \subseteq DOMAIN refunds'
  /\ \A k \in DOMAIN refunds : /\ refunds'[k].receipt = refunds[k].receipt
                              /\ refunds'[k].at = refunds[k].at

LEMMA LedgerOnlyGrows == ASSUME TypeInv, [Next]_vars PROVE LedgerGrowth
<1>0. refunds \in Seq(Refund) BY DEF TypeInv, TypeOK, LedgerTypeOK
<1>1. CASE UNCHANGED refunds BY <1>1 DEF LedgerGrowth
<1>2. ASSUME NEW e, refunds' = Append(refunds, e) PROVE LedgerGrowth
  <2>1. refunds \in Seq(Refund \union {e}) /\ e \in Refund \union {e} BY <1>0, SeqMonotonic
  <2>2. DOMAIN refunds \subseteq DOMAIN refunds' /\ \A k \in DOMAIN refunds : refunds'[k] = refunds[k]
    BY <1>2, <2>1
  <2> QED BY <2>2 DEF LedgerGrowth
<1>3. ASSUME NEW k \in DOMAIN refunds, Settle(k) PROVE LedgerGrowth
  <2>1. PICK status : refunds' = [refunds EXCEPT ![k] = [refunds[k] EXCEPT !.status = status]]
    BY <1>3 DEF Settle
  <2>2. refunds[k] \in Refund BY <1>0
  <2>3. [refunds[k] EXCEPT !.status = status].receipt = refunds[k].receipt
        /\ [refunds[k] EXCEPT !.status = status].at = refunds[k].at
    BY <2>2 DEF Refund
  <2> QED BY <2>1, <2>3 DEF LedgerGrowth
<1> QED
  BY <1>1, <1>2, <1>3
  DEF Next, vars, worldVars, evidenceVars, dispatchVars, Tick, RogueRefund, Notify,
      Collect, QueryRefund, GenerateCases, Authorize, Dispatch, Poll, Begin, Send, RecordReply, Crash

LEMMA NewRecordIsReal ==
  ASSUME TypeInv, NEW r, r \in Record, Collect(r), OfRefund(r) \/ OfNone(r), RecordsAreReal
  PROVE  RecordsAreReal'
<1>1. raw \in Seq(Record) /\ raw' = Append(raw, r) /\ refunds' = refunds
  BY DEF TypeInv, TypeOK, EvidenceTypeOK, Collect, worldVars
<1>2. \A k \in DOMAIN raw' : raw'[k] = r \/ (k \in DOMAIN raw /\ raw'[k] = raw[k]) BY <1>1
<1>3. \A x : (OfRefund(x) \/ OfNone(x)) => (OfRefund(x) \/ OfNone(x))' BY <1>1 DEF OfRefund, OfNone
<1> QED BY <1>2, <1>3 DEF RecordsAreReal, OfRefund, OfNone

\* However late, repeated or out of order the records arrive, they speak of
\* refunds the provider made.
THEOREM RecordsAreOfTheLedger == Spec => []RecordsAreReal
<1>1. Init => RecordsAreReal BY EmptySeq DEF Init, RecordsAreReal
<1>2. TypeInv /\ RecordsAreReal /\ [Next]_vars => RecordsAreReal'
  <2> SUFFICES ASSUME TypeInv, RecordsAreReal, [Next]_vars PROVE RecordsAreReal' OBVIOUS
  <2>0. TypeOK BY DEF TypeInv
  <2>1. CASE UNCHANGED raw
    <3>1. \A x : (OfRefund(x) \/ OfNone(x)) => (OfRefund(x) \/ OfNone(x))'
      BY LedgerOnlyGrows DEF LedgerGrowth, OfRefund, OfNone
    <3> QED BY <2>1, <3>1 DEF RecordsAreReal, OfRefund, OfNone
  <2>2. ASSUME NEW k \in DOMAIN refunds, Notify(k) PROVE RecordsAreReal'
    <3>1. PICK event \in {"CREATED", "PROCESSED", "FAILED"},
               status \in {"PROCESSING", "FAILED", SettledWord} :
               Collect(About(k, "razorpay_webhook", event, status, None))
      BY <2>2 DEF Notify
    <3> DEFINE r == About(k, "razorpay_webhook", event, status, None)
    <3>2. OfRefund(r) BY EngineAssumption DEF OfRefund, About
    <3>3. r \in Record BY <2>0, <3>1, NoticesAreRecords DEF Collect
    <3> HIDE DEF r
    <3> QED BY <3>1, <3>2, <3>3, NewRecordIsReal DEF r
  <2>3. ASSUME NEW i \in Intents, QueryRefund(i) PROVE RecordsAreReal'
    <3>1. PICK r \in Answers(i) : Collect(r) BY <2>3 DEF QueryRefund
    <3>2. r \in Record BY <2>0, <3>1, AnswersAreRecords DEF Collect
    <3>3. OfRefund(r) \/ OfNone(r)
      <4>1. CASE \E k \in DOMAIN refunds : refunds[k].receipt = i /\
                   r = About(k, "razorpay_api", "QUERY", refunds[k].status, Confidence(i))
        BY <4>1 DEF About, OfRefund, Confidence, Executed, NotExecuted
      <4>2. CASE \E at : r = Nothing(i, NotExecuted, at) \/ r = Nothing(i, "NON_AUTHORITATIVE_QUERY", at)
        BY <4>2 DEF Nothing, OfNone, Executed, NotExecuted
      <4> QED BY <3>1, <4>1, <4>2 DEF Answers
    <3> QED BY <3>1, <3>2, <3>3, NewRecordIsReal
  <2> QED
    BY <2>1, <2>2, <2>3
    DEF Next, vars, worldVars, evidenceVars, dispatchVars, Tick, RogueRefund, Settle,
        GenerateCases, Authorize, Dispatch, Poll, Begin, Send, RecordReply, Crash
<1> QED BY <1>1, <1>2, TypeInvariant, PTL DEF Spec

-----------------------------------------------------------------------------
(* What a case says of the provider.                                       *)

\* An observation is of a record of its context, and says no more than it.
LEMMA ObservedRecord ==
  ASSUME TypeInv, RecordsAreReal, NEW c \in Contexts, NEW s \in SortedOrders(Observations(c, raw, now))
  PROVE  /\ Len(s) \in Nat
         /\ \A j \in 1..Len(s) : \E d \in Observed(c, raw, now) : s[j] = Observations(c, raw, now)[d]
         /\ \A d \in Observed(c, raw, now) : \E j \in 1..Len(s) : s[j] = Observations(c, raw, now)[d]
         /\ \A d \in Observed(c, raw, now) :
              /\ d \in DOMAIN raw /\ raw[d] \in Record /\ (OfRefund(raw[d]) \/ OfNone(raw[d]))
              /\ Observations(c, raw, now)[d].status = raw[d].status
              /\ Observations(c, raw, now)[d].confidence = raw[d].confidence
<1> DEFINE o == Observations(c, raw, now)
<1>1. raw \in Seq(Record) BY DEF TypeInv, TypeOK, EvidenceTypeOK
<1>2. /\ IsFiniteSet(DOMAIN o) /\ DOMAIN o = Observed(c, raw, now)
      /\ Observed(c, raw, now) \subseteq DOMAIN raw
  BY <1>1, ObservationsAreFinite
<1>3. /\ Len(s) \in Nat
      /\ \A j \in 1..Len(s) : \E d \in DOMAIN o : s[j] = o[d]
      /\ \A d \in DOMAIN o : \E j \in 1..Len(s) : s[j] = o[d]
  BY <1>2, OrdersAreSequences
<1>4. ASSUME NEW d \in Observed(c, raw, now)
      PROVE  /\ d \in DOMAIN raw /\ raw[d] \in Record /\ (OfRefund(raw[d]) \/ OfNone(raw[d]))
             /\ o[d].status = raw[d].status /\ o[d].confidence = raw[d].confidence
  <2>1. d \in DOMAIN raw /\ raw[d] \in Record BY <1>1, <1>2
  <2>2. OfRefund(raw[d]) \/ OfNone(raw[d]) BY <2>1 DEF RecordsAreReal
  <2>3. /\ o[d].status = raw[d].status
        /\ o[d].confidence = IF raw[d].source = "razorpay_api" THEN raw[d].confidence ELSE None
    BY DEF Observations
  <2>4. raw[d].source # "razorpay_api" => raw[d].confidence = None BY <2>2 DEF OfRefund, OfNone
  <2> QED BY <2>1, <2>2, <2>3, <2>4
<1> HIDE DEF o
<1> QED BY <1>2, <1>3, <1>4 DEF o

\* A state that says "executed" stands on a refund in the ledger, in the time of
\* the intent.
LEMMA ExecutionIsReal ==
  ASSUME TypeInv, RecordsAreReal, NEW i \in Intents,
         NEW s \in SortedOrders(Observations(i, raw, now)), EffectuallyExecuted(Reconstruct(s))
  PROVE  \E k \in DOMAIN refunds :
           /\ refunds[k].receipt = i
           /\ refunds[k].at + Buffer >= Expectation[i].at
           /\ refunds[k].at <= Expectation[i].at + Tolerance
<1>0. i \in Contexts /\ i # Orphans BY CasesAssumption DEF Contexts
<1>1. Reconstruct(s).execution = "EXECUTED" \/ Reconstruct(s).financial \in Concrete
  BY DEF EffectuallyExecuted, Concrete
<1>2. PICK j \in 1..Len(s) : Tells(s[j]) \/ Confirms(s[j])
  BY <1>0, <1>1, ObservedRecord, ExecutedIsObserved
<1>3. PICK d \in Observed(i, raw, now) : s[j] = Observations(i, raw, now)[d]
  BY <1>0, ObservedRecord
<1>4. /\ raw[d] \in Record /\ (OfRefund(raw[d]) \/ OfNone(raw[d]))
      /\ s[j].status = raw[d].status /\ s[j].confidence = raw[d].confidence
  BY <1>0, <1>3, ObservedRecord
<1>5. OfRefund(raw[d])
  BY <1>2, <1>4 DEF Tells, Confirms, OfNone, Concrete
<1> DEFINE k == raw[d].entity
<1>6. k \in DOMAIN refunds /\ raw[d].receipt = refunds[k].receipt /\ raw[d].at = refunds[k].at
  BY <1>5 DEF OfRefund
<1>7. raw[d].receipt = i /\ Correlated(i, raw[d], now)
  BY <1>0, <1>3 DEF Observed, Records
<1>8. refunds[k].at \in Nat
  <2> HIDE DEF k
  <2>1. refunds \in Seq(Refund) BY DEF TypeInv, TypeOK, LedgerTypeOK
  <2>2. refunds[k] \in Refund BY <1>6, <2>1
  <2> QED BY <2>2 DEF Refund
<1>9. Timestamp(raw[d], now) = refunds[k].at
  BY <1>6, <1>8, RecoveryAssumption DEF Timestamp
<1> QED BY <1>0, <1>6, <1>7, <1>9 DEF Correlated

\* The refunds of an intent are finitely many, and so are those of a larger ledger.
RefundsOf(i) == {k \in DOMAIN refunds : refunds[k].receipt = i}

LEMMA FiniteDomain == ASSUME NEW S, NEW q \in Seq(S) PROVE IsFiniteSet(DOMAIN q)
<1>1. DOMAIN q = 1..Len(q) /\ Len(q) \in Int /\ 1 \in Int OBVIOUS
<1> QED BY <1>1, FS_Interval

LEMMA RefundsAreFinite == ASSUME TypeInv, NEW i PROVE IsFiniteSet(RefundsOf(i))
<1>1. refunds \in Seq(Refund) BY DEF TypeInv, TypeOK, LedgerTypeOK
<1>2. RefundsOf(i) \subseteq DOMAIN refunds BY DEF RefundsOf
<1> QED BY <1>1, <1>2, FiniteDomain, FS_Subset

LEMMA SubsetIsSmaller ==
  ASSUME NEW S, NEW T \in SUBSET S, IsFiniteSet(S), Cardinality(T) > 1
  PROVE  Cardinality(S) > 1
<1>1. Cardinality(S) \in Nat /\ Cardinality(T) \in Nat /\ Cardinality(T) <= Cardinality(S)
  BY FS_Subset, FS_CardinalityType
<1> QED BY <1>1

\* Two executions counted are two refunds in the ledger.
LEMMA ExecutionsAreReal ==
  ASSUME TypeInv, RecordsAreReal, NEW i \in Intents, Executions(i, raw) > 1
  PROVE  Cardinality(RefundsOf(i)) > 1
<1> DEFINE E == {raw[k].entity : k \in {j \in Records(i, raw) : Counted(raw[j])}}
<1>0. i # Orphans BY CasesAssumption
<1>1. Cardinality(E) > 1 BY DEF Executions
<1>2. ASSUME NEW k \in Records(i, raw), Counted(raw[k]) PROVE raw[k].entity \in RefundsOf(i)
  <2>1. k \in DOMAIN raw /\ raw[k].receipt = i BY <1>0 DEF Records
  <2>2. ~OfNone(raw[k]) BY <1>2 DEF OfNone, Counted
  <2>3. OfRefund(raw[k]) BY <2>1, <2>2 DEF RecordsAreReal
  <2> QED BY <2>1, <2>3 DEF OfRefund, RefundsOf
<1>3. E \subseteq RefundsOf(i) BY <1>2
<1> HIDE DEF E
<1> QED BY <1>1, <1>3, RefundsAreFinite, SubsetIsSmaller

\* The classification of an intent's case, and the state it was given.
LEMMA CaseOfIntent ==
  ASSUME TypeInv, NEW i \in Intents, NEW x \in Case(i, raw, now)
  PROVE  \E s \in SortedOrders(Observations(i, raw, now)) : \E record :
           x.type = Classify(Expectation[i], Reconstruct(s), now, record, Executions(i, raw))
<1>1. raw \in Seq(Record) BY DEF TypeInv, TypeOK, EvidenceTypeOK
<1>2. i # Orphans BY CasesAssumption
<1>3. PICK s \in SortedOrders(Observations(i, raw, now)) :
        \E record :
          x = [type |-> IF i = Orphans THEN ClassifyOrphan(Reconstruct(s))
                        ELSE Classify(Expectation[i], Reconstruct(s), now, record, Executions(i, raw)),
               state |-> Reconstruct(s)]
  BY <1>1, <1>2, CaseHasAState
<1> QED BY <1>2, <1>3

\* What the three classifications are given for.
LEMMA Classified ==
  ASSUME NEW e, NEW k, NEW t, NEW record, NEW n, NEW type, type = Classify(e, k, t, record, n)
  PROVE  /\ type = "MATCH" => EffectuallyExecuted(k)
         /\ type = "EXCESS_EFFECT" => n > 1
         /\ type = "ABSENT_EXECUTION" =>
              k.knowledge = "VERIFIED" /\ k.execution = "NOT_EXECUTED" /\ ~(t < e.at + Sla)
<1>1. ClassifyExecution(e, record) \in {"CURRENCY_MISMATCH", "VALUE_MISMATCH", "MATCH"}
  BY DEF ClassifyExecution
<1>2. /\ ClassifyUnexecuted(e, k, t) \in {"IN_FLIGHT_PENDING", "ABSENT_EXECUTION", "EPISTEMIC_STALEMATE"}
      /\ ClassifyUnexecuted(e, k, t) = "ABSENT_EXECUTION" =>
           k.knowledge = "VERIFIED" /\ k.execution = "NOT_EXECUTED" /\ ~(t < e.at + Sla)
  BY DEF ClassifyUnexecuted
<1> QED BY <1>1, <1>2 DEF Classify

\* A batch gives every context one of its cases.
LEMMA BatchOfCases ==
  ASSUME TypeInv, [Next]_vars, case' # case
  PROVE  /\ \A c \in Contexts : case'[c] \in Case(c, raw, now)
         /\ UNCHANGED <<raw, now, refunds>>
<1>1. GenerateCases
  BY DEF Next, vars, worldVars, evidenceVars, dispatchVars, Tick, RogueRefund, Settle,
         Notify, Collect, QueryRefund, Authorize, Dispatch, Poll, Begin, Send, RecordReply, Crash
<1> DEFINE results == [c \in Contexts |-> Case(c, raw, now)]
<1>2. case' \in {f \in [Contexts -> UNION {results[c] : c \in Contexts}] :
                  \A c \in Contexts : f[c] \in results[c]}
  BY <1>1 DEF GenerateCases
<1>3. \A c \in Contexts : results[c] = Case(c, raw, now) OBVIOUS
<1> HIDE DEF results
<1> QED BY <1>1, <1>2, <1>3 DEF GenerateCases, worldVars

Matched(i) ==
  \E k \in DOMAIN refunds :
    /\ refunds[k].receipt = i
    /\ refunds[k].at + Buffer >= Expectation[i].at
    /\ refunds[k].at <= Expectation[i].at + Tolerance

Exceeded(i) == Cardinality(RefundsOf(i)) > 1

\* The case of an intent at the moment of its batch.
LEMMA CaseIsReal ==
  ASSUME TypeInv, RecordsAreReal, NEW i \in Intents, NEW x \in Case(i, raw, now)
  PROVE  (x.type = "MATCH" => Matched(i)) /\ (x.type = "EXCESS_EFFECT" => Exceeded(i))
<1>1. PICK s \in SortedOrders(Observations(i, raw, now)) :
        \E record :
          x.type = Classify(Expectation[i], Reconstruct(s), now, record, Executions(i, raw))
  BY CaseOfIntent
<1>2. /\ x.type = "MATCH" => EffectuallyExecuted(Reconstruct(s))
      /\ x.type = "EXCESS_EFFECT" => Executions(i, raw) > 1
  BY <1>1, Classified
<1> QED BY <1>2, ExecutionIsReal, ExecutionsAreReal DEF Matched, Exceeded

\* A ledger that grows keeps both true.
LEMMA RealityLasts ==
  ASSUME TypeInv, TypeInv', [Next]_vars, NEW i
  PROVE  (Matched(i) => Matched(i)') /\ (Exceeded(i) => Exceeded(i)')
<1>1. LedgerGrowth BY LedgerOnlyGrows
<1>2. Matched(i) => Matched(i)' BY <1>1 DEF LedgerGrowth, Matched
<1>3. RefundsOf(i) \subseteq RefundsOf(i)' BY <1>1 DEF LedgerGrowth, RefundsOf
<1>4. refunds' \in Seq(Refund) BY DEF TypeInv, TypeOK, LedgerTypeOK
<1>5. RefundsOf(i)' \subseteq DOMAIN refunds' BY DEF RefundsOf
<1>6. IsFiniteSet(RefundsOf(i)') BY <1>4, <1>5, FiniteDomain, FS_Subset
<1>7. Exceeded(i) => Exceeded(i)' BY <1>3, <1>6, SubsetIsSmaller DEF Exceeded
<1> QED BY <1>2, <1>7

CasesReal ==
  \A i \in Intents :
    case[i] # None => /\ case[i].type = "MATCH" => Matched(i)
                      /\ case[i].type = "EXCESS_EFFECT" => Exceeded(i)

\* A clean match and an excess are true of the ledger when the batch says so, and
\* ever after.
THEOREM CasesAreReal == Spec => []CasesReal
<1>1. Init => CasesReal BY DEF Init, Contexts, CasesReal
<1>2. TypeInv /\ TypeInv' /\ RecordsAreReal /\ CasesReal /\ [Next]_vars => CasesReal'
  <2> SUFFICES ASSUME TypeInv, TypeInv', RecordsAreReal, CasesReal, [Next]_vars, NEW i \in Intents
               PROVE  /\ case'[i] # None /\ case'[i].type = "MATCH" => Matched(i)'
                      /\ case'[i] # None /\ case'[i].type = "EXCESS_EFFECT" => Exceeded(i)'
    BY DEF CasesReal
  <2>1. (Matched(i) => Matched(i)') /\ (Exceeded(i) => Exceeded(i)') BY RealityLasts
  <2>2. CASE case' = case BY <2>1, <2>2 DEF CasesReal
  <2>3. CASE case' # case
    <3>1. case'[i] \in Case(i, raw, now) BY <2>3, BatchOfCases DEF Contexts
    <3> QED BY <2>1, <3>1, CaseIsReal
  <2> QED BY <2>2, <2>3
<1> QED BY <1>1, <1>2, TypeInvariant, RecordsAreOfTheLedger, PTL DEF Spec

\* A clean match has a refund of its own.
THEOREM MatchesAreReal == Spec => []MatchHasARefund
<1>1. CasesReal => MatchHasARefund BY DEF CasesReal, Matched, MatchHasARefund
<1> QED BY <1>1, CasesAreReal, PTL

\* An excess is of two refunds.
THEOREM ExcessesAreReal == Spec => []ExcessIsReal
<1>1. CasesReal => ExcessIsReal BY DEF CasesReal, Exceeded, RefundsOf, ExcessIsReal
<1> QED BY <1>1, CasesAreReal, PTL

\* Contradicted evidence is never classified as settled.
LEMMA ContradictionClassified ==
  ASSUME NEW e, NEW k, NEW t, NEW record, NEW n, k.knowledge = "CONTRADICTED"
  PROVE  Classify(e, k, t, record, n) \in {"IN_FLIGHT_PENDING", "EPISTEMIC_STALEMATE", "EXCESS_EFFECT"}
BY DEF Classify, ClassifyUnexecuted

\* RefundRecovery.ContradictionIsNotSettled: in every order of arrival and of
\* equal times.
THEOREM ContradictionsAreNotSettled == Spec => []ContradictionIsNotSettled
<1>1. TypeInv => ContradictionIsNotSettled
  <2> SUFFICES ASSUME TypeInv, NEW i \in Intents, Contradictory(Observations(i, raw, now)),
                      NEW x \in Case(i, raw, now)
               PROVE  x.type \in {"IN_FLIGHT_PENDING", "EPISTEMIC_STALEMATE", "EXCESS_EFFECT"}
    BY DEF ContradictionIsNotSettled
  <2>1. PICK s \in SortedOrders(Observations(i, raw, now)) :
          \E record :
            x.type = Classify(Expectation[i], Reconstruct(s), now, record, Executions(i, raw))
    BY CaseOfIntent
  <2>2. raw \in Seq(Record) BY DEF TypeInv, TypeOK, EvidenceTypeOK
  <2>3. IsFiniteSet(DOMAIN Observations(i, raw, now)) BY <2>2, ObservationsAreFinite
  <2>4. Reconstruct(s).knowledge = "CONTRADICTED" BY <2>3, ContradictionInEveryOrder
  <2> QED BY <2>1, <2>4, ContradictionClassified
<1> QED BY <1>1, TypeInvariant, PTL

\* An absence that calls for a refund has been proven: a denial was seen, nothing
\* that implies an execution was, and the deadline has passed.
THEOREM AbsencesAreProven == Spec => AbsenceIsProven
<1> DEFINE Proven(i) == /\ \E k \in Observed(i, raw, now) : Denies(raw[k])
                        /\ ~\E k \in Observed(i, raw, now) : Confirms(raw[k]) \/ raw[k].status \in Concrete
                        /\ now >= Expectation[i].at + Sla
           Step == \A i \in Intents :
                     case'[i] # case[i] /\ case'[i].type = "ABSENT_EXECUTION" => Proven(i)
<1>1. TypeInv /\ RecordsAreReal /\ [Next]_vars => [Step]_vars
  <2> SUFFICES ASSUME TypeInv, RecordsAreReal, [Next]_vars, NEW i \in Intents,
                      case'[i] # case[i], case'[i].type = "ABSENT_EXECUTION"
               PROVE  Proven(i)
    OBVIOUS
  <2>0. i \in Contexts BY DEF Contexts
  <2>1. case'[i] \in Case(i, raw, now) BY <2>0, BatchOfCases
  <2>2. PICK s \in SortedOrders(Observations(i, raw, now)) :
          \E record :
            case'[i].type = Classify(Expectation[i], Reconstruct(s), now, record, Executions(i, raw))
    BY <2>1, CaseOfIntent
  <2>3. /\ Reconstruct(s).knowledge = "VERIFIED" /\ Reconstruct(s).execution = "NOT_EXECUTED"
        /\ ~(now < Expectation[i].at + Sla)
    BY <2>2, Classified
  <2>4. /\ \E j \in 1..Len(s) : Denies(s[j])
        /\ \A j \in 1..Len(s) : ~Tells(s[j]) /\ ~Confirms(s[j])
    BY <2>0, <2>3, ObservedRecord, AbsenceIsObserved
  <2>5. \E k \in Observed(i, raw, now) : Denies(raw[k])
    <3>1. PICK j \in 1..Len(s) : Denies(s[j]) BY <2>4
    <3>2. PICK k \in Observed(i, raw, now) : s[j] = Observations(i, raw, now)[k]
      BY <2>0, ObservedRecord
    <3>3. s[j].confidence = raw[k].confidence BY <2>0, <3>2, ObservedRecord
    <3> QED BY <3>1, <3>3 DEF Denies
  <2>6. ASSUME NEW k \in Observed(i, raw, now), Confirms(raw[k]) \/ raw[k].status \in Concrete
        PROVE  FALSE
    <3>1. PICK j \in 1..Len(s) : s[j] = Observations(i, raw, now)[k] BY <2>0, ObservedRecord
    <3>2. /\ s[j].confidence = raw[k].confidence /\ s[j].status = raw[k].status
          /\ OfRefund(raw[k]) \/ OfNone(raw[k])
      BY <2>0, <3>1, ObservedRecord
    <3>3. ~Tells(s[j]) /\ ~Confirms(s[j]) BY <2>4
    <3>4. raw[k].status \in Concrete /\ ~Confirms(raw[k]) BY <2>6, <3>2, <3>3 DEF Confirms
    <3>5. OfRefund(raw[k]) BY <3>2, <3>4 DEF OfNone, Concrete
    <3> QED BY <3>2, <3>3, <3>4, <3>5 DEF OfRefund, Tells, Confirms, Denies
  <2>7. now >= Expectation[i].at + Sla
    <3>1. now \in Nat /\ Expectation[i].at \in Nat /\ Sla \in Nat
      BY CasesAssumption, RecoveryAssumption DEF TypeInv, TypeOK, LedgerTypeOK
    <3> QED BY <2>3, <3>1
  <2> QED BY <2>5, <2>6, <2>7
<1>2. [][Step]_vars => AbsenceIsProven BY DEF AbsenceIsProven
<1> HIDE DEF Step
<1> QED BY <1>1, <1>2, TypeInvariant, RecordsAreOfTheLedger, PTL DEF Spec
=============================================================================
