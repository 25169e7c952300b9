------------------------ MODULE ReconciliationProofs ------------------------
(***************************************************************************)
(* For any expectations, rows, keys, workers and hypotheses: a PROCESSED   *)
(* event has been judged, a direct alarm is true, a hypothesis that        *)
(* reaches the provider is vouched for, an investigation settles a refund  *)
(* that its query found with its own refunds only, and what it settles on  *)
(* is on record.                                                           *)
(***************************************************************************)
EXTENDS Reconciliation, ReconciliationControlsProofs

RowValue == [status : CanonicalStatus, at : Nat]
Verdictum == Reasons \union {"MATCH"}

InquiryType ==
  [pc : {"NONE", "ASSEMBLE", "ASK", "VERIFY", "REOBSERVE", "DECIDED", "RETRY", "CRASHED",
         "RESOLVED", "ESCALATED"},
   of : Expectations \union {NoRef}, reason : Verdictum, rows : Seq(Rows),
   obs : Seq(Observation), hyp : Hypotheses \union {NoRef}, todo : Seq(STRING),
   news : Seq(Observation), outcome : {"SUCCEEDED", "REJECTED", "FAILED"},
   again : Seq(Observation), looks : Nat]
InquiryTypes == inquiry \in InquiryType

\* What was announced, claimed or judged is stored, and stays so.
AnnouncedIsStored ==
  \A r \in Rows : r \in unannounced \/ event[r] # "NONE" => stored[r] # NoRow
ClaimedWasAnnounced ==
  \A w \in Workers, x \in Events :
    x \in worker[w].batch \/ x = worker[w].on => event[x] # "NONE"

FromStored(rows) == \A j \in DOMAIN rows : stored[rows[j]] # NoRow
\* What Find concludes of a row that it finds no expectation by.
TrueAlarm(res) ==
  res.of = NoRef /\ res.on # All =>
    /\ res.rows # <<>>
    /\ \A e \in known[res.rows[1]] : ~Belongs(res.rows[1], e)
Sound(res) == FromStored(res.rows) /\ TrueAlarm(res)
ResultsSound ==
  /\ \A res \in saved : Sound(res)
  /\ \A w \in Workers : \A k \in DOMAIN worker[w].results : Sound(worker[w].results[k])
InquirySound == FromStored(inquiry.rows)

Shape(v) ==
  /\ v.pc # "IDLE" => v.on \in Events
  /\ v.pc # "JUDGE" => v.todo = {}
  /\ v.pc = "RAISE" => v.results # <<>> /\ Head(v.results) \in saved
WorkersShaped == \A w \in Workers : Shape(worker[w])

\* A result on an event that counts its row for an expectation.
Counts(res, r, e) == res.of = e /\ res.on = r /\ \E j \in DOMAIN res.rows : res.rows[j] = r
Filed(r, e) == \E res \in saved : Counts(res, r, e) /\ (res.reason = "MATCH" \/ res \in raised)
InHand(v, r, e) ==
  \/ e \in v.todo
  \/ \E k \in DOMAIN v.results : Counts(v.results[k], r, e)
\* Whoever handles the event of a row has each expectation before it or behind it.
NothingDropped ==
  \A w \in Workers, r \in Rows : worker[w].pc # "IDLE" /\ worker[w].on = r =>
    \A e \in known[r] : Belongs(r, e) => InHand(worker[w], r, e) \/ Filed(r, e)
ProcessedIsFiled ==
  \A r \in Rows : event[r] = "PROCESSED" =>
    \A e \in known[r] : Belongs(r, e) => Filed(r, e)

\* The answers of a query about a receipt bear it; what the observer reads need not.
BearsReceipt(e, o) ==
  e # NoRef /\ Domain[e] = "REFUND" /\ Keys[e].internal # NoRef /\ o.row \in ApiRows =>
    Keys[o.row].internal = Keys[e].internal
NewsIsItsOwn ==
  \A j \in DOMAIN inquiry.news : BearsReceipt(inquiry.of, inquiry.news[j])
\* What an investigation started from is on record, and stays so.
OnRecord(o) == stored[o.row] # NoRow /\ o.at <= stored[o.row].at
ObsOnRecord == \A j \in DOMAIN inquiry.obs : OnRecord(inquiry.obs[j])
ResolvedHasASubject == inquiry.pc = "RESOLVED" => inquiry.of # NoRef

JudgingInv ==
  /\ AnnouncedIsStored /\ ClaimedWasAnnounced /\ ResultsSound /\ WorkersShaped
  /\ NothingDropped /\ ProcessedIsFiled
InquiryInv ==
  /\ InquiryTypes /\ InquirySound /\ VouchedBeforeQuery /\ NewsIsItsOwn /\ ObsOnRecord
  /\ ResolvedHasASubject /\ SettledByItsOwnRefund /\ ResolvedIsOnRecord
IInv == TypeOK /\ JudgingInv /\ InquiryInv

-----------------------------------------------------------------------------
(* Lemmas about the operators.                                             *)

LEMMA BelongsIsFound ==
  ASSUME NEW r, NEW e, Belongs(r, e) PROVE Finds(r, e) /\ Qualifies(r, e)
BY DEF Belongs, Finds, Qualifies, Same

LEMMA VerdictType ==
  ASSUME NEW e, NEW obs, NEW old PROVE Verdict(e, obs, old) \in Verdictum
<1>1. Verdict(e, obs, old) \in {"SLA_BREACH", "ABSENT_EXECUTION", "DUPLICATE_EXECUTION",
                                "STATE_MISMATCH", "AMOUNT_MISMATCH", "MATCH"}
  BY DEF Verdict
<1> QED BY <1>1 DEF Verdictum, Reasons

\* An answer without ORDER BY lists the set, each row of it.
LEMMA OrdersType ==
  ASSUME NEW S \in SUBSET Rows, NEW s \in Orders(S)
  PROVE  /\ s \in Seq(Rows) /\ s \in Seq(S)
         /\ \A j \in DOMAIN s : s[j] \in S
         /\ \A r \in S : \E j \in DOMAIN s : s[j] = r
<1>1. IsFiniteSet(S) BY FS_Subset, ReconciliationAssumption
<1>2. Cardinality(S) \in Nat BY <1>1, FS_CardinalityType
<1>3. s \in [1 .. Cardinality(S) -> S] /\ \A r \in S : \E j \in DOMAIN s : s[j] = r
  BY DEF Orders
<1> QED BY <1>2, <1>3

LEMMA OrdersOfNone == ASSUME NEW s \in Orders({}) PROVE s = <<>>
<1>1. s \in Seq({}) BY OrdersType
<1> QED BY <1>1

\* Rows that are stored read as observations.
LEMMA ReadType ==
  ASSUME TypeOK, NEW rows \in Seq(Rows), FromStored(rows)
  PROVE  ReadAll(rows, stored) \in Seq(Observation)
<1>1. \A j \in 1 .. Len(rows) : Read(rows[j], stored) \in Observation
  BY DEF TypeOK, FromStored, Read, Observation
<1> QED BY <1>1 DEF ReadAll

LEMMA EvidenceType ==
  ASSUME NEW o \in Observation PROVE EvidenceOf(o) \in Rows \X CanonicalStatus
BY DEF EvidenceOf, Observation

\* An upsert forgets no row, and changes one only for a later observation.
LEMMA UpsertType ==
  ASSUME NEW obs \in Seq(Observation), NEW rows \in [Rows -> RowValue \union {NoRow}]
  PROVE  /\ UpsertAll(obs, rows) \in [Rows -> RowValue \union {NoRow}]
         /\ \A r \in Rows : rows[r] # NoRow =>
              /\ UpsertAll(obs, rows)[r] # NoRow
              /\ UpsertAll(obs, rows)[r] = rows[r] \/ rows[r].at < UpsertAll(obs, rows)[r].at
<1> DEFINE P(r, j) == obs[j].row = r /\ Stays(j, obs) /\ Newer(obs[j], rows)
           V(j) == [status |-> obs[j].status, at |-> obs[j].at]
<1>1. \A j \in DOMAIN obs : V(j) \in RowValue /\ V(j) # NoRow
  <2>1. ASSUME NEW j \in DOMAIN obs PROVE V(j) \in RowValue
    <3>1. obs[j] \in Observation OBVIOUS
    <3> QED BY <3>1 DEF Observation, RowValue
  <2> QED BY <2>1, ControlsAssumption DEF RowValue
<1>2. UpsertAll(obs, rows) =
        [r \in Rows |-> IF \E j \in DOMAIN obs : P(r, j)
                        THEN V(CHOOSE j \in DOMAIN obs : P(r, j)) ELSE rows[r]]
  BY Zenon DEF UpsertAll
<1>3. \A r \in Rows : (\E j \in DOMAIN obs : P(r, j)) =>
        /\ (CHOOSE j \in DOMAIN obs : P(r, j)) \in DOMAIN obs
        /\ P(r, CHOOSE j \in DOMAIN obs : P(r, j))
  OBVIOUS
<1>4. \A r \in Rows, j \in DOMAIN obs : P(r, j) /\ rows[r] # NoRow => rows[r].at < V(j).at
  BY DEF Newer
<1> HIDE DEF P, V
<1> QED BY <1>1, <1>2, <1>3, <1>4

\* Of several observations of a row one stays.
LEMMA OneStays ==
  ASSUME NEW obs \in Seq(Observation), NEW j \in DOMAIN obs
  PROVE  \E m \in DOMAIN obs : obs[m].row = obs[j].row /\ obs[j].at <= obs[m].at /\ Stays(m, obs)
<1> DEFINE K == {k \in DOMAIN obs : obs[k].row = obs[j].row}
           R == {p \in K \X K : obs[p[1]].at < obs[p[2]].at
                                  \/ (obs[p[1]].at = obs[p[2]].at /\ p[2] < p[1])}
<1>1. /\ j \in K /\ K \subseteq Nat
      /\ \A k \in K : obs[k].at \in Nat
  <2>1. DOMAIN obs = 1 .. Len(obs) /\ \A k \in DOMAIN obs : obs[k] \in Observation OBVIOUS
  <2> QED BY <2>1 DEF Observation
<1>2. IsFiniteSet(K)
  <2>1. IsFiniteSet(1 .. Len(obs)) BY FS_Interval
  <2>2. K \subseteq 1 .. Len(obs) OBVIOUS
  <2> QED BY <2>1, <2>2, FS_Subset
<1>3. \A a, b \in K : a = b \/ <<a, b>> \in R \/ <<b, a>> \in R BY <1>1
<1>4. \A a, b, c \in K : <<a, b>> \in R /\ <<b, c>> \in R => <<a, c>> \in R BY <1>1
<1>5. PICK m \in K : \A k \in K : k = m \/ <<k, m>> \in R
  <2> HIDE DEF R, K
  <2> QED BY <1>1, <1>2, <1>3, <1>4, GreatestExists
<1>6. ASSUME NEW k \in K PROVE obs[k].at < obs[m].at \/ (obs[k].at = obs[m].at /\ m <= k)
  <2>1. CASE k = m BY <1>1, <2>1
  <2>2. CASE <<k, m>> \in R BY <1>1, <2>2
  <2> QED BY <1>5, <2>1, <2>2
<1>7. obs[j].at <= obs[m].at BY <1>1, <1>6
<1> QED BY <1>6, <1>7 DEF Stays

\* What was upserted is on record, or something later is.
LEMMA UpsertCovers ==
  ASSUME NEW obs \in Seq(Observation), NEW rows \in [Rows -> RowValue \union {NoRow}],
         NEW j \in DOMAIN obs
  PROVE  LET new == UpsertAll(obs, rows)[obs[j].row]
         IN  new # NoRow /\ obs[j].at <= new.at
<1> DEFINE r == obs[j].row
           P(k) == obs[k].row = r /\ Stays(k, obs) /\ Newer(obs[k], rows)
           V(k) == [status |-> obs[k].status, at |-> obs[k].at]
<1>1. /\ r \in Rows
      /\ \A k \in DOMAIN obs : V(k) \in RowValue /\ V(k) # NoRow /\ obs[k].at \in Nat
  <2>1. \A k \in DOMAIN obs : obs[k] \in Observation OBVIOUS
  <2> QED BY <2>1, ControlsAssumption DEF Observation, RowValue
<1>2. PICK new : new = UpsertAll(obs, rows)[r] OBVIOUS
<1>3. new = IF \E k \in DOMAIN obs : P(k) THEN V(CHOOSE k \in DOMAIN obs : P(k)) ELSE rows[r]
  BY <1>1, <1>2, Zenon DEF UpsertAll
<1>4. PICK m \in DOMAIN obs : obs[m].row = r /\ obs[j].at <= obs[m].at /\ Stays(m, obs)
  BY OneStays
<1>5. CASE \E k \in DOMAIN obs : P(k)
  <2>1. PICK k \in DOMAIN obs : P(k) /\ new = V(k) BY <1>3, <1>5
  <2>2. obs[j].at < obs[k].at \/ obs[j].at = obs[k].at BY <2>1 DEF Stays
  <2>3. obs[j].at \in Nat /\ obs[k].at \in Nat BY <1>1
  <2>4. new # NoRow /\ new.at = obs[k].at BY <1>1, <2>1
  <2> QED BY <1>2, <2>2, <2>3, <2>4
<1>6. CASE ~\E k \in DOMAIN obs : P(k)
  <2>1. ~Newer(obs[m], rows) /\ new = rows[r] BY <1>3, <1>4, <1>6
  <2>2. new # NoRow /\ ~(new.at < obs[m].at) BY <1>4, <2>1 DEF Newer
  <2>3. new.at \in Nat BY <1>1, <2>1, <2>2 DEF RowValue
  <2>4. obs[j].at \in Nat /\ obs[m].at \in Nat BY <1>1
  <2> QED BY <1>2, <1>4, <2>2, <2>3, <2>4
<1> QED BY <1>5, <1>6

\* Each of the observations known is one of those before or one of those new.
LEMMA ConcatEach ==
  ASSUME NEW s \in Seq(Observation), NEW t \in Seq(Observation)
  PROVE  /\ s \o t \in Seq(Observation)
         /\ \A j \in DOMAIN (s \o t) : \/ \E k \in DOMAIN s : (s \o t)[j] = s[k]
                                       \/ \E k \in DOMAIN t : (s \o t)[j] = t[k]
         /\ \A k \in DOMAIN t : \E j \in DOMAIN (s \o t) : (s \o t)[j] = t[k]
<1>1. PICK c : c = s \o t OBVIOUS
<1>2. /\ c \in Seq(Observation) /\ Len(c) = Len(s) + Len(t)
      /\ \A i \in 1 .. Len(s) + Len(t) : c[i] = IF i <= Len(s) THEN s[i] ELSE t[i - Len(s)]
  BY <1>1, ConcatProperties
<1>3. /\ DOMAIN s = 1 .. Len(s) /\ DOMAIN t = 1 .. Len(t) /\ DOMAIN c = 1 .. Len(s) + Len(t)
      /\ Len(s) \in Nat /\ Len(t) \in Nat
  BY <1>2
<1>4. ASSUME NEW j \in DOMAIN c
      PROVE  (\E k \in DOMAIN s : c[j] = s[k]) \/ (\E k \in DOMAIN t : c[j] = t[k])
  <2>1. CASE j <= Len(s) BY <1>2, <1>3, <2>1
  <2>2. CASE j > Len(s)
    <3>1. j - Len(s) \in DOMAIN t /\ c[j] = t[j - Len(s)] BY <1>2, <1>3, <2>2
    <3> QED BY <3>1
  <2> QED BY <1>3, <2>1, <2>2
<1>5. ASSUME NEW k \in DOMAIN t PROVE \E j \in DOMAIN c : c[j] = t[k]
  <2>1. k + Len(s) \in DOMAIN c /\ c[k + Len(s)] = t[(k + Len(s)) - Len(s)] BY <1>2, <1>3
  <2>2. (k + Len(s)) - Len(s) = k BY <1>3
  <2> QED BY <2>1, <2>2
<1> QED BY <1>1, <1>2, <1>4, <1>5

\* A verdict of MATCH is about one execution.
LEMMA MatchIsOneExecution ==
  ASSUME NEW e, NEW old, NEW obs \in Seq(Observation), Verdict(e, obs, old) = "MATCH"
  PROVE  \A j, k \in DOMAIN obs : ExecutionId(obs[j].row) = ExecutionId(obs[k].row)
<1> SUFFICES ASSUME NEW j \in DOMAIN obs, NEW k \in DOMAIN obs
             PROVE  ExecutionId(obs[j].row) = ExecutionId(obs[k].row)
  OBVIOUS
<1> DEFINE D == DOMAIN obs
           X == Executions(obs)
           f == [i \in D |-> ExecutionId(obs[i].row)]
<1>1. IsFiniteSet(D)
  <2>1. D = 1 .. Len(obs) /\ Len(obs) \in Nat OBVIOUS
  <2> QED BY <2>1, FS_Interval
<1>2. f \in Surjection(D, X) BY DEF Surjection, Executions
<1>3. IsFiniteSet(X) BY <1>1, <1>2, FS_Surjection
<1>4. ~(Cardinality(X) > 1) BY DEF Verdict
<1>5. ExecutionId(obs[j].row) \in X /\ ExecutionId(obs[k].row) \in X BY DEF Executions
<1> HIDE DEF X, f, D
<1>6. Cardinality(X) \in Nat /\ Cardinality(X) # 0 BY <1>3, <1>5, FS_CardinalityType, FS_EmptySet
<1>7. Cardinality(X) = 1 BY <1>4, <1>6
<1>8. PICK x : X = {x} BY <1>3, <1>7, FS_Singleton
<1> QED BY <1>5, <1>8

\* What Kept says of a step that stores rows.
Kept == \A r \in Rows : stored[r] # NoRow =>
  /\ stored'[r] # NoRow /\ known'[r] = known[r]
  /\ stored'[r] = stored[r] \/ stored[r].at < stored'[r].at

LEMMA StoringKeeps ==
  ASSUME TypeOK, NEW obs \in Seq(Observation), stored' = UpsertAll(obs, stored),
         book' = book, Remember(stored')
  PROVE  /\ stored' \in [Rows -> RowValue \union {NoRow}]
         /\ known' \in [Rows -> SUBSET book']
         /\ Kept
<1>1. stored \in [Rows -> RowValue \union {NoRow}] BY DEF TypeOK, RowValue
<1>2. /\ stored' \in [Rows -> RowValue \union {NoRow}]
      /\ \A r \in Rows : stored[r] # NoRow =>
           stored'[r] # NoRow /\ (stored'[r] = stored[r] \/ stored[r].at < stored'[r].at)
  BY <1>1, UpsertType
<1>3. known' = [r \in Rows |-> IF stored[r] = NoRow /\ stored'[r] # NoRow
                               THEN book ELSE known[r]]
  BY DEF Remember
<1>4. known \in [Rows -> SUBSET book] BY DEF TypeOK
<1> QED BY <1>2, <1>3, <1>4 DEF Kept

-----------------------------------------------------------------------------
(* What a step leaves alone.                                               *)

WorkerType ==
  [pc : {"IDLE", "JUDGE", "FILE", "RAISE"}, batch : SUBSET Events,
   on : Events \union {NoRef}, todo : SUBSET Expectations, mapped : SUBSET Rows,
   results : Seq(Result)]
EventStatus == {"NONE", "PENDING", "IN_PROGRESS", "PROCESSED", "FAILED"}

LEMMA SoundStays ==
  ASSUME Kept, NEW res \in Result, Sound(res) PROVE Sound(res)'
<1>1. res.rows \in Seq(Rows) BY DEF Result
<1>2. FromStored(res.rows)'
  BY <1>1 DEF Kept, Sound, FromStored
<1>3. TrueAlarm(res)'
  <2> SUFFICES ASSUME res.of = NoRef, res.on # All
               PROVE  /\ res.rows # <<>>
                      /\ \A e \in known'[res.rows[1]] : ~Belongs(res.rows[1], e)
    BY DEF TrueAlarm
  <2>1. res.rows # <<>> /\ \A e \in known[res.rows[1]] : ~Belongs(res.rows[1], e)
    BY DEF Sound, TrueAlarm
  <2>2. 1 \in DOMAIN res.rows /\ res.rows[1] \in Rows BY <1>1, <2>1
  <2>3. known'[res.rows[1]] = known[res.rows[1]]
    BY <2>2 DEF Kept, Sound, FromStored
  <2> QED BY <2>1, <2>3
<1> QED BY <1>2, <1>3 DEF Sound

\* A step outside the workers' loops that forgets no row.
LEMMA JudgingFrame ==
  ASSUME TypeOK, JudgingInv, Kept, UNCHANGED <<worker, saved, raised>>,
         \A r \in Rows : r \in unannounced' => r \in unannounced \/ stored'[r] # NoRow,
         \A x \in Events :
           /\ event[x] # "NONE" => event'[x] # "NONE"
           /\ event'[x] # "NONE" => event[x] # "NONE" \/ x \in unannounced
           /\ event'[x] = "PROCESSED" => event[x] = "PROCESSED"
  PROVE  JudgingInv'
<1>1. AnnouncedIsStored'
  <2> SUFFICES ASSUME NEW r \in Rows, r \in unannounced' \/ event'[r] # "NONE"
               PROVE  stored'[r] # NoRow
    BY DEF AnnouncedIsStored
  <2>1. r \in Events BY DEF Events
  <2>2. r \in unannounced \/ event[r] # "NONE" => stored[r] # NoRow
    BY DEF JudgingInv, AnnouncedIsStored
  <2> QED BY <2>1, <2>2 DEF Kept
<1>2. ClaimedWasAnnounced' BY DEF JudgingInv, ClaimedWasAnnounced
<1>3. ResultsSound'
  <2>1. \A res \in saved : Sound(res)' BY SoundStays DEF TypeOK, JudgingInv, ResultsSound
  <2>2. ASSUME NEW w \in Workers, NEW k \in DOMAIN worker[w].results
        PROVE  Sound(worker[w].results[k])'
    <3>1. worker[w].results[k] \in Result BY DEF TypeOK
    <3>2. Sound(worker[w].results[k]) BY DEF JudgingInv, ResultsSound
    <3> DEFINE res == worker[w].results[k]
    <3>3. res \in Result /\ Sound(res) BY <3>1, <3>2
    <3>4. res' = res OBVIOUS
    <3>5. ASSUME NEW q, q = res PROVE Sound(q)' BY <3>3, <3>5, SoundStays
    <3> QED BY <3>4, <3>5 DEF Sound, FromStored, TrueAlarm
  <2> QED BY <2>1, <2>2 DEF ResultsSound
<1>4. WorkersShaped' BY DEF JudgingInv, WorkersShaped, Shape
<1>5. NothingDropped'
  <2> SUFFICES ASSUME NEW w \in Workers, NEW r \in Rows, worker[w].pc # "IDLE",
                      worker[w].on = r, NEW e \in known'[r], Belongs(r, e)
               PROVE  InHand(worker[w], r, e) \/ Filed(r, e)
    BY DEF NothingDropped, InHand, Filed, Counts
  <2>1. stored[r] # NoRow
    BY DEF JudgingInv, AnnouncedIsStored, ClaimedWasAnnounced, Events
  <2> QED BY <2>1 DEF Kept, JudgingInv, NothingDropped
<1>6. ProcessedIsFiled'
  <2> SUFFICES ASSUME NEW r \in Rows, event'[r] = "PROCESSED",
                      NEW e \in known'[r], Belongs(r, e)
               PROVE  Filed(r, e)
    BY DEF ProcessedIsFiled, Filed, Counts
  <2>1. event[r] = "PROCESSED" BY DEF Events
  <2>2. stored[r] # NoRow BY <2>1 DEF JudgingInv, AnnouncedIsStored
  <2> QED BY <2>1, <2>2 DEF Kept, JudgingInv, ProcessedIsFiled
<1> QED BY <1>1, <1>2, <1>3, <1>4, <1>5, <1>6 DEF JudgingInv

\* What is on record stays so.
LEMMA RecordStays ==
  ASSUME TypeOK, TypeOK', Kept, NEW o \in Observation, OnRecord(o) PROVE OnRecord(o)'
<1>1. o.row \in Rows /\ o.at \in Nat BY DEF Observation
<1>2. stored'[o.row] # NoRow BY <1>1 DEF Kept, OnRecord
<1>3. stored[o.row].at \in Nat /\ stored'[o.row].at \in Nat
  BY <1>1, <1>2 DEF TypeOK, OnRecord
<1>4. stored[o.row].at <= stored'[o.row].at BY <1>1, <1>3 DEF Kept, OnRecord
<1> QED BY <1>1, <1>2, <1>3, <1>4 DEF OnRecord

LEMMA InquiryFrame ==
  ASSUME TypeOK, TypeOK', InquiryInv, Kept, UNCHANGED inquiry, evidence \subseteq evidence'
  PROVE  InquiryInv'
<1>1. InquiryTypes' /\ NewsIsItsOwn' /\ ResolvedHasASubject' /\ VouchedBeforeQuery'
  BY DEF InquiryInv, InquiryTypes, NewsIsItsOwn, ResolvedHasASubject, VouchedBeforeQuery
<1>2. inquiry.rows \in Seq(Rows) /\ inquiry.obs \in Seq(Observation)
  BY DEF InquiryInv, InquiryTypes, InquiryType
<1>3. InquirySound' BY <1>2 DEF InquiryInv, InquirySound, FromStored, Kept
<1>4. ObsOnRecord'
  <2>1. \A j \in DOMAIN inquiry.obs : inquiry.obs[j] \in Observation BY <1>2
  <2>2. \A j \in DOMAIN inquiry.obs : OnRecord(inquiry.obs[j])' BY <2>1, RecordStays DEF InquiryInv, ObsOnRecord
  <2> QED BY <2>2 DEF ObsOnRecord
<1>5. SettledByItsOwnRefund' BY DEF InquiryInv, SettledByItsOwnRefund, OfItsReceipt, Counted
<1>6. ResolvedIsOnRecord'
  <2>1. PICK all : all = Counted OBVIOUS
  <2>2. all \in Seq(Observation) /\ Counted' = all
    BY <2>1, ConcatProperties DEF InquiryInv, InquiryTypes, InquiryType, Counted
  <2>3. \A j \in DOMAIN all : all[j] \in Observation BY <2>2
  <2>4. inquiry.pc = "RESOLVED" => \A j \in DOMAIN all : OnRecord(all[j])
    BY <2>1 DEF InquiryInv, ResolvedIsOnRecord, OnRecord
  <2>5. inquiry.pc = "RESOLVED" => \A j \in DOMAIN all : OnRecord(all[j])'
    BY <2>3, <2>4, RecordStays
  <2>6. inquiry.pc = "RESOLVED" => \A j \in DOMAIN all :
          stored'[all[j].row] # NoRow /\ all[j].at <= stored'[all[j].row].at
    BY <2>5 DEF OnRecord
  <2>7. inquiry.pc = "RESOLVED" => \A j \in DOMAIN inquiry.news :
          inquiry.news[j].row \in ApiRows => EvidenceOf(inquiry.news[j]) \in evidence
    BY DEF InquiryInv, ResolvedIsOnRecord
  <2> QED BY <2>2, <2>6, <2>7 DEF ResolvedIsOnRecord
<1> QED BY <1>1, <1>3, <1>4, <1>5, <1>6 DEF InquiryInv

LEMMA FiledStays ==
  ASSUME saved \subseteq saved', raised \subseteq raised', NEW r, NEW e, Filed(r, e)
  PROVE  Filed(r, e)'
BY DEF Filed, Counts

\* A step of one worker.
LEMMA WorkerMoves ==
  ASSUME TypeOK, JudgingInv, UNCHANGED <<intake, inquiry>>,
         NEW w \in Workers, NEW v \in WorkerType, worker' = [worker EXCEPT ![w] = v],
         saved \subseteq saved', saved' \subseteq Result,
         raised \subseteq raised', raised' \subseteq saved',
         event' \in [Events -> EventStatus],
         \A x \in Events : (event[x] # "NONE") <=> (event'[x] # "NONE"),
         \A x \in Events : x \in v.batch \/ x = v.on => event'[x] # "NONE",
         \A res \in saved' : Sound(res),
         \A k \in DOMAIN v.results : Sound(v.results[k]),
         Shape(v)',
         \A r \in Rows : v.pc # "IDLE" /\ v.on = r =>
           \A e \in known[r] : Belongs(r, e) => InHand(v, r, e) \/ Filed(r, e)',
         \A r \in Rows : event'[r] = "PROCESSED" =>
           event[r] = "PROCESSED" \/ \A e \in known[r] : Belongs(r, e) => Filed(r, e)'
  PROVE  TypeOK' /\ JudgingInv'
<1>0. /\ \A u \in Workers : worker'[u] = IF u = w THEN v ELSE worker[u]
      /\ worker' \in [Workers -> WorkerType]
  BY DEF TypeOK, WorkerType
<1>1. TypeOK'
  <2>1. worker' \in [Workers ->
       [pc : {"IDLE", "JUDGE", "FILE", "RAISE"}, batch : SUBSET Events,
        on : Events \union {NoRef}, todo : SUBSET Expectations, mapped : SUBSET Rows,
        results : Seq(Result)]]
    BY <1>0 DEF WorkerType
  <2> QED BY <2>1 DEF TypeOK, intake, EventStatus
<1>2. AnnouncedIsStored' 
  BY DEF JudgingInv, AnnouncedIsStored, intake, Events
<1>3. ClaimedWasAnnounced' BY <1>0 DEF JudgingInv, ClaimedWasAnnounced
<1>4. ResultsSound'
  <2>1. known' = known /\ stored' = stored BY DEF intake
  <2>2. \A u \in Workers : \A k \in DOMAIN worker'[u].results : Sound(worker'[u].results[k])
    BY <1>0 DEF JudgingInv, ResultsSound
  <2> QED BY <2>1, <2>2 DEF ResultsSound, Sound, FromStored, TrueAlarm
<1>5. WorkersShaped'
  <2> SUFFICES ASSUME NEW u \in Workers PROVE Shape(worker[u])'
    BY DEF WorkersShaped
  <2>1. CASE u = w BY <2>1, <1>0 DEF Shape
  <2>2. CASE u # w BY <2>2, <1>0 DEF Shape, JudgingInv, WorkersShaped
  <2> QED BY <2>1, <2>2
<1>6. NothingDropped'
  <2> SUFFICES ASSUME NEW u \in Workers, NEW r \in Rows, worker'[u].pc # "IDLE",
                      worker'[u].on = r, NEW e \in known[r], Belongs(r, e)
               PROVE  InHand(worker'[u], r, e) \/ Filed(r, e)'
    BY DEF NothingDropped, InHand, Counts, intake
  <2>1. CASE u = w BY <2>1, <1>0
  <2>2. CASE u # w
    BY <2>2, <1>0, FiledStays DEF JudgingInv, NothingDropped
  <2> QED BY <2>1, <2>2
<1>7. ProcessedIsFiled'
  <2> SUFFICES ASSUME NEW r \in Rows, event'[r] = "PROCESSED", NEW e \in known[r], Belongs(r, e)
               PROVE  Filed(r, e)'
    BY DEF ProcessedIsFiled, intake
  <2> QED BY FiledStays DEF JudgingInv, ProcessedIsFiled
<1> QED BY <1>1, <1>2, <1>3, <1>4, <1>5, <1>6, <1>7 DEF JudgingInv

-----------------------------------------------------------------------------
(* The workers' loop, one step at a time.                                  *)

LEMMA IdleType ==
  /\ Idle \in WorkerType /\ Idle.results = <<>> /\ Idle.todo = {} /\ Idle.pc = "IDLE"
  /\ Idle.on = NoRef /\ Idle.batch = {}
BY EmptySeq DEF Idle, WorkerType

LEMMA WorkerIs ==
  ASSUME TypeOK, NEW w \in Workers
  PROVE  /\ worker[w] \in WorkerType /\ worker \in [Workers -> WorkerType]
         /\ event \in [Events -> EventStatus]
         /\ saved \subseteq Result /\ raised \subseteq saved
         /\ NoRef \notin Events
<1>1. NoRef \notin Events BY ControlsAssumption, ReconciliationAssumption DEF Events
<1> QED BY <1>1 DEF TypeOK, WorkerType, EventStatus

LEMMA PollKeeps ==
  ASSUME TypeOK, JudgingInv, NEW w \in Workers, Poll(w) PROVE TypeOK' /\ JudgingInv'
<1> DEFINE pending == {x \in Events : event[x] = "PENDING"}
           next == [worker[w] EXCEPT !.batch = pending]
<1>0. PICK v : v = next OBVIOUS
<1>1. /\ worker[w] = Idle /\ worker' = [worker EXCEPT ![w] = v]
      /\ event' = [x \in Events |-> IF x \in pending THEN "IN_PROGRESS" ELSE event[x]]
      /\ UNCHANGED <<intake, saved, raised, inquiry>>
  BY <1>0 DEF Poll
<1>2. /\ v \in WorkerType /\ v.pc = "IDLE" /\ v.on = NoRef /\ v.batch = pending
      /\ v.results = <<>> /\ v.todo = {}
  BY <1>0, <1>1, IdleType DEF WorkerType
<1>3. event' \in [Events -> EventStatus]
  BY <1>1, WorkerIs DEF EventStatus
<1>4. \A x \in Events : /\ (event[x] # "NONE") <=> (event'[x] # "NONE")
                        /\ x \in v.batch \/ x = v.on => event'[x] # "NONE"
                        /\ event'[x] = "PROCESSED" => event[x] = "PROCESSED"
  BY <1>1, <1>2, WorkerIs
<1>5. Shape(v)' BY <1>2 DEF Shape
<1>6. \A res \in saved' : Sound(res) BY <1>1 DEF JudgingInv, ResultsSound
<1>7. \A k \in DOMAIN v.results : Sound(v.results[k]) BY <1>2
<1>8. Rows \subseteq Events BY DEF Events
<1> HIDE DEF next, pending
<1> QED BY <1>1, <1>2, <1>3, <1>4, <1>5, <1>6, <1>7, <1>8, WorkerIs, WorkerMoves

LEMMA FindKeeps ==
  ASSUME TypeOK, JudgingInv, NEW w \in Workers, NEW x \in Events, Find(w, x)
  PROVE  TypeOK' /\ JudgingInv'
<1> DEFINE open == IF x = All THEN book ELSE {e \in book : Finds(x, e)}
           alarm == x # All /\ open = {}
<1>0. PICK v : v = worker'[w] OBVIOUS
<1>1. /\ worker[w].pc = "IDLE" /\ x \in worker[w].batch
      /\ worker' = [worker EXCEPT ![w] = v]
      /\ UNCHANGED <<intake, event, saved, raised, inquiry>>
  BY <1>0, WorkerIs DEF Find
<1>2. x \in Rows \/ x = All BY DEF Events
<1>3. Unexpected(x, x) \in Result \/ ~alarm
  BY <1>2 DEF Unexpected, Result, Reasons
<1>4. open \subseteq Expectations BY DEF TypeOK
<1>5. worker[w] \in WorkerType BY WorkerIs
<1>6. (IF alarm THEN <<Unexpected(x, x)>> ELSE <<>>) \in Seq(Result)
  BY <1>3, EmptySeq
<1>7. /\ v \in WorkerType /\ v.on = x /\ v.todo = open
      /\ v.batch = worker[w].batch \ {x}
      /\ v.pc = (IF alarm THEN "FILE" ELSE "JUDGE")
      /\ v.results = (IF alarm THEN <<Unexpected(x, x)>> ELSE <<>>)
  <2>1. v = [worker[w] EXCEPT
              !.pc = IF alarm THEN "FILE" ELSE "JUDGE", !.batch = @ \ {x}, !.on = x,
              !.todo = open, !.results = IF alarm THEN <<Unexpected(x, x)>> ELSE <<>>]
    BY <1>0, WorkerIs DEF Find
  <2> HIDE DEF open, alarm
  <2> QED BY <2>1, <1>4, <1>5, <1>6 DEF WorkerType
<1>8. alarm => Sound(Unexpected(x, x))
  <2> SUFFICES ASSUME alarm PROVE Sound(Unexpected(x, x)) OBVIOUS
  <2>1. x \in Rows /\ stored[x] # NoRow
    BY <1>1, <1>2 DEF JudgingInv, ClaimedWasAnnounced, AnnouncedIsStored
  <2>2. \A e \in known[x] : ~Belongs(x, e)
    BY <2>1, BelongsIsFound DEF TypeOK
  <2> QED BY <2>1, <2>2 DEF Sound, FromStored, TrueAlarm, Unexpected
<1>9. \A k \in DOMAIN v.results : Sound(v.results[k])
  BY <1>7, <1>8
<1>10. Shape(v)' BY <1>7 DEF Shape
<1>11. \A r \in Rows : v.on = r => \A e \in known[r] : Belongs(r, e) => InHand(v, r, e)
  <2> SUFFICES ASSUME x \in Rows, NEW e \in known[x], Belongs(x, e) PROVE e \in v.todo
    BY <1>7 DEF InHand
  <2> QED BY <1>7, BelongsIsFound, ReconciliationAssumption DEF TypeOK
<1>12. \A y \in Events : y \in v.batch \/ y = v.on => event'[y] # "NONE"
  BY <1>1, <1>7 DEF JudgingInv, ClaimedWasAnnounced
<1>13. \A res \in saved' : Sound(res) BY <1>1 DEF JudgingInv, ResultsSound
<1> HIDE DEF open, alarm
<1> QED BY <1>1, <1>7, <1>9, <1>10, <1>11, <1>12, <1>13, WorkerIs, WorkerMoves

LEMMA JudgeKeeps ==
  ASSUME TypeOK, JudgingInv, NEW w \in Workers, NEW e \in Expectations, Judge(w, e)
  PROVE  TypeOK' /\ JudgingInv'
<1> DEFINE S == Candidates(e, stored)
<1>1. PICK order \in Orders(S) :
       worker' = [worker EXCEPT
         ![w].todo = @ \ {e},
         ![w].mapped = @ \union Candidates(e, stored),
         ![w].results = Append(@, [of |-> e, rows |-> order, on |-> worker[w].on,
           reason |-> Verdict(e, ReadAll(order, stored), e \in late)])]
  BY DEF Judge
<1> DEFINE res == [of |-> e, rows |-> order, on |-> worker[w].on,
                   reason |-> Verdict(e, ReadAll(order, stored), e \in late)]
           old == worker[w].results
<1>0. PICK v : v = worker'[w] OBVIOUS
<1>2. /\ worker[w].pc = "JUDGE" /\ worker' = [worker EXCEPT ![w] = v]
      /\ UNCHANGED <<intake, event, saved, raised, inquiry>>
  BY <1>0, WorkerIs DEF Judge
<1>3. S \subseteq Rows BY DEF Candidates, Stored
<1>4. /\ order \in Seq(Rows) /\ \A j \in DOMAIN order : order[j] \in S
      /\ \A r \in S : \E j \in DOMAIN order : order[j] = r
  BY <1>3, OrdersType
<1>5. worker[w].on \in Events BY <1>2 DEF JudgingInv, WorkersShaped, Shape
<1>6. res \in Result
  <2>1. Verdict(e, ReadAll(order, stored), e \in late) \in Reasons \union {"MATCH"}
    BY VerdictType DEF Verdictum
  <2> HIDE DEF S
  <2> QED BY <1>4, <1>5, <2>1 DEF Result
<1>7. worker[w] \in WorkerType BY WorkerIs
<1>8. /\ v \in WorkerType /\ v.pc = "JUDGE" /\ v.on = worker[w].on
      /\ v.batch = worker[w].batch /\ v.todo = worker[w].todo \ {e}
      /\ v.results = Append(old, res)
  <2>1. old \in Seq(Result) BY <1>7 DEF WorkerType
  <2>2. Append(old, res) \in Seq(Result) BY <1>6, <2>1, AppendProperties
  <2>3. v = [worker[w] EXCEPT !.todo = @ \ {e}, !.mapped = @ \union S, !.results = Append(@, res)]
    BY <1>0, <1>1, <1>7, WorkerIs
  <2> HIDE DEF res, S, old
  <2> QED BY <2>3, <1>2, <1>3, <1>7, <2>2 DEF WorkerType, old
<1>9. Sound(res)
  <2>1. FromStored(res.rows)
    BY <1>4 DEF FromStored, Candidates, Stored
  <2>2. TrueAlarm(res) BY ControlsAssumption DEF TrueAlarm
  <2> QED BY <2>1, <2>2 DEF Sound
<1>10. /\ DOMAIN v.results = 1 .. (Len(old) + 1) /\ Len(old) \in Nat
       /\ DOMAIN old = 1 .. Len(old)
       /\ \A k \in DOMAIN old : v.results[k] = old[k]
       /\ v.results[Len(old) + 1] = res
  <2>1. old \in Seq(Result) BY <1>7 DEF WorkerType
  <2> HIDE DEF res, old
  <2> QED BY <2>1, <1>8, <1>6
<1>11. \A k \in DOMAIN v.results : Sound(v.results[k])
  <2> SUFFICES ASSUME NEW k \in DOMAIN v.results PROVE Sound(v.results[k]) OBVIOUS
  <2>1. k \in DOMAIN old \/ k = Len(old) + 1 BY <1>10
  <2>2. \A j \in DOMAIN old : Sound(old[j]) BY DEF JudgingInv, ResultsSound
  <2> HIDE DEF res, old
  <2> QED BY <2>1, <2>2, <1>9, <1>10
<1>12. Shape(v)'
  BY <1>5, <1>8 DEF Shape
<1>13. \A r \in Rows : v.on = r =>
         \A f \in known[r] : Belongs(r, f) => InHand(v, r, f) \/ Filed(r, f)'
  <2> SUFFICES ASSUME NEW r \in Rows, worker[w].on = r, NEW f \in known[r], Belongs(r, f)
               PROVE  InHand(v, r, f) \/ Filed(r, f)'
    BY <1>8
  <2>1. InHand(worker[w], r, f) \/ Filed(r, f)
    BY <1>2 DEF JudgingInv, NothingDropped
  <2>2. ASSUME NEW k \in DOMAIN old, Counts(old[k], r, f) PROVE InHand(v, r, f)
    BY <2>2, <1>10 DEF InHand, old
  <2>3. ASSUME f = e PROVE Counts(res, r, f)
    <3>1. stored[r] # NoRow
      BY DEF JudgingInv, ClaimedWasAnnounced, AnnouncedIsStored, Events
    <3>2. r \in S BY <3>1, <2>3, BelongsIsFound DEF Candidates, Stored
    <3> QED BY <3>2, <2>3, <1>4 DEF Counts
  <2>4. ASSUME f = e PROVE InHand(v, r, f)
    <3> HIDE DEF res, S, old
    <3> QED BY <2>3, <2>4, <1>10 DEF InHand
  <2>5. ASSUME f # e, f \in worker[w].todo PROVE InHand(v, r, f)
    BY <2>5, <1>8 DEF InHand
  <2>6. Filed(r, f) => Filed(r, f)' BY <1>2 DEF Filed, Counts
  <2> QED BY <2>1, <2>2, <2>4, <2>5, <2>6 DEF InHand, old
<1>14. \A y \in Events : y \in v.batch \/ y = v.on => event'[y] # "NONE"
  BY <1>2, <1>8 DEF JudgingInv, ClaimedWasAnnounced
<1>15. \A q \in saved' : Sound(q) BY <1>2 DEF JudgingInv, ResultsSound
<1> HIDE DEF S, res, old
<1> QED BY <1>2, <1>8, <1>11, <1>12, <1>13, <1>14, <1>15, WorkerIs, WorkerMoves

\* Only the batch event that carries no row finds strays.
LEMMA SweepKeeps ==
  ASSUME TypeOK, JudgingInv, NEW w \in Workers, Sweep(w) PROVE TypeOK' /\ JudgingInv'
<1> DEFINE stray == IF worker[w].on = All THEN Stored(stored) \ worker[w].mapped ELSE {}
           old == worker[w].results
<1>1. PICK order \in Orders(stray) :
        worker' = [worker EXCEPT ![w].pc = "FILE", ![w].mapped = {},
          ![w].results = @ \o [j \in DOMAIN order |-> Unexpected(order[j], All)]]
  BY DEF Sweep
<1>2. PICK v : v = worker'[w] OBVIOUS
<1>3. /\ worker[w].pc = "JUDGE" /\ worker[w].todo = {}
      /\ worker' = [worker EXCEPT ![w] = v]
      /\ UNCHANGED <<intake, event, saved, raised, inquiry>>
  BY <1>2, WorkerIs DEF Sweep
<1> DEFINE more == [j \in DOMAIN order |-> Unexpected(order[j], All)]
<1>4. stray \subseteq Rows BY DEF Stored
<1>5. order \in Seq(Rows) /\ \A j \in DOMAIN order : order[j] \in stray
  BY <1>4, OrdersType
<1>6. more \in Seq(Result)
  <2>1. \A j \in DOMAIN order : Unexpected(order[j], All) \in Result
    BY <1>5 DEF Unexpected, Result, Reasons, Events
  <2> QED BY <1>5, <2>1
<1>7. worker[w] \in WorkerType /\ old \in Seq(Result) BY WorkerIs DEF WorkerType
<1>8. old \o more \in Seq(Result) BY <1>6, <1>7, ConcatProperties
<1>9. /\ v \in WorkerType /\ v.pc = "FILE" /\ v.on = worker[w].on
      /\ v.batch = worker[w].batch /\ v.todo = {} /\ v.results = old \o more
  <2>1. v = [worker[w] EXCEPT !.pc = "FILE", !.mapped = {}, !.results = @ \o more]
    BY <1>1, <1>2, WorkerIs
  <2> HIDE DEF more, old, stray
  <2> QED BY <2>1, <1>3, <1>7, <1>8 DEF WorkerType, old
<1>10. worker[w].on \in Events BY <1>3 DEF JudgingInv, WorkersShaped, Shape
<1>11. \A j \in DOMAIN more : Sound(more[j])
  <2> SUFFICES ASSUME NEW j \in DOMAIN order PROVE Sound(Unexpected(order[j], All))
    OBVIOUS
  <2>1. order[j] \in stray BY <1>5
  <2>2. stored[order[j]] # NoRow BY <2>1 DEF Stored
  <2> QED BY <2>2 DEF Sound, FromStored, TrueAlarm, Unexpected
<1>12. \A k \in DOMAIN v.results : Sound(v.results[k])
  <2> SUFFICES ASSUME NEW k \in DOMAIN v.results PROVE Sound(v.results[k]) OBVIOUS
  <2>1. \A j \in DOMAIN old : Sound(old[j]) BY DEF JudgingInv, ResultsSound
  <2> HIDE DEF old, more
  <2>2. \/ k \in DOMAIN old /\ v.results[k] = old[k]
        \/ \E j \in DOMAIN more : v.results[k] = more[j]
    <3>1. DOMAIN v.results = 1 .. (Len(old) + Len(more)) BY <1>6, <1>7, <1>9
    <3>2. CASE k <= Len(old) BY <3>1, <3>2, <1>6, <1>7, <1>9
    <3>3. CASE k > Len(old)
      <4>1. k - Len(old) \in DOMAIN more BY <3>1, <3>3, <1>6, <1>7
      <4>2. v.results[k] = more[k - Len(old)] BY <3>1, <3>3, <1>6, <1>7, <1>9, ConcatProperties
      <4> QED BY <4>1, <4>2
    <3> QED BY <3>1, <3>2, <3>3, <1>6, <1>7
  <2> QED BY <2>1, <2>2, <1>11
<1>13. Shape(v)' BY <1>9, <1>10 DEF Shape
<1>14. \A r \in Rows : v.on = r =>
         \A f \in known[r] : Belongs(r, f) => InHand(v, r, f) \/ Filed(r, f)'
  <2> SUFFICES ASSUME NEW r \in Rows, worker[w].on = r, NEW f \in known[r], Belongs(r, f)
               PROVE  InHand(v, r, f) \/ Filed(r, f)'
    BY <1>9
  <2>1. InHand(worker[w], r, f) \/ Filed(r, f)
    BY <1>3 DEF JudgingInv, NothingDropped
  <2>2. \A k \in DOMAIN old : k \in DOMAIN v.results /\ v.results[k] = old[k]
    <3> HIDE DEF old, more
    <3> QED BY <1>6, <1>7, <1>9, ConcatProperties
  <2>3. InHand(worker[w], r, f) => InHand(v, r, f) BY <1>3, <2>2 DEF InHand
  <2>4. Filed(r, f) => Filed(r, f)' BY <1>3 DEF Filed, Counts
  <2> QED BY <2>1, <2>3, <2>4
<1>15. \A y \in Events : y \in v.batch \/ y = v.on => event'[y] # "NONE"
  BY <1>3, <1>9 DEF JudgingInv, ClaimedWasAnnounced
<1>16. \A q \in saved' : Sound(q) BY <1>3 DEF JudgingInv, ResultsSound
<1> HIDE DEF old, more, stray
<1> QED BY <1>3, <1>9, <1>12, <1>13, <1>14, <1>15, <1>16, WorkerIs, WorkerMoves

LEMMA FileKeeps ==
  ASSUME TypeOK, JudgingInv, NEW w \in Workers, File(w) PROVE TypeOK' /\ JudgingInv'
<1> DEFINE old == worker[w].results
           res == Head(old)
<1>1. PICK v : v = worker'[w] OBVIOUS
<1>2. worker[w] \in WorkerType /\ old \in Seq(Result) BY WorkerIs DEF WorkerType
<1>3. /\ worker[w].pc = "FILE" /\ old # <<>> /\ saved' = saved \union {res}
      /\ UNCHANGED <<intake, event, raised, inquiry>>
  BY DEF File
<1>4. /\ worker' = [worker EXCEPT ![w] = v]
      /\ v = IF res.reason = "MATCH" THEN [worker[w] EXCEPT !.results = Tail(@)]
             ELSE [worker[w] EXCEPT !.pc = "RAISE"]
  <2>1. CASE res.reason = "MATCH"
    <3>1. worker' = [worker EXCEPT ![w].results = Tail(@)] BY <2>1 DEF File
    <3> QED BY <3>1, <2>1, <1>1, WorkerIs
  <2>2. CASE res.reason # "MATCH"
    <3>1. worker' = [worker EXCEPT ![w].pc = "RAISE"] BY <2>2 DEF File
    <3> QED BY <3>1, <2>2, <1>1, WorkerIs
  <2> QED BY <2>1, <2>2
<1>5. /\ res \in Result /\ Tail(old) \in Seq(Result) /\ 1 \in DOMAIN old /\ res = old[1]
      /\ \A k \in DOMAIN Tail(old) : k + 1 \in DOMAIN old /\ Tail(old)[k] = old[k + 1]
      /\ \A k \in DOMAIN old : k = 1 \/ (k - 1 \in DOMAIN Tail(old) /\ Tail(old)[k - 1] = old[k])
  <2> HIDE DEF old
  <2> QED BY <1>2, <1>3, HeadTailProperties
<1>6. /\ v \in WorkerType /\ v.on = worker[w].on /\ v.batch = worker[w].batch
      /\ v.todo = worker[w].todo /\ v.pc = (IF res.reason = "MATCH" THEN "FILE" ELSE "RAISE")
      /\ v.results = (IF res.reason = "MATCH" THEN Tail(old) ELSE old)
  <2>1. Tail(old) \in Seq(Result) BY <1>5
  <2> HIDE DEF res
  <2> QED BY <2>1, <1>2, <1>3, <1>4 DEF WorkerType
<1>7. worker[w].on \in Events /\ worker[w].todo = {}
  BY <1>3 DEF JudgingInv, WorkersShaped, Shape
<1>8. \A k \in DOMAIN old : Sound(old[k]) BY DEF JudgingInv, ResultsSound
<1>9. \A q \in saved' : Sound(q)
  BY <1>3, <1>5, <1>8 DEF JudgingInv, ResultsSound
<1>10. \A k \in DOMAIN v.results : Sound(v.results[k])
  <2> HIDE DEF old, res
  <2> QED BY <1>5, <1>6, <1>8
<1>11. Shape(v)'
  <2> HIDE DEF old
  <2> QED BY <1>3, <1>6, <1>7 DEF Shape
<1>12. \A r \in Rows : v.on = r =>
         \A f \in known[r] : Belongs(r, f) => InHand(v, r, f) \/ Filed(r, f)'
  <2> SUFFICES ASSUME NEW r \in Rows, worker[w].on = r, NEW f \in known[r], Belongs(r, f)
               PROVE  InHand(v, r, f) \/ Filed(r, f)'
    BY <1>6
  <2>1. InHand(worker[w], r, f) \/ Filed(r, f)
    BY <1>3 DEF JudgingInv, NothingDropped
  <2>2. Filed(r, f) => Filed(r, f)' BY <1>3 DEF Filed, Counts
  <2>3. ASSUME NEW k \in DOMAIN old, Counts(old[k], r, f) PROVE InHand(v, r, f) \/ Filed(r, f)'
    <3>1. CASE res.reason # "MATCH"
      <4> HIDE DEF res
      <4> QED BY <2>3, <3>1, <1>6 DEF InHand
    <3>2. CASE res.reason = "MATCH" /\ k = 1
      BY <3>2, <2>3, <1>3, <1>5 DEF Filed, Counts
    <3>3. CASE res.reason = "MATCH" /\ k # 1
      <4> HIDE DEF res, old
      <4>1. v.results = Tail(old) BY <3>3, <1>6
      <4>2. k - 1 \in DOMAIN Tail(old) /\ Tail(old)[k - 1] = old[k] BY <3>3, <1>5
      <4> QED BY <4>1, <4>2, <2>3 DEF InHand
    <3> QED BY <3>1, <3>2, <3>3
  <2> QED BY <2>1, <2>2, <2>3, <1>7 DEF InHand
<1>13. \A y \in Events : y \in v.batch \/ y = v.on => event'[y] # "NONE"
  BY <1>3, <1>6 DEF JudgingInv, ClaimedWasAnnounced
<1>14. saved \subseteq saved' /\ saved' \subseteq Result /\ raised' \subseteq saved'
  BY <1>3, <1>5, WorkerIs
<1> HIDE DEF old, res
<1> QED BY <1>3, <1>4, <1>6, <1>9, <1>10, <1>11, <1>12, <1>13, <1>14, WorkerIs, WorkerMoves

LEMMA RaiseKeeps ==
  ASSUME TypeOK, JudgingInv, NEW w \in Workers, Raise(w) PROVE TypeOK' /\ JudgingInv'
<1> DEFINE old == worker[w].results
           res == Head(old)
<1>1. PICK v : v = worker'[w] OBVIOUS
<1>2. worker[w] \in WorkerType /\ old \in Seq(Result) BY WorkerIs DEF WorkerType
<1>3. /\ worker[w].pc = "RAISE" /\ raised' = raised \union {res}
      /\ worker' = [worker EXCEPT ![w].pc = "FILE", ![w].results = Tail(@)]
      /\ UNCHANGED <<intake, event, saved, inquiry>>
  BY DEF Raise
<1>4. /\ worker' = [worker EXCEPT ![w] = v]
      /\ v = [worker[w] EXCEPT !.pc = "FILE", !.results = Tail(@)]
  BY <1>1, <1>3, WorkerIs
<1>5. old # <<>> /\ res \in saved
  BY <1>3 DEF JudgingInv, WorkersShaped, Shape
<1>6. /\ Tail(old) \in Seq(Result) /\ res = old[1]
      /\ \A k \in DOMAIN Tail(old) : k + 1 \in DOMAIN old /\ Tail(old)[k] = old[k + 1]
      /\ \A k \in DOMAIN old : k = 1 \/ (k - 1 \in DOMAIN Tail(old) /\ Tail(old)[k - 1] = old[k])
  <2> HIDE DEF old
  <2> QED BY <1>2, <1>5, HeadTailProperties
<1>7. /\ v \in WorkerType /\ v.on = worker[w].on /\ v.batch = worker[w].batch
      /\ v.todo = worker[w].todo /\ v.pc = "FILE" /\ v.results = Tail(old)
  <2>1. Tail(old) \in Seq(Result) BY <1>6
  <2> QED BY <2>1, <1>2, <1>3, <1>4 DEF WorkerType
<1>8. worker[w].on \in Events /\ worker[w].todo = {}
  BY <1>3 DEF JudgingInv, WorkersShaped, Shape
<1>9. \A k \in DOMAIN v.results : Sound(v.results[k])
  <2>1. \A k \in DOMAIN old : Sound(old[k]) BY DEF JudgingInv, ResultsSound
  <2> HIDE DEF old
  <2> QED BY <2>1, <1>6, <1>7
<1>10. Shape(v)' BY <1>7, <1>8 DEF Shape
<1>11. \A r \in Rows : v.on = r =>
         \A f \in known[r] : Belongs(r, f) => InHand(v, r, f) \/ Filed(r, f)'
  <2> SUFFICES ASSUME NEW r \in Rows, worker[w].on = r, NEW f \in known[r], Belongs(r, f)
               PROVE  InHand(v, r, f) \/ Filed(r, f)'
    BY <1>7
  <2>1. InHand(worker[w], r, f) \/ Filed(r, f)
    BY <1>3 DEF JudgingInv, NothingDropped
  <2>2. Filed(r, f) => Filed(r, f)' BY <1>3 DEF Filed, Counts
  <2>3. ASSUME NEW k \in DOMAIN old, Counts(old[k], r, f) PROVE InHand(v, r, f) \/ Filed(r, f)'
    <3>1. CASE k = 1
      BY <2>3, <3>1, <1>3, <1>5, <1>6 DEF Filed, Counts
    <3>2. CASE k # 1
      <4>1. k - 1 \in DOMAIN Tail(old) /\ Tail(old)[k - 1] = old[k] BY <3>2, <1>6
      <4> QED BY <4>1, <1>7, <2>3 DEF InHand
    <3> QED BY <3>1, <3>2
  <2> QED BY <2>1, <2>2, <2>3, <1>8 DEF InHand
<1>12. \A y \in Events : y \in v.batch \/ y = v.on => event'[y] # "NONE"
  BY <1>3, <1>7 DEF JudgingInv, ClaimedWasAnnounced
<1>13. raised \subseteq raised' /\ raised' \subseteq saved' BY <1>3, <1>5, WorkerIs
<1>14. \A q \in saved' : Sound(q) BY <1>3 DEF JudgingInv, ResultsSound
<1> HIDE DEF old, res
<1> QED
  BY <1>3, <1>4, <1>7, <1>9, <1>10, <1>11, <1>12, <1>13, <1>14, WorkerIs, WorkerMoves

\* A worker that is done with an event, one way or another.
LEMMA ReleaseKeeps ==
  ASSUME TypeOK, JudgingInv, NEW w \in Workers, worker[w].pc # "IDLE", worker' = Release(w),
         NEW status \in {"PROCESSED", "FAILED"},
         event' = [event EXCEPT ![worker[w].on] = status],
         status = "PROCESSED" => Done(w),
         UNCHANGED <<intake, saved, raised, inquiry>>
  PROVE  TypeOK' /\ JudgingInv'
<1>1. PICK v : v = worker'[w] OBVIOUS
<1>2. worker[w] \in WorkerType BY WorkerIs
<1>3. worker' = [worker EXCEPT ![w] = v] /\ v = [Idle EXCEPT !.batch = worker[w].batch]
  BY <1>1, WorkerIs DEF Release
<1>4. /\ v \in WorkerType /\ v.on = NoRef /\ v.batch = worker[w].batch
      /\ v.todo = {} /\ v.pc = "IDLE" /\ v.results = <<>>
  BY <1>2, <1>3, IdleType DEF WorkerType
<1>5. worker[w].on \in Events /\ event[worker[w].on] # "NONE"
  BY DEF JudgingInv, WorkersShaped, Shape, ClaimedWasAnnounced
<1>6. /\ event' \in [Events -> EventStatus]
      /\ \A x \in Events : (event[x] # "NONE") <=> (event'[x] # "NONE")
  BY <1>5, WorkerIs DEF EventStatus
<1>7. \A y \in Events : y \in v.batch \/ y = v.on => event'[y] # "NONE"
  BY <1>4, <1>6, WorkerIs DEF JudgingInv, ClaimedWasAnnounced
<1>8. Shape(v)' BY <1>4 DEF Shape
<1>9. ASSUME NEW r \in Rows, event'[r] = "PROCESSED", event[r] # "PROCESSED",
             NEW e \in known[r], Belongs(r, e)
      PROVE  Filed(r, e)'
  <2>1. r = worker[w].on /\ status = "PROCESSED" BY <1>5, <1>9, WorkerIs DEF Events
  <2>2. Done(w) BY <2>1
  <2>3. worker[w].todo = {} /\ worker[w].results = <<>>
    BY <2>2 DEF Done, JudgingInv, WorkersShaped, Shape
  <2>4. InHand(worker[w], r, e) \/ Filed(r, e) BY <1>9, <2>1 DEF JudgingInv, NothingDropped
  <2> QED BY <2>3, <2>4 DEF InHand, Filed, Counts
<1>10. \A q \in saved' : Sound(q) BY DEF JudgingInv, ResultsSound
<1>11. \A k \in DOMAIN v.results : Sound(v.results[k]) BY <1>4
<1> QED
  BY <1>3, <1>4, <1>6, <1>7, <1>8, <1>9, <1>10, <1>11, WorkerIs, WorkerMoves

LEMMA CrashKeeps ==
  ASSUME TypeOK, JudgingInv, NEW w \in Workers, Crash(w) PROVE TypeOK' /\ JudgingInv'
<1>1. PICK v : v = Idle OBVIOUS
<1>2. worker' = [worker EXCEPT ![w] = v] /\ UNCHANGED <<intake, event, saved, raised, inquiry>>
  BY <1>1 DEF Crash
<1>3. v \in WorkerType /\ v.on = NoRef /\ v.batch = {} /\ v.todo = {} /\ v.pc = "IDLE" /\ v.results = <<>>
  BY <1>1, IdleType
<1>4. Shape(v)' BY <1>3 DEF Shape
<1>5. \A q \in saved' : Sound(q) BY <1>2 DEF JudgingInv, ResultsSound
<1>6. \A k \in DOMAIN v.results : Sound(v.results[k]) BY <1>3
<1> QED BY <1>2, <1>3, <1>4, <1>5, <1>6, WorkerIs, WorkerMoves

LEMMA WorkKeeps ==
  ASSUME TypeOK, JudgingInv, NEW w \in Workers, Work(w) \/ Fail(w) \/ Crash(w)
  PROVE  TypeOK' /\ JudgingInv'
<1>1. CASE Poll(w) BY <1>1, PollKeeps
<1>2. ASSUME NEW x \in Events, Find(w, x) PROVE TypeOK' /\ JudgingInv' BY <1>2, FindKeeps
<1>3. ASSUME NEW e \in Expectations, Judge(w, e) PROVE TypeOK' /\ JudgingInv'
  BY <1>3, JudgeKeeps
<1>4. CASE Sweep(w) BY <1>4, SweepKeeps
<1>5. CASE File(w) BY <1>5, FileKeeps
<1>6. CASE Raise(w) BY <1>6, RaiseKeeps
<1>7. CASE Finish(w)
  <2>1. worker[w].pc # "IDLE" BY <1>7 DEF Finish, Done
  <2> QED BY <1>7, <2>1, ReleaseKeeps DEF Finish
<1>8. CASE Fail(w) BY <1>8, ReleaseKeeps DEF Fail
<1>9. CASE Crash(w) BY <1>9, CrashKeeps
<1> QED BY <1>1, <1>2, <1>3, <1>4, <1>5, <1>6, <1>7, <1>8, <1>9 DEF Work

\* The workers' loop leaves the investigation alone.
LEMMA WorkFrame ==
  ASSUME NEW w \in Workers, Work(w) \/ Fail(w) \/ Crash(w)
  PROVE  UNCHANGED <<intake, inquiry>>
BY DEF Work, Poll, Find, Judge, Sweep, File, Raise, Finish, Fail, Crash

-----------------------------------------------------------------------------
(* What arrives, one step at a time.                                       *)

\* A step that stores nothing.
LEMMA QuietFrame ==
  ASSUME IInv, TypeOK', UNCHANGED <<stored, known, evidence, worker, saved, raised, inquiry>>,
         \A r \in Rows : r \in unannounced' => r \in unannounced,
         \A x \in Events :
           /\ event[x] # "NONE" => event'[x] # "NONE"
           /\ event'[x] # "NONE" => event[x] # "NONE" \/ x \in unannounced
           /\ event'[x] = "PROCESSED" => event[x] = "PROCESSED"
  PROVE  JudgingInv' /\ InquiryInv'
<1>1. Kept BY DEF Kept
<1> QED BY <1>1, JudgingFrame, InquiryFrame DEF IInv

LEMMA OpenKeeps ==
  ASSUME IInv, NEW e \in Expectations, OpenExpectation(e) \/ GrowOld(e) PROVE IInv'
<1>1. TypeOK' BY DEF IInv, TypeOK, OpenExpectation, GrowOld, judging
<1>2. UNCHANGED <<stored, known, evidence, worker, saved, raised, inquiry, event, unannounced>>
  BY DEF OpenExpectation, GrowOld, judging
<1>3. JudgingInv' /\ InquiryInv' BY <1>1, <1>2, QuietFrame
<1> QED BY <1>1, <1>3 DEF IInv

LEMMA ProviderKeeps ==
  ASSUME IInv, NEW r \in Records, NEW s \in Statuses, ProviderMoves(r, s) PROVE IInv'
<1>1. TypeOK' BY DEF IInv, TypeOK, ProviderMoves, judging
<1>2. UNCHANGED <<stored, known, evidence, worker, saved, raised, inquiry, event, unannounced>>
  BY DEF ProviderMoves, judging
<1>3. JudgingInv' /\ InquiryInv' BY <1>1, <1>2, QuietFrame
<1> QED BY <1>1, <1>3 DEF IInv

LEMMA EventKeeps ==
  ASSUME IInv, NEW x \in Events, Announce(x) \/ LoseAnnouncement(x) \/ Recover(x) PROVE IInv'
<1>1. TypeOK' BY DEF IInv, TypeOK, Announce, LoseAnnouncement, Recover, judging, intake
<1>2. UNCHANGED <<stored, known, evidence, worker, saved, raised, inquiry>>
  BY DEF Announce, LoseAnnouncement, Recover, judging, intake
<1>3. /\ unannounced' \subseteq unannounced
      /\ \A y \in Events :
           /\ event[y] # "NONE" => event'[y] # "NONE"
           /\ event'[y] # "NONE" => event[y] # "NONE" \/ y \in unannounced
           /\ event'[y] = "PROCESSED" => event[y] = "PROCESSED"
  BY DEF IInv, TypeOK, Announce, LoseAnnouncement, Recover, judging, intake
<1>4. JudgingInv' /\ InquiryInv' BY <1>1, <1>2, <1>3, QuietFrame
<1> QED BY <1>1, <1>4 DEF IInv

LEMMA ObserveKeeps == ASSUME IInv, NEW r \in Rows, Observe(r) PROVE IInv'
<1>1. PICK o \in Reports[r] :
        /\ Newer([row |-> r, status |-> o.status, at |-> o.at], stored)
        /\ stored' = UpsertAll(<<[row |-> r, status |-> o.status, at |-> o.at]>>, stored)
        /\ evidence' = evidence \union {EvidenceOf([row |-> r, status |-> o.status, at |-> o.at])}
  BY DEF Observe
<1>2. PICK obs : obs = [row |-> r, status |-> o.status, at |-> o.at] OBVIOUS
<1>3. obs \in Observation /\ <<obs>> \in Seq(Observation)
  <2>1. o \in [status : CanonicalStatus, at : Nat] BY ReconciliationAssumption
  <2> QED BY <2>1, <1>2 DEF Observation
<1>4. /\ unannounced' = IF stored[r] = NoRow THEN unannounced \union {r} ELSE unannounced
      /\ Remember(stored')
      /\ UNCHANGED <<book, late, truth, event, worker, saved, raised, inquiry, spent>>
  BY DEF Observe, judging
<1>5. /\ stored' = UpsertAll(<<obs>>, stored) /\ Newer(obs, stored)
      /\ evidence' = evidence \union {EvidenceOf(obs)}
  BY <1>1, <1>2
<1>6. /\ stored' \in [Rows -> RowValue \union {NoRow}]
      /\ known' \in [Rows -> SUBSET book'] /\ Kept
  BY <1>3, <1>4, <1>5, StoringKeeps DEF IInv
<1>7. stored'[r] # NoRow
  <2>1. CASE stored[r] # NoRow BY <2>1, <1>6 DEF Kept
  <2>2. CASE stored[r] = NoRow
    <3>1. 1 \in DOMAIN <<obs>> /\ <<obs>>[1].row = r /\ Newer(<<obs>>[1], stored) /\ Stays(1, <<obs>>)
      BY <1>2, <1>3, <1>5 DEF Stays
    <3>2. PICK j \in DOMAIN <<obs>> :
            stored'[r] = [status |-> <<obs>>[j].status, at |-> <<obs>>[j].at]
      BY <3>1, <1>5 DEF UpsertAll
    <3>3. <<obs>>[j] = obs BY <3>2
    <3>4. stored'[r] = [status |-> obs.status, at |-> obs.at] BY <3>2, <3>3
    <3> QED BY <3>4, <1>3, ControlsAssumption DEF Observation
  <2> QED BY <2>1, <2>2
<1>8. evidence' \subseteq Rows \X CanonicalStatus /\ evidence \subseteq evidence'
  BY <1>3, <1>5, EvidenceType DEF IInv, TypeOK
<1>9. TypeOK'
  BY <1>4, <1>6, <1>8 DEF IInv, TypeOK, RowValue, Events
<1>10. JudgingInv' BY <1>4, <1>6, <1>7, JudgingFrame DEF IInv
<1>11. InquiryInv' BY <1>4, <1>6, <1>8, <1>9, InquiryFrame DEF IInv
<1> QED BY <1>9, <1>10, <1>11 DEF IInv

-----------------------------------------------------------------------------
(* The investigation, one step at a time.                                  *)

LEMMA InquiryIs == InquiryInv => inquiry \in InquiryType
BY DEF InquiryInv, InquiryTypes, InquiryType

\* A step of the investigation that stores nothing.
LEMMA InquiryMoves ==
  ASSUME IInv, UNCHANGED <<intake, judging>>, inquiry' \in InquiryType,
         FromStored(inquiry'.rows),
         inquiry'.hyp # NoRef =>
           inquiry'.hyp.supporting \union inquiry'.hyp.contradicting \subseteq evidence,
         NewsIsItsOwn', \A j \in DOMAIN inquiry'.obs : OnRecord(inquiry'.obs[j]),
         inquiry'.pc = "RESOLVED" =>
           inquiry'.of # NoRef /\ inquiry'.obs = <<>> /\ inquiry'.news = <<>>
  PROVE  IInv'
<1>1. TypeOK' BY DEF IInv, TypeOK, InquiryType, intake, judging
<1>2. Kept BY DEF Kept, intake
<1>3. JudgingInv' BY <1>2, JudgingFrame DEF IInv, intake, judging
<1>4. InquiryTypes' BY DEF InquiryTypes, InquiryType
<1>5. InquirySound' /\ VouchedBeforeQuery'
  BY DEF InquirySound, FromStored, VouchedBeforeQuery, intake
<1>6. ObsOnRecord' BY DEF ObsOnRecord, OnRecord, intake
<1>7. ResolvedHasASubject' BY DEF ResolvedHasASubject
<1>8. SettledByItsOwnRefund' BY DEF SettledByItsOwnRefund
<1>9. ResolvedIsOnRecord'
  <2>1. inquiry'.pc = "RESOLVED" => Counted' = <<>> BY DEF Counted
  <2> QED BY <2>1 DEF ResolvedIsOnRecord
<1> QED BY <1>1, <1>3, <1>4, <1>5, <1>6, <1>7, <1>8, <1>9 DEF IInv, InquiryInv

LEMMA BeginKeeps ==
  ASSUME IInv, NEW res \in saved, NEW hyp \in {NoRef, inquiry.hyp}, Begin(res, hyp),
         UNCHANGED <<intake, judging>>
  PROVE  IInv'
<1>1. PICK pc \in {"ASSEMBLE", "RESOLVED"} :
        /\ inquiry' = [NoInquiry EXCEPT !.pc = pc, !.of = res.of, !.reason = res.reason,
                                        !.rows = res.rows, !.hyp = hyp, !.looks = inquiry.looks]
        /\ pc = "RESOLVED" => res.of # NoRef
  BY DEF Begin
<1>2. res \in Result /\ Sound(res) BY DEF IInv, TypeOK, JudgingInv, ResultsSound
<1>3. /\ inquiry'.pc = pc /\ inquiry'.of = res.of /\ inquiry'.rows = res.rows
      /\ inquiry'.hyp = hyp /\ inquiry'.news = <<>> /\ inquiry'.obs = <<>>
      /\ inquiry' \in InquiryType
  <2>1. /\ res.of \in Expectations \union {NoRef} /\ res.reason \in Verdictum
        /\ res.rows \in Seq(Rows)
    BY <1>2 DEF Result, Verdictum
  <2>2. hyp \in Hypotheses \union {NoRef} /\ inquiry.looks \in Nat
    BY InquiryIs DEF IInv, InquiryType
  <2>3. <<>> \in Seq(Observation) /\ <<>> \in Seq(STRING) BY EmptySeq
  <2> QED BY <1>1, <2>1, <2>2, <2>3 DEF NoInquiry, InquiryType
<1>4. FromStored(inquiry'.rows) BY <1>2, <1>3 DEF Sound
<1>5. NewsIsItsOwn' BY <1>3 DEF NewsIsItsOwn
<1>6. hyp # NoRef => hyp.supporting \union hyp.contradicting \subseteq evidence
  BY DEF IInv, InquiryInv, VouchedBeforeQuery
<1> QED BY <1>1, <1>3, <1>4, <1>5, <1>6, InquiryMoves

LEMMA BeginningsKeep == ASSUME IInv, Inquire \/ Retry \/ Resume PROVE IInv'
<1>1. raised \subseteq saved BY DEF IInv, TypeOK
<1>2. CASE Inquire BY <1>1, <1>2, BeginKeeps DEF Inquire
<1>3. CASE Retry BY <1>3, BeginKeeps DEF Retry
<1>4. CASE Resume BY <1>1, <1>4, BeginKeeps DEF Resume
<1> QED BY <1>2, <1>3, <1>4

LEMMA AssembleKeeps == ASSUME IInv, Assemble PROVE IInv'
<1>1. /\ inquiry \in InquiryType /\ inquiry.pc = "ASSEMBLE" /\ FromStored(inquiry.rows)
      /\ inquiry' = [inquiry EXCEPT
           !.obs = ReadAll(inquiry.rows, stored),
           !.pc = IF inquiry.hyp = NoRef THEN "ASK" ELSE "VERIFY",
           !.todo = IF inquiry.hyp = NoRef THEN <<>> ELSE inquiry.hyp.intents]
      /\ UNCHANGED <<intake, judging>>
  BY InquiryIs DEF Assemble, IInv, InquiryInv, InquirySound
<1>2. PICK obs : obs = ReadAll(inquiry.rows, stored) OBVIOUS
<1>3. obs \in Seq(Observation)
  BY <1>1, <1>2, ReadType DEF IInv, InquiryType
<1>4. (IF inquiry.hyp = NoRef THEN <<>> ELSE inquiry.hyp.intents) \in Seq(STRING)
  BY <1>1, EmptySeq, ReconciliationAssumption DEF InquiryType
<1>5. /\ inquiry' \in InquiryType /\ inquiry'.hyp = inquiry.hyp /\ inquiry'.rows = inquiry.rows
      /\ inquiry'.of = inquiry.of /\ inquiry'.news = inquiry.news /\ inquiry'.obs = obs
      /\ inquiry'.pc \in {"ASK", "VERIFY"}
  BY <1>1, <1>2, <1>3, <1>4 DEF InquiryType
<1>6. NewsIsItsOwn' BY <1>5 DEF IInv, InquiryInv, NewsIsItsOwn
<1>7. ASSUME NEW j \in DOMAIN obs PROVE OnRecord(obs[j])
  <2>1. j \in DOMAIN inquiry.rows /\ obs[j] = Read(inquiry.rows[j], stored)
    BY <1>2 DEF ReadAll
  <2>2. obs[j].row = inquiry.rows[j] /\ obs[j].at = stored[inquiry.rows[j]].at
    BY <2>1 DEF Read
  <2>3. obs[j].at \in Nat
    <3>1. obs[j] \in Observation BY <1>3
    <3> QED BY <3>1 DEF Observation
  <2>4. stored[inquiry.rows[j]] # NoRow BY <1>1, <2>1 DEF FromStored
  <2> QED BY <2>2, <2>3, <2>4 DEF OnRecord
<1> QED BY <1>1, <1>5, <1>6, <1>7, InquiryMoves DEF IInv, InquiryInv, VouchedBeforeQuery

\* A hypothesis is kept only after the validator found its evidence on file.
LEMMA AskKeeps == ASSUME IInv, Ask PROVE IInv'
<1>1. PICK h \in Hypotheses :
        inquiry' =
          IF ~SchemaOk(h) THEN [inquiry EXCEPT !.pc = "RETRY"]
          ELSE IF ~Validated(h, Shown) THEN [inquiry EXCEPT !.pc = "ESCALATED"]
          ELSE [inquiry EXCEPT !.pc = "VERIFY", !.hyp = h, !.todo = h.intents]
  BY DEF Ask
<1>2. /\ inquiry \in InquiryType /\ inquiry.pc = "ASK" /\ FromStored(inquiry.rows)
      /\ UNCHANGED <<intake, judging>>
  BY InquiryIs DEF Ask, IInv, InquiryInv, InquirySound
<1>3. h.intents \in Seq(STRING) BY ReconciliationAssumption
<1>4. /\ inquiry' \in InquiryType /\ inquiry'.rows = inquiry.rows
      /\ inquiry'.of = inquiry.of /\ inquiry'.news = inquiry.news /\ inquiry'.obs = inquiry.obs
      /\ inquiry'.pc # "RESOLVED"
      /\ inquiry'.hyp = inquiry.hyp \/ (Validated(h, Shown) /\ inquiry'.hyp = h)
  BY <1>1, <1>2, <1>3 DEF InquiryType
<1>5. Validated(h, Shown) => h.supporting \union h.contradicting \subseteq evidence
  BY DEF Validated, ReferencesOk, Shown
<1>6. NewsIsItsOwn' BY <1>4 DEF IInv, InquiryInv, NewsIsItsOwn
<1>7. \A j \in DOMAIN inquiry'.obs : OnRecord(inquiry'.obs[j])
  BY <1>4 DEF IInv, InquiryInv, ObsOnRecord
<1> QED
  BY <1>2, <1>4, <1>5, <1>6, <1>7, InquiryMoves DEF IInv, InquiryInv, VouchedBeforeQuery

LEMMA CrashInquiryKeeps == ASSUME IInv, CrashInquiry PROVE IInv'
<1>1. /\ inquiry \in InquiryType
      /\ inquiry' = [NoInquiry EXCEPT !.pc = "CRASHED", !.of = inquiry.of,
                                      !.reason = inquiry.reason, !.hyp = inquiry.hyp,
                                      !.looks = inquiry.looks]
      /\ UNCHANGED <<intake, judging>>
  BY InquiryIs DEF CrashInquiry, IInv
<1>2. <<>> \in Seq(Observation) /\ <<>> \in Seq(STRING) /\ <<>> \in Seq(Rows) BY EmptySeq
<1>3. /\ inquiry' \in InquiryType /\ inquiry'.hyp = inquiry.hyp /\ inquiry'.rows = <<>>
      /\ inquiry'.news = <<>> /\ inquiry'.obs = <<>> /\ inquiry'.pc = "CRASHED"
  BY <1>1, <1>2 DEF InquiryType, NoInquiry
<1>4. NewsIsItsOwn' BY <1>3 DEF NewsIsItsOwn
<1>5. FromStored(inquiry'.rows) BY <1>3 DEF FromStored
<1> QED
  BY <1>1, <1>3, <1>4, <1>5, InquiryMoves DEF IInv, InquiryInv, VouchedBeforeQuery

\* What the provider answers are observations, and bear the receipt asked for.
LEMMA AnswerType ==
  ASSUME TypeOK, NEW e \in Expectations \union {NoRef}, NEW obs,
         NEW order \in Orders(AnswerRows(e, obs, truth))
  PROVE  LET news == [j \in DOMAIN order |->
               [row |-> order[j], status |-> truth[order[j]], at |-> Created[order[j]]]]
         IN  /\ news \in Seq(Observation)
             /\ \A j \in DOMAIN news : BearsReceipt(e, news[j])
<1> DEFINE A == AnswerRows(e, obs, truth)
<1>1. A \subseteq Rows /\ A \subseteq ApiRows /\ \A r \in A : truth[r] # "ABSENT"
  BY InvestigationAssumption DEF AnswerRows
<1>2. e # NoRef /\ Domain[e] = "REFUND" /\ Keys[e].internal # NoRef =>
        \A r \in A : Keys[r].internal = Keys[e].internal
  BY InvestigationAssumption DEF AnswerRows, QueryDomain
<1>3. order \in Seq(Rows) /\ \A j \in DOMAIN order : order[j] \in A
  BY <1>1, OrdersType
<1>4. \A r \in A : truth[r] \in CanonicalStatus /\ Created[r] \in Nat /\ r \in Rows
  BY <1>1, ReconciliationAssumption, ReobservationAssumption DEF TypeOK, Statuses
<1> HIDE DEF A
<1>5. \A j \in DOMAIN order :
        [row |-> order[j], status |-> truth[order[j]], at |-> Created[order[j]]] \in Observation
  BY <1>3, <1>4 DEF Observation
<1> QED BY <1>2, <1>3, <1>5 DEF BearsReceipt

\* What is added to news that bear the receipt has to bear it, too.
LEMMA NewsAdded ==
  ASSUME IInv, NEW news \in Seq(Observation),
         inquiry'.of = inquiry.of, inquiry'.news = inquiry.news \o news,
         \A j \in DOMAIN news : BearsReceipt(inquiry.of, news[j])
  PROVE  NewsIsItsOwn'
<1>1. PICK old : old = inquiry.news OBVIOUS
<1>2. old \in Seq(Observation) BY <1>1, InquiryIs DEF IInv, InquiryType
<1>3. \A k \in DOMAIN old : BearsReceipt(inquiry.of, old[k])
  BY <1>1 DEF IInv, InquiryInv, NewsIsItsOwn
<1>4. PICK all : all = old \o news OBVIOUS
<1>5. \A j \in DOMAIN all : BearsReceipt(inquiry.of, all[j])
  BY <1>2, <1>3, <1>4, ConcatEach
<1> QED BY <1>1, <1>4, <1>5 DEF NewsIsItsOwn, BearsReceipt

\* An answer, an outcome, or both are added to the investigation.
LEMMA AnsweredKeeps ==
  ASSUME IInv, inquiry.pc = "VERIFY", inquiry.todo # <<>>, UNCHANGED <<intake, judging>>,
         NEW news \in Seq(Observation), NEW outcome \in {"SUCCEEDED", "REJECTED", "FAILED"},
         inquiry' = [inquiry EXCEPT !.todo = Tail(@), !.news = @ \o news,
                       !.outcome = IF @ = "SUCCEEDED" THEN outcome ELSE @],
         \A j \in DOMAIN news : BearsReceipt(inquiry.of, news[j])
  PROVE  IInv'
<1>1. inquiry \in InquiryType BY InquiryIs DEF IInv
<1>2. PICK old : old = inquiry.news OBVIOUS
<1>3. old \o news \in Seq(Observation) /\ Tail(inquiry.todo) \in Seq(STRING)
  BY <1>1, <1>2, ConcatEach, HeadTailProperties DEF InquiryType
<1>4. /\ inquiry' \in InquiryType /\ inquiry'.rows = inquiry.rows /\ inquiry'.hyp = inquiry.hyp
      /\ inquiry'.of = inquiry.of /\ inquiry'.news = old \o news /\ inquiry'.pc = "VERIFY"
      /\ inquiry'.obs = inquiry.obs
  BY <1>1, <1>2, <1>3 DEF InquiryType
<1>5. NewsIsItsOwn' BY <1>2, <1>4, NewsAdded
<1>6. FromStored(inquiry'.rows) BY <1>4 DEF IInv, InquiryInv, InquirySound
<1>7. \A j \in DOMAIN inquiry'.obs : OnRecord(inquiry'.obs[j])
  BY <1>4 DEF IInv, InquiryInv, ObsOnRecord
<1> QED
  BY <1>4, <1>5, <1>6, <1>7, InquiryMoves DEF IInv, InquiryInv, VouchedBeforeQuery

LEMMA VerifyKeeps == ASSUME IInv, Verify PROVE IInv'
<1> DEFINE e == inquiry.of
           obs == inquiry.obs
           answered(news, outcome) ==
             inquiry' = [inquiry EXCEPT !.todo = Tail(@), !.news = @ \o news,
                           !.outcome = IF @ = "SUCCEEDED" THEN outcome ELSE @]
<1>1. /\ inquiry.pc = "VERIFY" /\ inquiry.todo # <<>> /\ UNCHANGED <<intake, judging>>
      /\ \/ answered(<<>>, "REJECTED")
         \/ \E order \in Orders(AnswerRows(e, obs, truth)) :
               answered([j \in DOMAIN order |->
                 [row |-> order[j], status |-> truth[order[j]], at |-> Created[order[j]]]],
                 "SUCCEEDED")
         \/ answered(<<>>, "FAILED")
  BY Zenon DEF Verify
<1>2. ASSUME NEW outcome \in {"REJECTED", "FAILED"}, answered(<<>>, outcome) PROVE IInv'
  <2>1. PICK news : news = <<>> OBVIOUS
  <2>2. news \in Seq(Observation) /\ DOMAIN news = {} BY <2>1, EmptySeq
  <2>3. answered(news, outcome) BY <1>2, <2>1
  <2> QED BY <1>1, <2>2, <2>3, AnsweredKeeps
<1>3. ASSUME NEW order \in Orders(AnswerRows(e, obs, truth)),
             answered([j \in DOMAIN order |->
               [row |-> order[j], status |-> truth[order[j]], at |-> Created[order[j]]]],
               "SUCCEEDED")
      PROVE  IInv'
  <2>1. PICK news : news = [j \in DOMAIN order |->
               [row |-> order[j], status |-> truth[order[j]], at |-> Created[order[j]]]]
    OBVIOUS
  <2>2. e \in Expectations \union {NoRef} BY InquiryIs DEF IInv, InquiryType
  <2>3. news \in Seq(Observation) /\ \A j \in DOMAIN news : BearsReceipt(e, news[j])
    BY <2>1, <2>2, AnswerType DEF IInv
  <2>4. answered(news, "SUCCEEDED") BY <1>3, <2>1
  <2> QED BY <1>1, <2>3, <2>4, AnsweredKeeps
<1> QED BY <1>1, <1>2, <1>3

\* What the observer makes of a record is an observation, and none of the API.
LEMMA ReadsType ==
  ASSUME TypeOK, NEW kind \in {"ORDER", "PAYMENT", "REFUND"}, NEW ref, NEW at \in Nat,
         NEW read \in Reads(kind, ref, truth, at)
  PROVE  /\ read \in Seq(Observation)
         /\ \A e, j : j \in DOMAIN read => BearsReceipt(e, read[j])
<1>1. CASE read = <<>> BY <1>1, EmptySeq
<1>2. CASE read # <<>>
  <2>1. PICK r \in Records :
          /\ truth[r] # "ABSENT"
          /\ read = <<[row |-> SeenAs[r], status |-> SeenStatus(kind, truth[r]), at |-> at]>>
    BY <1>2, Zenon DEF Reads
  <2>2. truth[r] \in CanonicalStatus BY <2>1 DEF TypeOK, Statuses
  <2>3. SeenStatus(kind, truth[r]) \in CanonicalStatus
    BY <2>2 DEF SeenStatus, CanonicalStatus
  <2>4. SeenAs[r] \in Rows /\ SeenAs[r] \notin ApiRows BY ReobservationAssumption
  <2>5. PICK o : o = [row |-> SeenAs[r], status |-> SeenStatus(kind, truth[r]), at |-> at]
    OBVIOUS
  <2>6. o \in Observation /\ o.row \notin ApiRows BY <2>3, <2>4, <2>5 DEF Observation
  <2>7. read = <<o>> BY <2>1, <2>5
  <2>8. DOMAIN read = {1} /\ read[1] = o /\ read \in Seq(Observation) BY <2>6, <2>7
  <2> QED BY <2>6, <2>8 DEF BearsReceipt
<1> QED BY <1>1, <1>2

LEMMA ReobserveKeeps == ASSUME IInv, Reobserve PROVE IInv'
<1>1. PICK o : o = Head(inquiry.again) OBVIOUS
<1>2. /\ inquiry \in InquiryType /\ inquiry.pc = "REOBSERVE" /\ inquiry.again # <<>>
      /\ UNCHANGED <<intake, judging>>
  BY InquiryIs DEF Reobserve, IInv
<1>3. PICK news :
        /\ inquiry' = [inquiry EXCEPT !.again = Tail(@), !.news = @ \o news, !.looks = @ + 1]
        /\ \/ news = <<>>
           \/ news \in Reads(Kind(o.row), Reference[o.row], truth, Now + inquiry.looks)
  BY <1>1, Zenon DEF Reobserve
<1>4. Now + inquiry.looks \in Nat /\ Kind(o.row) \in {"ORDER", "PAYMENT", "REFUND"}
  BY <1>2, ReconciliationAssumption DEF InquiryType, Kind
<1>5. news \in Seq(Observation) /\ \A j \in DOMAIN news : BearsReceipt(inquiry.of, news[j])
  <2>1. CASE news = <<>> BY <2>1, EmptySeq
  <2>2. CASE news # <<>> BY <1>3, <1>4, <2>2, ReadsType DEF IInv
  <2> QED BY <2>1, <2>2
<1>6. inquiry.news \o news \in Seq(Observation) /\ Tail(inquiry.again) \in Seq(Observation)
  BY <1>2, <1>5, ConcatEach, HeadTailProperties DEF InquiryType
<1>7. /\ inquiry' \in InquiryType /\ inquiry'.rows = inquiry.rows /\ inquiry'.hyp = inquiry.hyp
      /\ inquiry'.of = inquiry.of /\ inquiry'.news = inquiry.news \o news
      /\ inquiry'.pc = "REOBSERVE" /\ inquiry'.obs = inquiry.obs
  <2>1. PICK all, rest, looks :
          all = inquiry.news \o news /\ rest = Tail(inquiry.again) /\ looks = inquiry.looks + 1
    OBVIOUS
  <2>2. all \in Seq(Observation) /\ rest \in Seq(Observation) /\ looks \in Nat
    BY <1>2, <1>6, <2>1 DEF InquiryType
  <2>3. inquiry' = [inquiry EXCEPT !.again = rest, !.news = all, !.looks = looks]
    BY <1>3, <2>1
  <2>4. /\ inquiry' \in InquiryType /\ inquiry'.rows = inquiry.rows
        /\ inquiry'.hyp = inquiry.hyp /\ inquiry'.of = inquiry.of /\ inquiry'.news = all
        /\ inquiry'.pc = inquiry.pc /\ inquiry'.obs = inquiry.obs
    BY <1>2, <2>2, <2>3 DEF InquiryType
  <2> QED BY <1>2, <2>1, <2>4
<1>8. NewsIsItsOwn' BY <1>5, <1>7, NewsAdded
<1>9. FromStored(inquiry'.rows) BY <1>7 DEF IInv, InquiryInv, InquirySound
<1>10. \A j \in DOMAIN inquiry'.obs : OnRecord(inquiry'.obs[j])
  BY <1>7 DEF IInv, InquiryInv, ObsOnRecord
<1> QED
  BY <1>2, <1>7, <1>8, <1>9, <1>10, InquiryMoves DEF IInv, InquiryInv, VouchedBeforeQuery

\* A step of the investigation that stores what it learned, and may announce
\* the event without a row; what resolves is stored in the same step.
LEMMA CommitKeeps ==
  ASSUME IInv, UNCHANGED <<book, late, truth, judging>>, NEW news \in Seq(Observation),
         unannounced' \in {unannounced, unannounced \union {All}},
         Commit(news) \/ UNCHANGED <<stored, evidence, known>>,
         inquiry' \in InquiryType, inquiry'.rows = inquiry.rows, inquiry'.hyp = inquiry.hyp,
         inquiry'.of = inquiry.of, inquiry'.obs = inquiry.obs, NewsIsItsOwn',
         inquiry'.pc = "RESOLVED" =>
           Commit(news) /\ inquiry'.news = news /\ Matches(inquiry.obs \o news)
  PROVE  IInv'
<1>1. /\ stored' \in [Rows -> RowValue \union {NoRow}]
      /\ known' \in [Rows -> SUBSET book'] /\ Kept
      /\ evidence \subseteq evidence' /\ evidence' \subseteq Rows \X CanonicalStatus
  <2>1. CASE Commit(news)
    <3>1. \A j \in DOMAIN news : EvidenceOf(news[j]) \in Rows \X CanonicalStatus
      BY EvidenceType
    <3> QED BY <2>1, <3>1, StoringKeeps DEF Commit, IInv, TypeOK
  <2>2. CASE UNCHANGED <<stored, evidence, known>>
    BY <2>2 DEF IInv, TypeOK, Kept, RowValue
  <2> QED BY <2>1, <2>2
<1>2. TypeOK' BY <1>1 DEF IInv, TypeOK, judging, RowValue, Events, InquiryType
<1>3. All \notin Rows BY ReconciliationAssumption
<1>4. JudgingInv' BY <1>1, <1>3, JudgingFrame DEF IInv, judging
<1>5. inquiry.rows \in Seq(Rows) /\ inquiry.obs \in Seq(Observation)
  BY InquiryIs DEF IInv, InquiryType
<1>6. InquirySound'
  <2>1. \A j \in DOMAIN inquiry.rows : inquiry.rows[j] \in Rows BY <1>5
  <2>2. \A j \in DOMAIN inquiry.rows : stored[inquiry.rows[j]] # NoRow
    BY DEF IInv, InquiryInv, InquirySound, FromStored
  <2>3. \A j \in DOMAIN inquiry.rows : stored'[inquiry.rows[j]] # NoRow
    BY <1>1, <2>1, <2>2 DEF Kept
  <2>4. inquiry'.rows = inquiry.rows OBVIOUS
  <2> QED BY <2>3, <2>4 DEF InquirySound, FromStored
<1>7. VouchedBeforeQuery' BY <1>1 DEF IInv, InquiryInv, VouchedBeforeQuery
<1>8. InquiryTypes' BY DEF InquiryTypes, InquiryType
<1>9. \A j \in DOMAIN inquiry.obs :
        stored'[inquiry.obs[j].row] # NoRow /\ inquiry.obs[j].at <= stored'[inquiry.obs[j].row].at
  <2>1. \A j \in DOMAIN inquiry.obs : inquiry.obs[j] \in Observation BY <1>5
  <2>2. \A j \in DOMAIN inquiry.obs : OnRecord(inquiry.obs[j])'
    BY <1>1, <1>2, <2>1, RecordStays DEF IInv, InquiryInv, ObsOnRecord
  <2> QED BY <2>2 DEF OnRecord
<1>10. ObsOnRecord' BY <1>9 DEF ObsOnRecord, OnRecord
<1>11. ResolvedHasASubject' BY DEF ResolvedHasASubject, Matches
<1>12. PICK all : all = inquiry.obs \o news OBVIOUS
<1>13. SettledByItsOwnRefund'
  <2> SUFFICES ASSUME inquiry'.pc = "RESOLVED", Domain[inquiry.of] = "REFUND",
                      Keys[inquiry.of].internal # NoRef,
                      NEW k \in DOMAIN news, news[k].row \in ApiRows,
                      NEW j \in DOMAIN all
               PROVE  ExecutionId(all[j].row) = Keys[inquiry.of].internal
    <3>1. inquiry'.pc = "RESOLVED" => Counted' = all BY <1>12 DEF Counted
    <3> QED BY <3>1 DEF SettledByItsOwnRefund, OfItsReceipt
  <2>1. inquiry.of # NoRef /\ Verdict(inquiry.of, all, inquiry.of \in late) = "MATCH"
    BY <1>12 DEF Matches
  <2>2. PICK i \in DOMAIN all : all[i] = news[k] BY <1>5, <1>12, ConcatEach
  <2>3. all \in Seq(Observation) BY <1>5, <1>12, ConcatEach
  <2>4. Keys[news[k].row].internal = Keys[inquiry.of].internal
    BY <2>1 DEF NewsIsItsOwn, BearsReceipt
  <2>5. ExecutionId(news[k].row) = Keys[inquiry.of].internal BY <2>4 DEF ExecutionId
  <2>6. ExecutionId(all[j].row) = ExecutionId(all[i].row)
    BY <2>1, <2>3, MatchIsOneExecution
  <2> QED BY <2>2, <2>5, <2>6
<1>14. ResolvedIsOnRecord'
  <2> SUFFICES ASSUME inquiry'.pc = "RESOLVED"
               PROVE  /\ \A j \in DOMAIN all :
                           stored'[all[j].row] # NoRow /\ all[j].at <= stored'[all[j].row].at
                      /\ \A j \in DOMAIN news :
                           news[j].row \in ApiRows => EvidenceOf(news[j]) \in evidence'
    <3>1. inquiry'.pc = "RESOLVED" => Counted' = all BY <1>12 DEF Counted
    <3> QED BY <3>1 DEF ResolvedIsOnRecord
  <2>1. stored \in [Rows -> RowValue \union {NoRow}] BY DEF IInv, TypeOK, RowValue
  <2>2. stored' = UpsertAll(news, stored) BY DEF Commit
  <2>3. \A j \in DOMAIN news :
          stored'[news[j].row] # NoRow /\ news[j].at <= stored'[news[j].row].at
    BY <2>1, <2>2, UpsertCovers
  <2>4. \A j \in DOMAIN news : news[j].row \in ApiRows => EvidenceOf(news[j]) \in evidence'
    BY DEF Commit
  <2>5. ASSUME NEW j \in DOMAIN all
        PROVE  stored'[all[j].row] # NoRow /\ all[j].at <= stored'[all[j].row].at
    <3>1. \/ \E k \in DOMAIN inquiry.obs : all[j] = inquiry.obs[k]
          \/ \E k \in DOMAIN news : all[j] = news[k]
      BY <1>5, <1>12, ConcatEach
    <3> QED BY <3>1, <1>9, <2>3
  <2> QED BY <2>4, <2>5
<1> QED
  BY <1>2, <1>4, <1>6, <1>7, <1>8, <1>10, <1>11, <1>13, <1>14 DEF IInv, InquiryInv

\* Both comparisons of an investigation.
LEMMA DecideKeeps ==
  ASSUME IInv, NEW otherwise \in {"REOBSERVE", "ESCALATED"}, Decide(otherwise),
         UNCHANGED <<book, late, truth, unannounced, judging>>
  PROVE  IInv'
<1>1. PICK news : news = inquiry.news OBVIOUS
<1>2. inquiry \in InquiryType /\ news \in Seq(Observation) /\ Counted \in Seq(Observation)
  BY <1>1, InquiryIs, ConcatEach DEF IInv, InquiryType, Counted
<1>3. PICK pc \in {"RESOLVED", "DECIDED", "REOBSERVE", "ESCALATED"} :
        /\ inquiry' = [inquiry EXCEPT !.pc = pc,
                         !.again = IF pc = "REOBSERVE" THEN Counted ELSE <<>>]
        /\ IF pc = "REOBSERVE" THEN UNCHANGED <<stored, evidence, known>> ELSE Commit(news)
        /\ pc = "RESOLVED" => Matches(Counted)
  BY <1>1, Zenon DEF Decide
<1>4. (IF pc = "REOBSERVE" THEN Counted ELSE <<>>) \in Seq(Observation) BY <1>2, EmptySeq
<1>5. /\ inquiry' \in InquiryType /\ inquiry'.rows = inquiry.rows /\ inquiry'.hyp = inquiry.hyp
      /\ inquiry'.of = inquiry.of /\ inquiry'.news = news /\ inquiry'.obs = inquiry.obs
      /\ inquiry'.pc = pc
  BY <1>1, <1>2, <1>3, <1>4 DEF InquiryType
<1>6. NewsIsItsOwn' BY <1>1, <1>5 DEF IInv, InquiryInv, NewsIsItsOwn
<1>7. pc = "RESOLVED" => Commit(news) /\ Matches(inquiry.obs \o news)
  BY <1>1, <1>3 DEF Counted
<1>8. Commit(news) \/ UNCHANGED <<stored, evidence, known>> BY <1>3
<1> QED BY <1>2, <1>5, <1>6, <1>7, <1>8, CommitKeeps

LEMMA ConcludeKeeps == ASSUME IInv, Conclude PROVE IInv'
<1>1. UNCHANGED <<book, late, truth, unannounced, judging>> BY DEF Conclude
<1>2. CASE inquiry.outcome = "SUCCEEDED" BY <1>1, <1>2, DecideKeeps DEF Conclude
<1>3. CASE inquiry.outcome # "SUCCEEDED"
  <2>1. PICK pc \in {"RETRY", "ESCALATED"} : inquiry' = [inquiry EXCEPT !.pc = pc]
    BY <1>3 DEF Conclude
  <2>2. UNCHANGED <<stored, evidence, known>> BY <1>3 DEF Conclude
  <2>3. inquiry \in InquiryType BY InquiryIs DEF IInv
  <2>4. /\ inquiry' \in InquiryType /\ inquiry'.rows = inquiry.rows /\ inquiry'.hyp = inquiry.hyp
        /\ inquiry'.of = inquiry.of /\ inquiry'.news = inquiry.news /\ inquiry'.obs = inquiry.obs
        /\ inquiry'.pc # "RESOLVED"
    BY <2>1, <2>3 DEF InquiryType
  <2>5. NewsIsItsOwn' BY <2>4 DEF IInv, InquiryInv, NewsIsItsOwn
  <2>6. inquiry.news \in Seq(Observation) BY <2>3 DEF InquiryType
  <2> QED BY <1>1, <2>2, <2>4, <2>5, <2>6, CommitKeeps
<1> QED BY <1>2, <1>3

LEMMA ReconsiderKeeps == ASSUME IInv, Reconsider PROVE IInv'
BY DecideKeeps DEF Reconsider

LEMMA ConvergeKeeps == ASSUME IInv, Converge PROVE IInv'
<1>1. UNCHANGED <<book, late, truth, judging>> /\ inquiry \in InquiryType
  BY InquiryIs DEF Converge, IInv
<1>2. CASE inquiry' = [inquiry EXCEPT !.pc = "ESCALATED"]
           /\ UNCHANGED <<stored, evidence, known, unannounced>>
  <2>1. /\ inquiry' \in InquiryType /\ inquiry'.rows = inquiry.rows /\ inquiry'.hyp = inquiry.hyp
        /\ inquiry'.of = inquiry.of /\ inquiry'.news = inquiry.news /\ inquiry'.obs = inquiry.obs
        /\ inquiry'.pc # "RESOLVED"
    BY <1>1, <1>2 DEF InquiryType
  <2>2. NewsIsItsOwn' BY <2>1 DEF IInv, InquiryInv, NewsIsItsOwn
  <2>3. inquiry.news \in Seq(Observation) BY <1>1 DEF InquiryType
  <2> QED BY <1>1, <1>2, <2>1, <2>2, <2>3, CommitKeeps
<1>3. ASSUME NEW kind \in {"ORDER", "PAYMENT"}, NEW ref,
             NEW read \in Reads(kind, ref, truth, Now + inquiry.looks),
             LET news == inquiry.news \o read
                 resolved == Matches(inquiry.obs \o news)
             IN  /\ inquiry' = [inquiry EXCEPT !.news = news, !.looks = @ + 1,
                                  !.pc = IF resolved THEN "RESOLVED" ELSE "ESCALATED"]
                 /\ unannounced' = IF resolved /\ news # <<>> THEN unannounced \union {All}
                                   ELSE unannounced
                 /\ IF resolved THEN Commit(news) ELSE UNCHANGED <<stored, evidence, known>>
      PROVE  IInv'
  <2>1. Now + inquiry.looks \in Nat BY <1>1, ReconciliationAssumption DEF InquiryType
  <2>2. read \in Seq(Observation) /\ \A j \in DOMAIN read : BearsReceipt(inquiry.of, read[j])
    BY <1>3, <2>1, ReadsType DEF IInv
  <2>3. PICK news : news = inquiry.news \o read OBVIOUS
  <2>4. news \in Seq(Observation) BY <1>1, <2>2, <2>3, ConcatEach DEF InquiryType
  <2>5. PICK pc \in {"RESOLVED", "ESCALATED"} :
          /\ inquiry' = [inquiry EXCEPT !.news = news, !.looks = @ + 1, !.pc = pc]
          /\ pc = "RESOLVED" => Commit(news) /\ Matches(inquiry.obs \o news)
    BY <1>3, <2>3
  <2>6. /\ unannounced' \in {unannounced, unannounced \union {All}}
        /\ Commit(news) \/ UNCHANGED <<stored, evidence, known>>
    BY <1>3, <2>3
  <2>7. /\ inquiry' \in InquiryType /\ inquiry'.rows = inquiry.rows /\ inquiry'.hyp = inquiry.hyp
        /\ inquiry'.of = inquiry.of /\ inquiry'.news = news /\ inquiry'.obs = inquiry.obs
        /\ inquiry'.pc = pc
    <3>1. PICK looks \in Nat : looks = inquiry.looks + 1 BY <1>1 DEF InquiryType
    <3>2. inquiry' = [inquiry EXCEPT !.news = news, !.looks = looks, !.pc = pc] BY <2>5, <3>1
    <3> QED BY <1>1, <2>4, <3>2 DEF InquiryType
  <2>8. NewsIsItsOwn' BY <2>2, <2>3, <2>7, NewsAdded
  <2> QED BY <1>1, <2>4, <2>5, <2>6, <2>7, <2>8, CommitKeeps
<1> QED BY <1>2, <1>3, Zenon DEF Converge

-----------------------------------------------------------------------------
(* The theorems.                                                           *)

LEMMA InitIInv == Init => IInv
<1> SUFFICES ASSUME Init PROVE IInv OBVIOUS
<1>1. <<>> \in Seq(Observation) /\ <<>> \in Seq(STRING) /\ <<>> \in Seq(Rows) BY EmptySeq
<1>2. TypeOK
  BY <1>1, IdleType, ReconciliationAssumption DEF Init, TypeOK, NoInquiry, WorkerType, Events
<1>3. JudgingInv
  <2>1. \A w \in Workers : worker[w] = Idle BY DEF Init
  <2>2. NoRef \notin Events BY ControlsAssumption, ReconciliationAssumption DEF Events
  <2>3. AnnouncedIsStored BY ReconciliationAssumption DEF Init, AnnouncedIsStored, Events
  <2>4. ClaimedWasAnnounced BY <2>1, <2>2, IdleType DEF ClaimedWasAnnounced
  <2>5. ResultsSound BY <2>1, IdleType DEF Init, ResultsSound
  <2>6. WorkersShaped BY <2>1, IdleType DEF WorkersShaped, Shape
  <2>7. NothingDropped BY <2>1, IdleType DEF NothingDropped
  <2>8. ProcessedIsFiled BY DEF Init, ProcessedIsFiled, Events
  <2> QED BY <2>3, <2>4, <2>5, <2>6, <2>7, <2>8 DEF JudgingInv
<1>4. InquiryInv
  BY <1>1 DEF Init, NoInquiry, InquiryInv, InquiryTypes, InquirySound, FromStored,
     VouchedBeforeQuery, NewsIsItsOwn, ObsOnRecord, ResolvedHasASubject, SettledByItsOwnRefund,
     ResolvedIsOnRecord, InquiryType, Verdictum
<1> QED BY <1>2, <1>3, <1>4 DEF IInv

LEMMA NextIInv == ASSUME IInv, [Next]_vars PROVE IInv'
<1>1. ASSUME NEW w \in Workers, Work(w) \/ Fail(w) \/ Crash(w) PROVE IInv'
  <2>1. TypeOK' /\ JudgingInv' BY <1>1, WorkKeeps DEF IInv
  <2>2. Kept /\ UNCHANGED <<inquiry, evidence>> BY <1>1, WorkFrame DEF Kept, intake
  <2>3. InquiryInv' BY <2>1, <2>2, InquiryFrame DEF IInv
  <2> QED BY <2>1, <2>3 DEF IInv
<1>2. CASE Arrive BY <1>2, OpenKeeps, ProviderKeeps, ObserveKeeps, EventKeeps DEF Arrive
<1>3. CASE Investigate
  BY <1>3, BeginningsKeep, AssembleKeeps, AskKeeps, VerifyKeeps, ConcludeKeeps, ReobserveKeeps,
     ReconsiderKeeps, ConvergeKeeps
     DEF Investigate
<1>4. CASE CrashInquiry BY <1>4, CrashInquiryKeeps
<1>5. CASE UNCHANGED vars
  <2>1. Kept BY <1>5 DEF Kept, vars
  <2>2. TypeOK' BY <1>5 DEF IInv, TypeOK, vars
  <2>3. JudgingInv' BY <2>1, <1>5, JudgingFrame DEF IInv, vars
  <2>4. InquiryInv' BY <2>1, <2>2, <1>5, InquiryFrame DEF IInv, vars
  <2> QED BY <2>2, <2>3, <2>4 DEF IInv
<1> QED BY <1>1, <1>2, <1>3, <1>4, <1>5 DEF Next

\* The inductive invariant holds in every state of the pipeline.
THEOREM PipelineInvariant == Spec => []IInv
BY InitIInv, NextIInv, PTL DEF Spec

\* Everything has its type: no answer, upsert or verdict leaves its vocabulary.
THEOREM PipelineTypes == Spec => []TypeOK
<1>1. IInv => TypeOK BY DEF IInv
<1> QED BY <1>1, PipelineInvariant, PTL

\* An event that is marked PROCESSED was judged against each expectation that was
\* open when its row was inserted, and what was found is filed and raised,
\* whatever crashed, failed or was claimed twice.
THEOREM ProcessedEventsWereJudged == Spec => []ProcessedMeansJudged
<1>1. IInv => ProcessedMeansJudged
  BY DEF IInv, JudgingInv, ProcessedIsFiled, Filed, Counts, ProcessedMeansJudged
<1> QED BY <1>1, PipelineInvariant, PTL

\* The event path never alarms about a row that an open expectation shares a key with.
THEOREM NoFalseDirectAlarm == Spec => []DirectAlarmsAreTrue
<1>1. IInv => DirectAlarmsAreTrue
  BY DEF IInv, JudgingInv, ResultsSound, Sound, TrueAlarm, DirectAlarmsAreTrue
<1> QED BY <1>1, PipelineInvariant, PTL

\* A hypothesis that leads to a query names only evidence on file.
THEOREM HypothesesAreVouchedFor == Spec => []VouchedBeforeQuery
<1>1. IInv => VouchedBeforeQuery BY DEF IInv, InquiryInv
<1> QED BY <1>1, PipelineInvariant, PTL

\* A refund expectation whose receipt the query found refunds of is settled on that
\* receipt alone.
THEOREM SettledByOwnRefund == Spec => []SettledByItsOwnRefund
<1>1. IInv => SettledByItsOwnRefund BY DEF IInv, InquiryInv
<1> QED BY <1>1, PipelineInvariant, PTL

\* Whatever an investigation settles an incident on is stored, and the evidence of
\* what it queried as well, however it came to settle it and whatever was saved since.
THEOREM ResolutionsAreOnRecord == Spec => []ResolvedIsOnRecord
<1>1. IInv => ResolvedIsOnRecord BY DEF IInv, InquiryInv
<1> QED BY <1>1, PipelineInvariant, PTL

\* The result of a comparison does not depend on the order of the rows, and is
\* what their set calls for, whatever has been stored.
THEOREM VerdictsAreJudgements == Spec => []VerdictMeetsReference
<1>1. ASSUME TypeOK PROVE VerdictMeetsReference
  <2> SUFFICES ASSUME NEW e \in Expectations, ~Tied(Candidates(e, stored), stored)
               PROVE  Verdicts(e, stored, e \in late) =
                        {Judgement(e, {Read(r, stored) : r \in Candidates(e, stored)}, e \in late)}
    BY Zenon DEF VerdictMeetsReference
  <2> DEFINE S == Candidates(e, stored)
             J == Judgement(e, {Read(r, stored) : r \in S}, e \in late)
  <2>1. S \in SUBSET Rows /\ \A r \in S : stored[r] # NoRow
    BY DEF Candidates, Stored
  <2>2. IsFiniteSet(S)
    BY <2>1, FS_Subset, ReconciliationAssumption
  <2>3. \A r \in S : stored[r].at \in Nat
    BY <1>1, <2>1 DEF TypeOK
  <2> HIDE DEF S, J
  <2>4. \A s \in Orders(S) : Verdict(e, ReadAll(s, stored), e \in late) = J
    BY <2>2, <2>3, VerdictIsJudgement DEF S, J
  <2>5. Orders(S) # {}
    BY <2>2, OrdersExist
  <2>6. Verdicts(e, stored, e \in late) = {Verdict(e, ReadAll(s, stored), e \in late) : s \in Orders(S)}
    BY DEF Verdicts, S
  <2>7. Verdicts(e, stored, e \in late) = {J}
    BY <2>4, <2>5, <2>6
  <2> QED
    BY <2>7 DEF J, S
<1> QED BY <1>1, PipelineTypes, PTL
=============================================================================
