-------------------- MODULE ReconciliationControlsProofs --------------------
(***************************************************************************)
(* evaluate_expectation_centric on any number of rows: whatever order the  *)
(* database returns them in, it says what their set calls for.             *)
(***************************************************************************)
EXTENDS ReconciliationControls, Induction, SequenceTheorems

\* A finite set can be listed.
LEMMA OrdersExist == ASSUME NEW S, IsFiniteSet(S) PROVE Orders(S) # {}
<1>1. PICK s \in [1 .. Cardinality(S) -> S] : \A r \in S : \E j \in 1 .. Cardinality(S) : s[j] = r
  BY FS_CardinalityType DEF ExistsBijection, Bijection, Surjection
<1>2. s \in Orders(S)
  BY <1>1 DEF Orders
<1> QED
  BY <1>2

\* What a listing of stored rows reads as.
LEMMA ReadsAs ==
  ASSUME NEW S, IsFiniteSet(S), NEW stored, \A r \in S : stored[r].at \in Nat,
         NEW s \in Orders(S)
  PROVE  LET obs == ReadAll(s, stored) IN
         /\ Cardinality(S) \in Nat
         /\ DOMAIN obs = 1 .. Cardinality(S)
         /\ \A j \in DOMAIN obs : /\ s[j] \in S /\ obs[j] = Read(s[j], stored)
                                  /\ obs[j].row = s[j] /\ obs[j].at = stored[s[j]].at
                                  /\ obs[j].status = stored[s[j]].status
                                  /\ obs[j].at \in Nat
         /\ \A r \in S : \E j \in DOMAIN obs : s[j] = r
         /\ obs = <<>> <=> S = {}
<1> DEFINE obs == ReadAll(s, stored)
<1>1. Cardinality(S) \in Nat
  BY FS_CardinalityType
<1>2. s \in [1 .. Cardinality(S) -> S] /\ \A r \in S : \E j \in 1 .. Cardinality(S) : s[j] = r
  BY DEF Orders
<1>3. obs = [j \in 1 .. Cardinality(S) |-> Read(s[j], stored)]
  BY <1>2 DEF ReadAll
<1>4. \A j \in DOMAIN obs : /\ s[j] \in S /\ obs[j] = Read(s[j], stored)
                            /\ obs[j].row = s[j] /\ obs[j].at = stored[s[j]].at
                            /\ obs[j].status = stored[s[j]].status
                            /\ obs[j].at \in Nat
  BY <1>2, <1>3 DEF Read
<1>5. obs = <<>> <=> S = {}
  <2>1. obs \in Seq({obs[j] : j \in DOMAIN obs}) /\ Len(obs) = Cardinality(S)
    BY <1>1, <1>3
  <2>2. obs = <<>> <=> Cardinality(S) = 0
    BY <2>1, EmptySeq
  <2> QED
    BY <2>2, FS_EmptySet
<1> QED
  BY <1>1, <1>2, <1>3, <1>4, <1>5

\* group_by_execution finds more than one execution just when two of the rows
\* have different ids.
LEMMA ExecutionsDiffer ==
  ASSUME NEW S, IsFiniteSet(S), S # {}, NEW stored, \A r \in S : stored[r].at \in Nat,
         NEW s \in Orders(S)
  PROVE  Cardinality(Executions(ReadAll(s, stored))) > 1
           <=> \E q, r \in S : ExecutionId(q) # ExecutionId(r)
<1> DEFINE X == {ExecutionId(r) : r \in S}
           f == [r \in S |-> ExecutionId(r)]
<1>1. Executions(ReadAll(s, stored)) = X
  BY ReadsAs DEF Executions
<1>2. f \in Surjection(S, X)
  BY DEF Surjection
<1>3. IsFiniteSet(X)
  BY <1>2, FS_Surjection
<1>4. Cardinality(X) \in Nat
  BY <1>3, FS_CardinalityType
<1>5. Cardinality(X) # 0
  BY <1>3, FS_EmptySet
<1>6. Cardinality(X) = 1 <=> \E x : X = {x}
  BY <1>3, FS_Singleton
<1>7. (\E x : X = {x}) <=> \A q, r \in S : ExecutionId(q) = ExecutionId(r)
  <2>1. ASSUME \A q, r \in S : ExecutionId(q) = ExecutionId(r) PROVE \E x : X = {x}
    <3>1. PICK r \in S : TRUE
      OBVIOUS
    <3>2. X = {ExecutionId(r)}
      BY <2>1
    <3> QED
      BY <3>2
  <2> QED
    BY <2>1
<1>8. Cardinality(X) > 1 <=> Cardinality(X) # 1
  BY <1>4, <1>5
<1>9. Cardinality(X) # 1 <=> \E q, r \in S : ExecutionId(q) # ExecutionId(r)
  BY <1>6, <1>7
<1> HIDE DEF X
<1> QED
  BY <1>1, <1>8, <1>9

\* get_latest_observation: no row is newer than the one it takes.
LEMMA LatestIsNewest ==
  ASSUME NEW S, IsFiniteSet(S), S # {}, NEW stored, \A r \in S : stored[r].at \in Nat,
         NEW s \in Orders(S)
  PROVE  \E q \in S : /\ Latest(ReadAll(s, stored)) = Read(q, stored)
                      /\ \A r \in S : stored[r].at <= stored[q].at
<1> DEFINE obs == ReadAll(s, stored)
           K == DOMAIN obs
           Top(j) == \A k \in K : obs[k].at < obs[j].at \/ (obs[k].at = obs[j].at /\ k <= j)
           R == {p \in K \X K : obs[p[1]].at < obs[p[2]].at
                                  \/ (obs[p[1]].at = obs[p[2]].at /\ p[1] < p[2])}
<1>1. /\ Cardinality(S) \in Nat /\ K = 1 .. Cardinality(S)
      /\ \A j \in K : /\ s[j] \in S /\ obs[j] = Read(s[j], stored)
                      /\ obs[j].at = stored[s[j]].at /\ obs[j].at \in Nat
      /\ \A r \in S : \E j \in K : s[j] = r
  BY ReadsAs
<1> HIDE DEF obs
<1>2. IsFiniteSet(K) /\ K # {} /\ K \subseteq Nat
  <2>1. IsFiniteSet(K)
    BY <1>1, FS_Interval
  <2> QED
    BY <1>1, <2>1
<1>3. \E j \in K : Top(j)
  <2>1. \A a, b \in K : a = b \/ <<a, b>> \in R \/ <<b, a>> \in R
    BY <1>1, <1>2
  <2>2. \A a, b, c \in K : <<a, b>> \in R /\ <<b, c>> \in R => <<a, c>> \in R
    BY <1>1, <1>2
  <2>3. PICK j \in K : \A k \in K : k = j \/ <<k, j>> \in R
    <3> HIDE DEF R, K
    <3> QED
      BY <1>2, <2>1, <2>2, GreatestExists
  <2>4. ASSUME NEW k \in K, <<k, j>> \in R
        PROVE  obs[k].at < obs[j].at \/ (obs[k].at = obs[j].at /\ k <= j)
    BY <1>2, <2>4
  <2>5. obs[j].at = obs[j].at /\ j <= j
    BY <1>2
  <2>6. Top(j)
    BY <2>3, <2>4, <2>5
  <2> QED
    BY <2>6
<1>4. PICK j \in K : Top(j) /\ Latest(obs) = obs[j]
  <2> DEFINE j == CHOOSE j \in K : Top(j)
  <2>1. j \in K /\ Top(j)
    BY <1>3
  <2>2. Latest(obs) = obs[j]
    BY DEF Latest
  <2> QED
    BY <2>1, <2>2
<1>5. \A r \in S : stored[r].at <= stored[s[j]].at
  BY <1>1, <1>4
<1> QED
  BY <1>1, <1>4, <1>5 DEF obs

\* provider_latest: no row of the provider is newer than the one it keeps.
LEMMA LatestOfIsNewest ==
  ASSUME NEW S, IsFiniteSet(S), NEW stored, \A r \in S : stored[r].at \in Nat,
         NEW s \in Orders(S), NEW p, \E r \in S : Provider[r] = p
  PROVE  \E q \in S : /\ LatestOf(p, ReadAll(s, stored)) = Read(q, stored)
                      /\ Provider[q] = p
                      /\ \A r \in S : Provider[r] = p => stored[r].at <= stored[q].at
<1> DEFINE obs == ReadAll(s, stored)
           K == {j \in DOMAIN obs : Provider[obs[j].row] = p}
           Top(j) == Provider[obs[j].row] = p /\
             \A k \in DOMAIN obs : Provider[obs[k].row] = p =>
               obs[k].at < obs[j].at \/ (obs[k].at = obs[j].at /\ j <= k)
           R == {x \in K \X K : obs[x[1]].at < obs[x[2]].at
                                  \/ (obs[x[1]].at = obs[x[2]].at /\ x[2] < x[1])}
<1>1. /\ Cardinality(S) \in Nat /\ DOMAIN obs = 1 .. Cardinality(S)
      /\ \A j \in DOMAIN obs : /\ s[j] \in S /\ obs[j] = Read(s[j], stored)
                               /\ obs[j].row = s[j]
                               /\ obs[j].at = stored[s[j]].at /\ obs[j].at \in Nat
      /\ \A r \in S : \E j \in DOMAIN obs : s[j] = r
  BY ReadsAs
<1> HIDE DEF obs
<1>2. IsFiniteSet(K) /\ K # {} /\ K \subseteq Nat
  <2>1. IsFiniteSet(DOMAIN obs) /\ DOMAIN obs \subseteq Nat
    BY <1>1, FS_Interval
  <2>2. IsFiniteSet(K)
    BY <2>1, FS_Subset
  <2> QED
    BY <1>1, <2>1, <2>2
<1>3. \E j \in DOMAIN obs : Top(j)
  <2>1. \A a, b \in K : a = b \/ <<a, b>> \in R \/ <<b, a>> \in R
    BY <1>1, <1>2
  <2>2. \A a, b, c \in K : <<a, b>> \in R /\ <<b, c>> \in R => <<a, c>> \in R
    BY <1>1, <1>2
  <2>3. PICK j \in K : \A k \in K : k = j \/ <<k, j>> \in R
    <3> HIDE DEF R, K
    <3> QED
      BY <1>2, <2>1, <2>2, GreatestExists
  <2>4. ASSUME NEW k \in K, <<k, j>> \in R
        PROVE  obs[k].at < obs[j].at \/ (obs[k].at = obs[j].at /\ j <= k)
    BY <1>2, <2>4
  <2>5. obs[j].at = obs[j].at /\ j <= j
    BY <1>2
  <2>6. Top(j)
    BY <2>3, <2>4, <2>5
  <2> QED
    BY <2>3, <2>6
<1>4. PICK j \in DOMAIN obs : Top(j) /\ LatestOf(p, obs) = obs[j]
  <2> DEFINE j == CHOOSE j \in DOMAIN obs : Top(j)
  <2>1. j \in DOMAIN obs /\ Top(j)
    BY <1>3
  <2>2. LatestOf(p, obs) = obs[j]
    BY DEF LatestOf
  <2> QED
    BY <2>1, <2>2
<1>5. \A r \in S : Provider[r] = p => stored[r].at <= stored[s[j]].at
  BY <1>1, <1>4
<1> QED
  BY <1>1, <1>4, <1>5 DEF obs

\* evaluate_expectation_centric on rows that do not tie: in whatever order they
\* come, the result is what their set calls for.
THEOREM VerdictIsJudgement ==
  ASSUME NEW e, NEW late, NEW S, IsFiniteSet(S),
         NEW stored, \A r \in S : stored[r].at \in Nat, ~Tied(S, stored),
         NEW s \in Orders(S)
  PROVE  Verdict(e, ReadAll(s, stored), late) = Judgement(e, {Read(r, stored) : r \in S}, late)
<1> DEFINE obs == ReadAll(s, stored)
           O == {Read(r, stored) : r \in S}
           newest(o, of) == \A p \in of : p.at <= o.at
           peers(o) == {p \in O : Provider[p.row] = Provider[o.row]}
           twice == \E o, p \in O : ExecutionId(o.row) # ExecutionId(p.row)
           wrong == \E o \in O : newest(o, peers(o)) /\ ~Accepts(e, o.status)
           odd == \E o \in O : newest(o, O) /\ Amount[o.row] # Amount[e]
<1>1. /\ \A j \in DOMAIN obs : s[j] \in S /\ obs[j].row = s[j]
      /\ \A r \in S : \E j \in DOMAIN obs : s[j] = r
      /\ obs = <<>> <=> S = {}
  BY ReadsAs
<1>2. \A r \in S : /\ Read(r, stored).row = r /\ Read(r, stored).at = stored[r].at
                   /\ Read(r, stored).status = stored[r].status
  BY DEF Read
<1>3. O = {} <=> S = {}
  OBVIOUS
<1>4. S # {} => (Cardinality(Executions(obs)) > 1 <=> twice)
  BY <1>2, ExecutionsDiffer
<1>5. (\E j \in DOMAIN obs : ~Accepts(e, LatestOf(Provider[obs[j].row], obs).status)) <=> wrong
  <2> DEFINE kept(r) == LatestOf(Provider[r], obs)
  <2>1. ASSUME NEW r \in S
        PROVE  \E q \in S : /\ kept(r) = Read(q, stored) /\ Provider[q] = Provider[r]
                            /\ \A t \in S : Provider[t] = Provider[r] =>
                                 stored[t].at <= stored[q].at
    BY LatestOfIsNewest
  <2>2. (\E j \in DOMAIN obs : ~Accepts(e, LatestOf(Provider[obs[j].row], obs).status))
          <=> \E r \in S : ~Accepts(e, kept(r).status)
    <3> HIDE DEF obs
    <3> QED
      BY <1>1
  <2> HIDE DEF obs, kept
  <2>3. ASSUME NEW r \in S, ~Accepts(e, kept(r).status) PROVE wrong
    <3>1. PICK q \in S : /\ kept(r) = Read(q, stored) /\ Provider[q] = Provider[r]
                         /\ \A t \in S : Provider[t] = Provider[r] =>
                              stored[t].at <= stored[q].at
      BY <2>1
    <3>2. newest(Read(q, stored), peers(Read(q, stored)))
      BY <1>2, <3>1
    <3> QED
      BY <2>3, <3>1, <3>2
  <2>4. ASSUME NEW r \in S, newest(Read(r, stored), peers(Read(r, stored))),
               ~Accepts(e, Read(r, stored).status)
        PROVE  ~Accepts(e, kept(r).status)
    <3>1. PICK q \in S : /\ kept(r) = Read(q, stored) /\ Provider[q] = Provider[r]
                         /\ \A t \in S : Provider[t] = Provider[r] =>
                              stored[t].at <= stored[q].at
      BY <2>1
    <3>2. stored[r].at <= stored[q].at
      BY <3>1
    <3>3. Read(q, stored) \in peers(Read(r, stored))
      BY <1>2, <3>1
    <3>4. stored[q].at <= stored[r].at
      BY <1>2, <2>4, <3>3
    <3>5. stored[q].status = stored[r].status
      <4>1. stored[q].at = stored[r].at
        BY <3>2, <3>4
      <4> QED
        BY <3>1, <4>1 DEF Tied
    <3> QED
      BY <1>2, <2>4, <3>1, <3>5
  <2> QED
    BY <2>2, <2>3, <2>4
<1>6. S # {} => (Amount[Latest(obs).row] # Amount[e] <=> odd)
  <2> SUFFICES ASSUME S # {} PROVE Amount[Latest(obs).row] # Amount[e] <=> odd
    OBVIOUS
  <2>1. PICK q \in S : /\ Latest(obs) = Read(q, stored)
                       /\ \A r \in S : stored[r].at <= stored[q].at
    BY LatestIsNewest
  <2> HIDE DEF obs
  <2>2. newest(Read(q, stored), O)
    BY <1>2, <2>1
  <2>3. ASSUME NEW r \in S, newest(Read(r, stored), O) PROVE Amount[r] = Amount[q]
    <3>1. stored[q].at <= stored[r].at
      BY <1>2, <2>3
    <3>2. stored[q].at = stored[r].at
      BY <2>1, <3>1
    <3> QED
      BY <3>2 DEF Tied
  <2>4. Amount[Latest(obs).row] # Amount[e] => odd
    BY <1>2, <2>1, <2>2
  <2>5. odd => Amount[Latest(obs).row] # Amount[e]
    BY <1>2, <2>1, <2>3
  <2> QED
    BY <2>4, <2>5
<1>7. Judgement(e, O, late) =
        IF O = {} THEN IF late THEN "SLA_BREACH" ELSE "ABSENT_EXECUTION"
        ELSE IF twice THEN "DUPLICATE_EXECUTION" ELSE IF wrong THEN "STATE_MISMATCH"
        ELSE IF odd THEN "AMOUNT_MISMATCH" ELSE "MATCH"
  BY DEF Judgement
<1> HIDE DEF obs, O, twice, wrong, odd
<1>8. Verdict(e, obs, late) = Judgement(e, O, late)
  BY <1>1, <1>3, <1>4, <1>5, <1>6, <1>7 DEF Verdict
<1> QED
  BY <1>8 DEF obs, O
=============================================================================
