-------------------------- MODULE StateEngineProofs --------------------------
(***************************************************************************)
(* The fold of the state engine, for every sequence of observations: its   *)
(* closed form, and what contradicts itself is seen to in every order.     *)
(***************************************************************************)
EXTENDS StateEngine, Induction

Knowledge ==
  [financial : Concrete \union {None}, knowledge : {"VERIFIED", "UNKNOWN", "CONTRADICTED"},
   execution : {"EXECUTED", "NOT_EXECUTED", None},
   concrete : BOOLEAN, denied : BOOLEAN, executed : BOOLEAN]

LEMMA AbsorbType ==
  ASSUME NEW k \in Knowledge, NEW o PROVE Absorb(k, o) \in Knowledge
BY DEF Absorb, Denied, Confirmed, Told, Knowledge

\* The recursive function of After exists, so it is what its definition says.
LEMMA AfterEquation ==
  ASSUME NEW obs, Len(obs) \in Nat
  PROVE  /\ After(obs) \in [0..Len(obs) -> Knowledge]
         /\ After(obs)[0] = Start
         /\ \A n \in 1..Len(obs) : After(obs)[n] = Absorb(After(obs)[n - 1], obs[n])
<1> DEFINE N == Len(obs)
           step == [c \in Nat \X Knowledge |-> Absorb(c[2], obs[c[1] + 1])]
           Is(f) == f = [n \in 0..N |-> IF n = 0 THEN Start ELSE Absorb(f[n - 1], obs[n])]
<1>1. Start \in Knowledge BY DEF Start, Knowledge
<1>2. step \in [Nat \X Knowledge -> Knowledge] BY AbsorbType
<1>3. PICK f \in [Nat -> Knowledge] :
             f[0] = Start /\ \A n \in Nat : f[n + 1] = step[<<n, f[n]>>]
  <2>1. step \in Steps(Knowledge) BY <1>2 DEF Steps
  <2> HIDE DEF step
  <2>2. Runs(Knowledge, Start, step) # {} BY <1>1, <2>1, Recursion
  <2> QED BY <2>2 DEF Runs
<1> DEFINE g == [n \in 0..N |-> f[n]]
<1>4. ASSUME NEW n \in 0..N
      PROVE  g[n] = IF n = 0 THEN Start ELSE Absorb(g[n - 1], obs[n])
  <2>1. CASE n = 0 BY <1>3, <2>1
  <2>2. CASE n # 0
    <3>1. n - 1 \in Nat /\ n - 1 \in 0..N /\ (n - 1) + 1 = n BY <2>2
    <3>2. f[n] = step[<<n - 1, f[n - 1]>>] BY <1>3, <3>1
    <3>3. <<n - 1, f[n - 1]>> \in Nat \X Knowledge BY <3>1
    <3>4. step[<<n - 1, f[n - 1]>>] = Absorb(f[n - 1], obs[n]) BY <3>1, <3>3
    <3> HIDE DEF step
    <3> QED BY <2>2, <3>1, <3>2, <3>4
  <2> QED BY <2>1, <2>2
<1>5. Is(g) BY <1>4
<1>6. After(obs) = CHOOSE h : Is(h) BY DEF After
<1>7. Is(After(obs))
  <2> HIDE DEF Is, g
  <2> QED BY <1>5, <1>6
<1> DEFINE a == After(obs)
<1>8. /\ a = [n \in 0..N |-> IF n = 0 THEN Start ELSE Absorb(a[n - 1], obs[n])]
  BY <1>7
<1>9. a[0] = Start BY <1>8
<1>10. \A n \in 1..N : a[n] = Absorb(a[n - 1], obs[n])
  <2> SUFFICES ASSUME NEW n \in 1..N PROVE a[n] = Absorb(a[n - 1], obs[n]) OBVIOUS
  <2>1. n \in 0..N /\ n # 0 OBVIOUS
  <2> HIDE DEF a
  <2> QED BY <1>8, <2>1
<1>11. a \in [0..N -> Knowledge]
  <2> DEFINE T == {n \in Nat : n <= N => a[n] \in Knowledge}
  <2>1. 0 \in T BY <1>1, <1>9
  <2>2. ASSUME NEW n \in Nat, n \in T PROVE n + 1 \in T
    <3> SUFFICES ASSUME n + 1 <= N PROVE a[n + 1] \in Knowledge OBVIOUS
    <3>1. a[n] \in Knowledge BY <2>2
    <3>2. n + 1 \in 1..N /\ (n + 1) - 1 = n OBVIOUS
    <3> HIDE DEF a
    <3> QED BY <1>10, <3>1, <3>2, AbsorbType
  <2>3. Nat \subseteq T
    <3> HIDE DEF T
    <3> QED BY <2>1, <2>2, SetInduction
  <2> HIDE DEF a
  <2> QED BY <1>8, <2>3
<1> QED BY <1>9, <1>10, <1>11

-----------------------------------------------------------------------------

\* What is known after n observations is what the first n of them say: nothing
\* informative yet, or the last informative one decides, in the light of the
\* earlier ones.
Flags(k, obs, n) ==
  /\ k.concrete <=> \E j \in 1..n : Tells(obs[j])
  /\ k.executed <=> \E j \in 1..n : Tells(obs[j]) \/ Confirms(obs[j])
  /\ k.denied <=> \E j \in 1..n : Denies(obs[j]) /\ \A m \in 1..n : Tells(obs[m]) => m < j

Silent(k, obs, n) ==
  /\ \A j \in 1..n : ~Informs(obs[j])
  /\ k.financial = None /\ k.knowledge = "UNKNOWN" /\ k.execution = None

Decided(k, obs, n, l) ==
  LET conflict ==
        \/ Denies(obs[l]) /\ \E j \in 1..(l - 1) : Tells(obs[j]) \/ Confirms(obs[j])
        \/ Confirms(obs[l]) /\ \E j \in 1..(l - 1) :
             Denies(obs[j]) /\ \A m \in 1..(l - 1) : Tells(obs[m]) => m < j
  IN /\ Informs(obs[l]) /\ \A j \in (l + 1)..n : ~Informs(obs[j])
     /\ k.financial = IF Tells(obs[l]) THEN obs[l].status ELSE None
     /\ k.knowledge = IF conflict THEN "CONTRADICTED" ELSE "VERIFIED"
     /\ k.execution = IF conflict THEN None
                      ELSE IF Denies(obs[l]) THEN "NOT_EXECUTED" ELSE "EXECUTED"

Says(k, obs, n) ==
  /\ Flags(k, obs, n)
  /\ Silent(k, obs, n) \/ \E l \in 1..n : Decided(k, obs, n, l)

\* One more observation keeps it so.
LEMMA AbsorbSays ==
  ASSUME NEW obs, NEW n \in Nat, NEW k \in Knowledge, Says(k, obs, n)
  PROVE  Says(Absorb(k, obs[n + 1]), obs, n + 1)
<1> DEFINE o == obs[n + 1]
           e == Absorb(k, o)
<1>0. 1..(n + 1) = 1..n \union {n + 1} /\ n + 1 \notin 1..n /\ (n + 1) - 1 = n
  OBVIOUS
<1>1. NotExecuted # Executed BY DEF NotExecuted, Executed
<1>2. CASE Denies(o)
  <2>1. ~Confirms(o) /\ ~Tells(o) /\ Informs(o) BY <1>1, <1>2 DEF Denies, Confirms, Tells, Informs
  <2>2. e = Denied(k, k.concrete \/ k.executed) BY <1>2 DEF Absorb, Denies
  <2>3. /\ e.concrete = k.concrete /\ e.executed = k.executed /\ e.denied = TRUE
        /\ e.financial = None
        /\ e.knowledge = IF k.concrete \/ k.executed THEN "CONTRADICTED" ELSE "VERIFIED"
        /\ e.execution = IF k.concrete \/ k.executed THEN None ELSE "NOT_EXECUTED"
    BY <2>2 DEF Denied, Knowledge
  <2>4. Flags(e, obs, n + 1)
    <3> HIDE DEF e
    <3> QED BY <1>0, <1>2, <2>1, <2>3 DEF Flags, Says
  <2>5. Decided(e, obs, n + 1, n + 1)
    <3> HIDE DEF e
    <3> QED BY <1>0, <1>2, <2>1, <2>3 DEF Decided, Flags, Says
  <2> QED BY <2>4, <2>5 DEF Says
<1>3. CASE Confirms(o)
  <2>1. ~Denies(o) /\ ~Tells(o) /\ Informs(o) BY <1>1, <1>3 DEF Denies, Confirms, Tells, Informs
  <2>2. e = Confirmed(k) BY <1>1, <1>3 DEF Absorb, Confirms
  <2>3. /\ e.concrete = k.concrete /\ e.executed = TRUE /\ e.denied = k.denied
        /\ e.financial = None
        /\ e.knowledge = IF k.denied THEN "CONTRADICTED" ELSE "VERIFIED"
        /\ e.execution = IF k.denied THEN None ELSE "EXECUTED"
    BY <2>2 DEF Confirmed, Knowledge
  <2>4. Flags(e, obs, n + 1)
    <3> HIDE DEF e
    <3> QED BY <1>0, <1>3, <2>1, <2>3 DEF Flags, Says
  <2>5. Decided(e, obs, n + 1, n + 1)
    <3> HIDE DEF e
    <3> QED BY <1>0, <1>3, <2>1, <2>3 DEF Decided, Flags, Says
  <2> QED BY <2>4, <2>5 DEF Says
<1>4. CASE Tells(o)
  <2>1. ~Denies(o) /\ ~Confirms(o) /\ Informs(o) BY <1>4 DEF Tells, Informs
  <2>2. e = Told(k, o.status) BY <1>4 DEF Absorb, Tells, Denies, Confirms
  <2>3. /\ e.concrete = TRUE /\ e.executed = TRUE /\ e.denied = FALSE
        /\ e.financial = o.status /\ e.knowledge = "VERIFIED" /\ e.execution = "EXECUTED"
    BY <2>2 DEF Told
  <2>4. Flags(e, obs, n + 1)
    <3> HIDE DEF e
    <3> QED BY <1>0, <1>4, <2>1, <2>3 DEF Flags, Says
  <2>5. Decided(e, obs, n + 1, n + 1)
    <3> HIDE DEF e
    <3> QED BY <1>0, <1>4, <2>1, <2>3 DEF Decided
  <2> QED BY <2>4, <2>5 DEF Says
<1>5. CASE ~Informs(o)
  <2>1. ~Denies(o) /\ ~Confirms(o) /\ ~Tells(o) BY <1>5 DEF Informs
  <2>2. e = k BY <2>1 DEF Absorb, Tells, Denies, Confirms
  <2>3. Flags(k, obs, n + 1)
    BY <1>0, <2>1 DEF Flags, Says
  <2>4. CASE Silent(k, obs, n)
    BY <1>0, <1>5, <2>2, <2>3, <2>4 DEF Silent, Says
  <2>5. ASSUME NEW l \in 1..n, Decided(k, obs, n, l) PROVE Decided(k, obs, n + 1, l)
    <3>1. (l + 1)..(n + 1) = ((l + 1)..n) \union {n + 1} OBVIOUS
    <3> QED BY <1>5, <2>5, <3>1 DEF Decided
  <2> QED BY <1>0, <2>2, <2>3, <2>4, <2>5 DEF Says
<1> QED BY <1>2, <1>3, <1>4, <1>5 DEF Informs

\* After every prefix of the observations.
LEMMA AfterSays ==
  ASSUME NEW obs, Len(obs) \in Nat, NEW n \in 0..Len(obs)
  PROVE  Says(After(obs)[n], obs, n)
<1> DEFINE T == {m \in Nat : m <= Len(obs) => Says(After(obs)[m], obs, m)}
<1>1. 0 \in T
  <2>1. 1..0 = {} OBVIOUS
  <2> QED BY <2>1, AfterEquation DEF Says, Flags, Silent, Start
<1>2. ASSUME NEW m \in Nat, m \in T PROVE m + 1 \in T
  <2> SUFFICES ASSUME m + 1 <= Len(obs) PROVE Says(After(obs)[m + 1], obs, m + 1)
    OBVIOUS
  <2>1. Says(After(obs)[m], obs, m) BY <1>2
  <2>2. m \in 0..Len(obs) /\ m + 1 \in 1..Len(obs) /\ (m + 1) - 1 = m OBVIOUS
  <2>3. After(obs)[m] \in Knowledge BY <2>2, AfterEquation
  <2>4. After(obs)[m + 1] = Absorb(After(obs)[m], obs[m + 1]) BY <2>2, AfterEquation
  <2> QED BY <2>1, <2>3, <2>4, AbsorbSays
<1>3. Nat \subseteq T
  <2> HIDE DEF T
  <2> QED BY <1>1, <1>2, SetInduction
<1> QED BY <1>3

-----------------------------------------------------------------------------

Split(obs) == Cardinality({obs[j].status : j \in DOMAIN obs} \intersect Terminal) > 1

\* What the loop amounts to, read off the code without going through the
\* observations one by one: the last informative one decides, and contradicts
\* what was known before it or not.  A status FAILED is VERIFIED and EXECUTED.
ClosedForm(obs) ==
  LET informative == {j \in DOMAIN obs : Informs(obs[j])}
      last == CHOOSE j \in informative : \A m \in informative : m <= j
      before == {j \in DOMAIN obs : j < last}
      deniedSinceStatus == \E j \in before : /\ Denies(obs[j])
                                            /\ \A m \in before : Tells(obs[m]) => m < j
      conflict == \/ Split(obs)
                  \/ informative # {} /\ Denies(obs[last])
                       /\ \E j \in before : Tells(obs[j]) \/ Confirms(obs[j])
                  \/ informative # {} /\ Confirms(obs[last]) /\ deniedSinceStatus
  IN [financial |-> IF informative # {} /\ Tells(obs[last]) THEN obs[last].status ELSE None,
      knowledge |-> IF conflict THEN "CONTRADICTED"
                    ELSE IF informative = {} THEN "UNKNOWN" ELSE "VERIFIED",
      execution |-> IF conflict \/ informative = {} THEN None
                    ELSE IF Denies(obs[last]) THEN "NOT_EXECUTED" ELSE "EXECUTED"]

\* reconstruct_state, whatever the observations and however many: the loop has
\* this closed form.
THEOREM EngineHasClosedForm ==
  ASSUME NEW obs, Len(obs) \in Nat, DOMAIN obs = 1..Len(obs)
  PROVE  Reconstruct(obs) = ClosedForm(obs)
<1> DEFINE N == Len(obs)
           k == After(obs)[N]
           informative == {j \in DOMAIN obs : Informs(obs[j])}
           last == CHOOSE j \in informative : \A m \in informative : m <= j
           before == {j \in DOMAIN obs : j < last}
           deniedSinceStatus == \E j \in before : /\ Denies(obs[j])
                                                 /\ \A m \in before : Tells(obs[m]) => m < j
           conflict == \/ Split(obs)
                       \/ informative # {} /\ Denies(obs[last])
                            /\ \E j \in before : Tells(obs[j]) \/ Confirms(obs[j])
                       \/ informative # {} /\ Confirms(obs[last]) /\ deniedSinceStatus
           verdict == 
             [financial |-> IF informative # {} /\ Tells(obs[last]) THEN obs[last].status ELSE None,
              knowledge |-> IF conflict THEN "CONTRADICTED"
                            ELSE IF informative = {} THEN "UNKNOWN" ELSE "VERIFIED",
              execution |-> IF conflict \/ informative = {} THEN None
                            ELSE IF Denies(obs[last]) THEN "NOT_EXECUTED" ELSE "EXECUTED"]
           state == 
             [financial |-> k.financial,
              knowledge |-> IF Split(obs) THEN "CONTRADICTED" ELSE k.knowledge,
              execution |-> IF Split(obs) THEN None ELSE k.execution]
<1>1. ClosedForm(obs) = verdict BY DEF ClosedForm
<1>2. Reconstruct(obs) = state BY DEF Reconstruct, Split
<1>3. Says(k, obs, N) BY AfterSays
<1>4. CASE Silent(k, obs, N)
  <2>1. informative = {} BY <1>4 DEF Silent
  <2> HIDE DEF informative
  <2>2. conflict <=> Split(obs) BY <2>1
  <2> HIDE DEF conflict
  <2>3. verdict = state BY <1>4, <2>1, <2>2 DEF Silent
  <2> QED BY <1>1, <1>2, <2>3
<1>5. ASSUME NEW l \in 1..N, Decided(k, obs, N, l) PROVE Reconstruct(obs) = ClosedForm(obs)
  <2>1. l \in informative BY <1>5 DEF Decided
  <2>2. \A m \in informative : m <= l
    <3> SUFFICES ASSUME NEW m \in 1..N, Informs(obs[m]), ~(m <= l) PROVE FALSE OBVIOUS
    <3>1. m \in (l + 1)..N OBVIOUS
    <3> QED BY <1>5, <3>1 DEF Decided
  <2>3. informative \subseteq Nat OBVIOUS
  <2>4. last = l
    <3> HIDE DEF informative
    <3>1. last \in informative /\ \A m \in informative : m <= last BY <2>1, <2>2, Zenon
    <3> HIDE DEF last
    <3>2. last <= l /\ l <= last /\ last \in Nat /\ l \in Nat BY <2>1, <2>2, <2>3, <3>1
    <3> QED BY <3>2
  <2> HIDE DEF last
  <2>5. before = 1..(l - 1) BY <2>4
  <2> HIDE DEF before
  <2>6. informative # {} BY <2>1
  <2> HIDE DEF informative
  <2> DEFINE here ==
        \/ Denies(obs[l]) /\ \E j \in 1..(l - 1) : Tells(obs[j]) \/ Confirms(obs[j])
        \/ Confirms(obs[l]) /\ \E j \in 1..(l - 1) :
             Denies(obs[j]) /\ \A m \in 1..(l - 1) : Tells(obs[m]) => m < j
  <2>7. conflict <=> Split(obs) \/ here BY <2>4, <2>5, <2>6
  <2>8. /\ k.financial = IF Tells(obs[l]) THEN obs[l].status ELSE None
        /\ k.knowledge = IF here THEN "CONTRADICTED" ELSE "VERIFIED"
        /\ k.execution = IF here THEN None
                         ELSE IF Denies(obs[l]) THEN "NOT_EXECUTED" ELSE "EXECUTED"
    BY <1>5 DEF Decided
  <2> HIDE DEF conflict, here, k
  <2>9. verdict = state BY <2>4, <2>6, <2>7, <2>8
  <2> QED BY <1>1, <1>2, <2>9
<1> QED BY <1>3, <1>4, <1>5 DEF Says

\* The result is a reconstructed state.
LEMMA ReconstructType ==
  ASSUME NEW obs, Len(obs) \in Nat PROVE Reconstruct(obs) \in States
<1>1. After(obs)[Len(obs)] \in Knowledge BY AfterEquation
<1> QED BY <1>1 DEF Reconstruct, States, Knowledge

\* A state says "executed" only when some observation does.
LEMMA ExecutedIsObserved ==
  ASSUME NEW obs, Len(obs) \in Nat,
         Reconstruct(obs).execution = "EXECUTED" \/ Reconstruct(obs).financial \in Concrete
  PROVE  \E j \in 1..Len(obs) : Tells(obs[j]) \/ Confirms(obs[j])
<1> DEFINE k == After(obs)[Len(obs)]
<1>1. k.execution = "EXECUTED" \/ k.financial \in Concrete
  BY EngineAssumption DEF Reconstruct
<1>2. Says(k, obs, Len(obs)) BY AfterSays
<1> HIDE DEF k
<1>3. ~Silent(k, obs, Len(obs)) BY <1>1, EngineAssumption DEF Silent
<1>4. PICK l \in 1..Len(obs) : Decided(k, obs, Len(obs), l) BY <1>2, <1>3 DEF Says
<1>5. Tells(obs[l]) \/ Confirms(obs[l])
  <2>1. CASE Denies(obs[l]) BY <1>1, <1>4, <2>1, EngineAssumption DEF Decided, Tells
  <2> QED BY <1>4, <2>1 DEF Decided, Informs
<1> QED BY <1>5

\* A verified "not executed" rests on a denial, and on nothing that implies an
\* execution, before it or after it.
LEMMA AbsenceIsObserved ==
  ASSUME NEW obs, Len(obs) \in Nat,
         Reconstruct(obs).knowledge = "VERIFIED", Reconstruct(obs).execution = "NOT_EXECUTED"
  PROVE  /\ \E j \in 1..Len(obs) : Denies(obs[j])
         /\ \A j \in 1..Len(obs) : ~Tells(obs[j]) /\ ~Confirms(obs[j])
<1> DEFINE k == After(obs)[Len(obs)]
<1>1. k.knowledge = "VERIFIED" /\ k.execution = "NOT_EXECUTED"
  BY EngineAssumption DEF Reconstruct
<1>2. Says(k, obs, Len(obs)) BY AfterSays
<1> HIDE DEF k
<1>3. ~Silent(k, obs, Len(obs)) BY <1>1, EngineAssumption DEF Silent
<1>4. PICK l \in 1..Len(obs) : Decided(k, obs, Len(obs), l) BY <1>2, <1>3 DEF Says
<1>5. Denies(obs[l]) /\ \A j \in 1..(l - 1) : ~Tells(obs[j]) /\ ~Confirms(obs[j])
  BY <1>1, <1>4, EngineAssumption DEF Decided
<1>6. ASSUME NEW j \in 1..Len(obs) PROVE ~Tells(obs[j]) /\ ~Confirms(obs[j])
  <2>1. CASE j = l BY <1>5, <2>1 DEF Denies, Tells, Confirms, NotExecuted, Executed
  <2>2. CASE j < l
    <3>1. j \in 1..(l - 1) BY <2>2
    <3> QED BY <1>5, <3>1
  <2>3. CASE j > l
    <3>1. j \in (l + 1)..Len(obs) BY <2>3
    <3> QED BY <1>4, <3>1 DEF Decided, Informs
  <2> QED BY <2>1, <2>2, <2>3
<1> QED BY <1>5, <1>6

\* An order of finitely many observations is a sequence of just these.
LEMMA OrdersAreSequences ==
  ASSUME NEW obs, IsFiniteSet(DOMAIN obs), NEW s \in SortedOrders(obs)
  PROVE  /\ Len(s) \in Nat /\ DOMAIN s = 1..Len(s)
         /\ \A j \in 1..Len(s) : \E d \in DOMAIN obs : s[j] = obs[d]
         /\ \A d \in DOMAIN obs : \E j \in 1..Len(s) : s[j] = obs[d]
         /\ \A j, k \in 1..Len(s) : j < k => ~Precedes(s[k], s[j])
<1> DEFINE D == DOMAIN obs
           n == Cardinality(D)
<1>1. PICK p \in SetToSeqs(D) :
        /\ s = [k \in 1..n |-> obs[p[k]]]
        /\ \A j, k \in DOMAIN p : j < k => ~Precedes(obs[p[k]], obs[p[j]])
  BY DEF SortedOrders
<1>2. /\ p \in [1..n -> D]
      /\ \A i, j \in 1..n : i # j => p[i] # p[j]
  BY DEF SetToSeqs
<1>3. n \in Nat BY FS_CardinalityType
<1>4. IsFiniteSet(1..n) /\ Cardinality(1..n) = n
  <2> HIDE DEF n
  <2>1. n \in Int /\ 1 \in Int /\ (IF 1 > n THEN 0 ELSE n - 1 + 1) = n BY <1>3
  <2>2. IsFiniteSet(1..n) /\ Cardinality(1..n) = IF 1 > n THEN 0 ELSE n - 1 + 1
    BY <2>1, FS_Interval, Zenon
  <2> QED BY <2>1, <2>2
<1>5. \A d \in D : \E j \in 1..n : p[j] = d
  <2>1. p \in Injection(1..n, D) BY <1>2 DEF Injection, IsInjective
  <2>2. p \in Surjection(1..n, D) BY <1>4, <2>1, FS_Injection
  <2> QED BY <2>2 DEF Surjection
<1>6. s \in Seq({obs[d] : d \in D}) /\ Len(s) = n
  <2> HIDE DEF n
  <2> QED BY <1>1, <1>2, <1>3
<1>7. ASSUME NEW j \in 1..n, NEW k \in 1..n, j < k PROVE ~Precedes(s[k], s[j])
  <2> HIDE DEF n
  <2>1. j \in DOMAIN p /\ k \in DOMAIN p /\ s[j] = obs[p[j]] /\ s[k] = obs[p[k]]
    BY <1>1, <1>2
  <2> QED BY <1>1, <1>7, <2>1
<1> HIDE DEF n
<1> QED BY <1>1, <1>2, <1>3, <1>5, <1>6, <1>7

\* A denial after every status, and an effect told or confirmed, contradict each
\* other wherever the loop ends.
LEMMA ContradictionIsSeen ==
  ASSUME NEW obs, Len(obs) \in Nat,
         \/ Split(obs)
         \/ \E d \in 1..Len(obs) :
              /\ Denies(obs[d])
              /\ \A t \in 1..Len(obs) : Tells(obs[t]) => t < d
              /\ \E e \in 1..Len(obs) : Tells(obs[e]) \/ Confirms(obs[e])
  PROVE  Reconstruct(obs).knowledge = "CONTRADICTED"
<1> DEFINE k == After(obs)[Len(obs)]
<1>1. CASE Split(obs) BY <1>1 DEF Reconstruct, Split
<1>2. ASSUME NEW d \in 1..Len(obs), Denies(obs[d]),
             \A t \in 1..Len(obs) : Tells(obs[t]) => t < d,
             NEW e \in 1..Len(obs), Tells(obs[e]) \/ Confirms(obs[e])
      PROVE  k.knowledge = "CONTRADICTED"
  <2>1. Says(k, obs, Len(obs)) BY AfterSays
  <2> HIDE DEF k
  <2>2. ~Silent(k, obs, Len(obs)) BY <1>2 DEF Silent, Informs
  <2>3. PICK l \in 1..Len(obs) : Decided(k, obs, Len(obs), l) BY <2>1, <2>2 DEF Says
  <2>4. ASSUME NEW j \in 1..Len(obs), Informs(obs[j]) PROVE j <= l
    <3> SUFFICES ASSUME ~(j <= l) PROVE FALSE OBVIOUS
    <3>1. j \in (l + 1)..Len(obs) OBVIOUS
    <3> QED BY <2>3, <2>4, <3>1 DEF Decided
  <2>5. d <= l /\ e <= l BY <1>2, <2>4 DEF Informs
  <2>6. ~(Denies(obs[l]) /\ (Tells(obs[l]) \/ Confirms(obs[l])))
    BY DEF Denies, Tells, Confirms, NotExecuted, Executed
  <2>7. ~Tells(obs[l]) BY <1>2, <2>5
  <2>8. CASE Denies(obs[l])
    <3>1. e # l BY <1>2, <2>6, <2>8
    <3>2. e \in 1..(l - 1) BY <2>5, <3>1
    <3> QED BY <1>2, <2>3, <2>8, <3>2 DEF Decided
  <2>9. CASE Confirms(obs[l])
    <3>1. d # l BY <1>2, <2>6, <2>9
    <3>2. d \in 1..(l - 1) /\ \A m \in 1..(l - 1) : m \in 1..Len(obs) BY <2>5, <3>1
    <3>3. \A m \in 1..(l - 1) : Tells(obs[m]) => m < d BY <1>2, <3>2
    <3> QED BY <1>2, <2>3, <2>9, <3>2, <3>3 DEF Decided
  <2>10. Informs(obs[l]) BY <2>3 DEF Decided
  <2> QED BY <2>7, <2>8, <2>9, <2>10 DEF Informs
<1> QED BY <1>1, <1>2 DEF Reconstruct

\* So contradictory evidence is CONTRADICTED in every order the temporal policy
\* may give it.
THEOREM ContradictionInEveryOrder ==
  ASSUME NEW obs, IsFiniteSet(DOMAIN obs), NEW s \in SortedOrders(obs), Contradictory(obs)
  PROVE  Reconstruct(s).knowledge = "CONTRADICTED"
<1>1. /\ Len(s) \in Nat /\ DOMAIN s = 1..Len(s)
      /\ \A j \in 1..Len(s) : \E d \in DOMAIN obs : s[j] = obs[d]
      /\ \A d \in DOMAIN obs : \E j \in 1..Len(s) : s[j] = obs[d]
      /\ \A j, k \in 1..Len(s) : j < k => ~Precedes(s[k], s[j])
  BY OrdersAreSequences
<1>2. {s[j].status : j \in DOMAIN s} = {obs[d].status : d \in DOMAIN obs} BY <1>1
<1>3. CASE Cardinality({obs[d].status : d \in DOMAIN obs} \intersect Terminal) > 1
  <2>1. Split(s) BY <1>2, <1>3 DEF Split
  <2> QED BY <1>1, <2>1, ContradictionIsSeen
<1>4. ASSUME NEW d \in DOMAIN obs, Denies(obs[d]),
             \A t \in DOMAIN obs : Tells(obs[t]) => Precedes(obs[t], obs[d]),
             NEW e \in DOMAIN obs, Tells(obs[e]) \/ Confirms(obs[e])
      PROVE  Reconstruct(s).knowledge = "CONTRADICTED"
  <2>1. PICK j \in 1..Len(s) : s[j] = obs[d] BY <1>1
  <2>2. PICK k \in 1..Len(s) : s[k] = obs[e] BY <1>1
  <2>3. ASSUME NEW t \in 1..Len(s), Tells(s[t]) PROVE t < j
    <3>1. Precedes(s[t], s[j]) BY <1>1, <1>4, <2>1, <2>3
    <3>2. ~(j < t) BY <1>1, <3>1
    <3>3. t # j BY <1>4, <2>1, <2>3 DEF Tells
    <3> QED BY <3>2, <3>3
  <2> QED BY <1>1, <1>4, <2>1, <2>2, <2>3, ContradictionIsSeen
<1> QED BY <1>3, <1>4 DEF Contradictory
=============================================================================
