----------------------------- MODULE Induction -----------------------------
(***************************************************************************)
(* Induction over numbers and finite sets, and definition by recursion,    *)
(* with sets in the place of predicates, for the proofs about the          *)
(* recursive functions of the models.                                      *)
(***************************************************************************)
EXTENDS Naturals, FiniteSets, FiniteSetTheorems, WellFoundedInduction, TLAPS

\* What holds of 0 and passes from n to n + 1 holds of every number: the least
\* number outside T would have a predecessor outside T.
LEMMA SetInduction ==
  ASSUME NEW T, 0 \in T, \A n \in Nat : n \in T => n + 1 \in T
  PROVE  Nat \subseteq T
<1> DEFINE R == {ss \in Nat \X Nat : ss[1] < ss[2]}
           U == Nat \ T
<1>1. IsWellFoundedOn(R, Nat) BY NatLessThanWellFounded DEF OpToRel
<1>2. \A x, y \in Nat : y < x => <<y, x>> \in R OBVIOUS
<1> HIDE DEF R
<1> SUFFICES ASSUME U # {} PROVE FALSE OBVIOUS
<1>3. PICK x \in U : \A y \in U : <<y, x>> \notin R BY <1>1, WFMin
<1>4. x # 0 /\ x \in Nat /\ x - 1 \in Nat /\ x - 1 < x BY <1>3
<1>5. x - 1 \in T BY <1>2, <1>3, <1>4
<1>6. (x - 1) + 1 \in T BY <1>4, <1>5
<1> QED BY <1>3, <1>4, <1>6

\* A family of subsets of a finite set that contains the empty set and grows
\* by an element at a time contains the whole set.
LEMMA FiniteSetInduction ==
  ASSUME NEW S, IsFiniteSet(S), NEW T, {} \in T,
         \A X \in SUBSET S, x \in S : X \in T /\ x \notin X => X \union {x} \in T
  PROVE  S \in T
<1> DEFINE N == {n \in Nat : \A X \in SUBSET S : Cardinality(X) = n => X \in T}
<1>1. 0 \in N
  <2> SUFFICES ASSUME NEW X \in SUBSET S, Cardinality(X) = 0 PROVE X \in T OBVIOUS
  <2>1. IsFiniteSet(X) BY FS_Subset
  <2> QED BY <2>1, FS_EmptySet
<1>2. ASSUME NEW n \in Nat, n \in N PROVE n + 1 \in N
  <2> SUFFICES ASSUME NEW X \in SUBSET S, Cardinality(X) = n + 1 PROVE X \in T
    OBVIOUS
  <2>1. IsFiniteSet(X) BY FS_Subset
  <2>2. PICK x : x \in X BY FS_EmptySet, n + 1 # 0
  <2>3. X \ {x} \in SUBSET S /\ Cardinality(X \ {x}) = n
    <3>1. Cardinality(X \ {x}) = (n + 1) - 1 BY <2>1, <2>2, FS_RemoveElement, Zenon
    <3> QED BY <3>1
  <2>4. X \ {x} \in T BY <1>2, <2>3
  <2>5. X = (X \ {x}) \union {x} /\ x \in S /\ x \notin X \ {x} BY <2>2
  <2> HIDE DEF N
  <2> QED BY <2>3, <2>4, <2>5
<1>3. Nat \subseteq N
  <2> HIDE DEF N
  <2> QED BY <1>1, <1>2, SetInduction
<1> QED BY <1>3, FS_CardinalityType

\* A finite set that a relation orders totally has a greatest element.
LEMMA GreatestExists ==
  ASSUME NEW K, IsFiniteSet(K), K # {}, NEW R,
         \A a, b \in K : a = b \/ <<a, b>> \in R \/ <<b, a>> \in R,
         \A a, b, c \in K : <<a, b>> \in R /\ <<b, c>> \in R => <<a, c>> \in R
  PROVE  \E m \in K : \A k \in K : k = m \/ <<k, m>> \in R
<1> DEFINE Top(X, m) == \A k \in X : k = m \/ <<k, m>> \in R
           T == {X \in SUBSET K : X = {} \/ \E m \in X : Top(X, m)}
<1>1. {} \in T OBVIOUS
<1>2. ASSUME NEW X \in SUBSET K, NEW x \in K, X \in T, x \notin X PROVE X \union {x} \in T
  <2>1. CASE X = {}
    <3>1. Top(X \union {x}, x) BY <2>1
    <3> QED BY <3>1
  <2>2. CASE X # {}
    <3>1. PICK m \in X : Top(X, m) BY <1>2, <2>2
    <3>2. CASE <<x, m>> \in R
      <4>1. Top(X \union {x}, m) BY <3>1, <3>2
      <4> QED BY <4>1
    <3>3. CASE <<m, x>> \in R
      <4>1. Top(X \union {x}, x) BY <3>1, <3>3
      <4> QED BY <4>1
    <3> QED BY <3>1, <3>2, <3>3, <1>2
  <2> QED BY <2>1, <2>2
<1> HIDE DEF T
<1>3. K \in T BY <1>1, <1>2, FiniteSetInduction
<1> QED BY <1>3 DEF T

\* A step takes a value of S and its number to the next value; a sequence of
\* values runs along it.
Steps(S) == [Nat \X S -> S]

Runs(S, start, step) ==
  {f \in [Nat -> S] : f[0] = start /\ \A n \in Nat : f[n + 1] = step[<<n, f[n]>>]}

\* There is a run from every value along every step.
LEMMA Recursion ==
  ASSUME NEW S, NEW start \in S, NEW step \in Steps(S)
  PROVE  Runs(S, start, step) # {}
<1>0. step \in [Nat \X S -> S] BY DEF Steps
<1> DEFINE Good(n) == {f \in [0..n -> S] :
                        f[0] = start /\ \A m \in 0..n : m # n => f[m + 1] = step[<<m, f[m]>>]}
           T == {n \in Nat : Good(n) # {}}
           g == [n \in Nat |-> CHOOSE f \in Good(n) : TRUE]
           h == [n \in Nat |-> g[n][n]]
<1>1. 0 \in T
  <2>1. [m \in 0..0 |-> start] \in Good(0) OBVIOUS
  <2> QED BY <2>1
<1>2. ASSUME NEW n \in Nat, n \in T PROVE n + 1 \in T
  <2>1. PICK f : f \in Good(n) BY <1>2
  <2> DEFINE e == [m \in 0..(n + 1) |-> IF m = n + 1 THEN step[<<n, f[n]>>] ELSE f[m]]
  <2>2. f \in [0..n -> S] /\ f[n] \in S BY <2>1
  <2>3. e \in [0..(n + 1) -> S] /\ e[0] = start BY <1>0, <2>1, <2>2
  <2>4. ASSUME NEW m \in 0..(n + 1), m # n + 1 PROVE e[m + 1] = step[<<m, e[m]>>]
    <3>1. m \in 0..n /\ m + 1 \in 0..(n + 1) BY <2>4
    <3>2. CASE m = n BY <3>1, <3>2
    <3>3. CASE m # n
      <4>1. m + 1 \in 0..n /\ f[m + 1] = step[<<m, f[m]>>] BY <2>1, <3>1, <3>3
      <4> QED BY <3>1, <4>1
    <3> QED BY <3>2, <3>3
  <2>5. e \in Good(n + 1)
    <3> HIDE DEF e
    <3> QED BY <2>3, <2>4
  <2> HIDE DEF Good
  <2> QED BY <2>5
<1>3. ASSUME NEW n \in Nat PROVE g[n] \in Good(n)
  <2>1. Nat \subseteq T
    <3> HIDE DEF T
    <3> QED BY <1>1, <1>2, SetInduction
  <2> QED BY <2>1
<1>4. ASSUME NEW n \in Nat, NEW f \in Good(n), NEW k \in Nat, NEW e \in Good(k)
      PROVE  \A m \in Nat : m <= n /\ m <= k => f[m] = e[m]
  <2> DEFINE A == {m \in Nat : m <= n /\ m <= k => f[m] = e[m]}
  <2>1. 0 \in A OBVIOUS
  <2>2. ASSUME NEW m \in Nat, m \in A PROVE m + 1 \in A
    <3> SUFFICES ASSUME m + 1 <= n, m + 1 <= k PROVE f[m + 1] = e[m + 1] OBVIOUS
    <3>1. m \in 0..n /\ m # n /\ m \in 0..k /\ m # k OBVIOUS
    <3>2. f[m] = e[m] BY <2>2
    <3> QED BY <3>1, <3>2
  <2>3. Nat \subseteq A
    <3> HIDE DEF A
    <3> QED BY <2>1, <2>2, SetInduction
  <2> QED BY <2>3
<1>5. h \in [Nat -> S]
  <2> SUFFICES ASSUME NEW n \in Nat PROVE g[n][n] \in S OBVIOUS
  <2> HIDE DEF g
  <2> QED BY <1>3
<1>6. h[0] = start BY <1>3
<1>7. ASSUME NEW n \in Nat PROVE h[n + 1] = step[<<n, h[n]>>]
  <2>1. g[n + 1] \in Good(n + 1) /\ g[n] \in Good(n)
    <3> HIDE DEF g, Good
    <3>1. n + 1 \in Nat OBVIOUS
    <3> QED BY <3>1, <1>3
  <2>2. g[n + 1][n] = g[n][n]
    <3> HIDE DEF Good, g
    <3> QED BY <1>4, <2>1
  <2>3. g[n + 1][n + 1] = step[<<n, g[n + 1][n]>>]
    <3>1. n \in 0..(n + 1) /\ n # n + 1 OBVIOUS
    <3> HIDE DEF g
    <3> QED BY <2>1, <3>1
  <2> HIDE DEF g
  <2> QED BY <2>2, <2>3
<1> HIDE DEF h
<1>8. h \in Runs(S, start, step) BY <1>5, <1>6, <1>7 DEF Runs
<1> QED BY <1>8
=============================================================================
