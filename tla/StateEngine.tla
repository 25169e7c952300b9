---------------------------- MODULE StateEngine ----------------------------
(***************************************************************************)
(* What a refund's observations say (src/src/state/engine.py): a fold over *)
(* the observations in their temporal order.  An observation is a record   *)
(* [ts, seen, status, confidence]: the provider's time (0 when it gives    *)
(* none), the time of the evidence, the status in upper case and the       *)
(* authority of a query, each None when absent.  No caller sets            *)
(* provider_sequence, so the first component of the sort key is left out.  *)
(***************************************************************************)
EXTENDS Naturals, FiniteSets, SequencesExt

CONSTANT None

\* ObservedFinancialState and the statuses after which nothing may follow.
Concrete == {"CAPTURED", "REFUNDED", "FAILED", "PROCESSING", "VOIDED"}
Terminal == Concrete \ {"PROCESSING"}

NotExecuted == "AUTHORITATIVE_NOT_EXECUTED"
Executed == "AUTHORITATIVE_EXECUTED"

ASSUME EngineAssumption ==
  None \notin Concrete \union {NotExecuted, Executed, "EXECUTED", "NOT_EXECUTED"}

\* ReconstructedState, without its identifiers.
States == [financial : Concrete \union {None},
           knowledge : {"VERIFIED", "UNKNOWN", "CONTRADICTED"},
           execution : {"EXECUTED", "NOT_EXECUTED", None}]

\* TemporalOrderingPolicy.  The last component of the key is the id of the
\* observation, a fresh uuid4 each time derive_observations runs, so equal
\* times are ordered at random: every order of them is a result.
Precedes(o, p) == o.ts < p.ts \/ (o.ts = p.ts /\ o.seen < p.seen)

SortedOrders(obs) ==
  {[k \in 1..Cardinality(DOMAIN obs) |-> obs[order[k]]] :
     order \in {p \in SetToSeqs(DOMAIN obs) :
                  \A j, k \in DOMAIN p : j < k => ~Precedes(obs[p[k]], obs[p[j]])}}

Start == [financial |-> None, knowledge |-> "UNKNOWN", execution |-> None,
          concrete |-> FALSE, denied |-> FALSE, executed |-> FALSE]

\* The three branches of reconstruct_state's loop: an authoritative denial, an
\* authoritative confirmation, a status that implies execution.
Denied(k, contradicted) ==
  [k EXCEPT !.financial = None, !.denied = TRUE,
            !.knowledge = IF contradicted THEN "CONTRADICTED" ELSE "VERIFIED",
            !.execution = IF contradicted THEN None ELSE "NOT_EXECUTED"]

Confirmed(k) ==
  [k EXCEPT !.financial = None, !.executed = TRUE,
            !.knowledge = IF k.denied THEN "CONTRADICTED" ELSE "VERIFIED",
            !.execution = IF k.denied THEN None ELSE "EXECUTED"]

Told(k, status) ==
  [financial |-> status, knowledge |-> "VERIFIED", execution |-> "EXECUTED",
   concrete |-> TRUE, denied |-> FALSE, executed |-> TRUE]

\* Mutant of Absorb: a denial forgets what was seen before it.
AbsorbForgetful(k, o) ==
  IF o.confidence = NotExecuted THEN Denied(k, FALSE)
  ELSE IF o.confidence = Executed THEN Confirmed(k)
  ELSE IF o.status \in Concrete THEN Told(k, o.status) ELSE k

\* Mutant of Absorb: any word of the provider is taken for a state.
AbsorbAnyStatus(k, o) ==
  IF o.confidence = NotExecuted THEN Denied(k, k.concrete \/ k.executed)
  ELSE IF o.confidence = Executed THEN Confirmed(k)
  ELSE IF o.status # None THEN Told(k, o.status) ELSE k

\* One round of the loop.  A status the enumeration does not know
\* ("processed", "pending") changes nothing.
Absorb(k, o) ==
  IF o.confidence = NotExecuted THEN Denied(k, k.concrete \/ k.executed)
  ELSE IF o.confidence = Executed THEN Confirmed(k)
  ELSE IF o.status \in Concrete THEN Told(k, o.status) ELSE k

\* What is known after each of the observations.
After(obs) ==
  LET after[n \in 0..Len(obs)] == IF n = 0 THEN Start ELSE Absorb(after[n - 1], obs[n])
  IN after

\* Mutant of Reconstruct: the last status wins over an earlier, different one.
ReconstructLast(obs) ==
  LET k == After(obs)[Len(obs)]
  IN [financial |-> k.financial, knowledge |-> k.knowledge, execution |-> k.execution]

\* reconstruct_state on observations in their order: two different terminal
\* statuses contradict each other whatever the last one says.
Reconstruct(obs) ==
  LET k == After(obs)[Len(obs)]
      split == Cardinality({obs[j].status : j \in DOMAIN obs} \intersect Terminal) > 1
  IN [financial |-> k.financial,
      knowledge |-> IF split THEN "CONTRADICTED" ELSE k.knowledge,
      execution |-> IF split THEN None ELSE k.execution]

-----------------------------------------------------------------------------
(* What one observation says, for the properties.                          *)

Denies(o) == o.confidence = NotExecuted
Confirms(o) == o.confidence = Executed
Tells(o) == ~Denies(o) /\ ~Confirms(o) /\ o.status \in Concrete
Informs(o) == Denies(o) \/ Confirms(o) \/ Tells(o)

\* Evidence that contradicts itself in whatever order equal times are read: two
\* different terminal statuses, or a denial of an effect that was confirmed, at
\* any time, or told before it, with no status at its time or later.
Contradictory(obs) ==
  \/ Cardinality({obs[j].status : j \in DOMAIN obs} \intersect Terminal) > 1
  \/ \E d \in DOMAIN obs :
       /\ Denies(obs[d])
       /\ \A t \in DOMAIN obs : Tells(obs[t]) => Precedes(obs[t], obs[d])
       /\ \E e \in DOMAIN obs : Tells(obs[e]) \/ Confirms(obs[e])
=============================================================================
