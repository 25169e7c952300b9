----------------------- MODULE ReconciliationControls -----------------------
(***************************************************************************)
(* How an expectation is compared with the observations that share its     *)
(* correlation keys: engine/execution_identity.py,                         *)
(* engine/reconciliation_controls.py and the two find_ methods of          *)
(* storage/postgres_substrate.py.  A row of the observation table is named *)
(* by its identity (provider, provider_reference, observation_type): keys, *)
(* amount and currency of a row never change, its status and time do.      *)
(***************************************************************************)
EXTENDS Naturals, FiniteSets, Sequences

CONSTANTS
  Expectations, Rows,
  Keys,       \* of each: its CorrelationKeys [internal, provider, domain]
  Amount,     \* of each: amount and currency
  Expected,   \* per expectation: expected_canonical_status
  Reference,  \* per row: provider_reference ...
  Provider,   \* ... and provider, in lower case
  NoRef, NoRow

CanonicalStatus == {"PENDING", "SETTLED", "FAILED", "UNKNOWN", "REFUNDED"}
Reasons == {"ABSENT_EXECUTION", "AMOUNT_MISMATCH", "STATE_MISMATCH",
            "DUPLICATE_EXECUTION", "UNEXPECTED_EXECUTION", "SLA_BREACH"}

Observation == [row : Rows, status : CanonicalStatus, at : Nat]

ASSUME ControlsAssumption ==
  /\ Expected \in [Expectations -> CanonicalStatus]
  /\ Expectations \intersect Rows = {}
  /\ NoRef \notin Expectations \union Rows
  /\ NoRow \notin [status : CanonicalStatus, at : Nat]

-----------------------------------------------------------------------------
(* Correlation.                                                            *)

Same(ref, other) == ref # NoRef /\ ref = other

\* Mutant of Finds: only the provider's reference is looked up.
FindsByProvider(r, e) == Same(Keys[r].provider, Keys[e].provider)

\* find_open_by_correlation_keys: the expectations of a new observation.
Finds(r, e) == \/ Same(Keys[r].internal, Keys[e].internal)
               \/ Same(Keys[r].provider, Keys[e].provider)

\* find_by_correlation_keys of the observations: here the provider's reference
\* may also be the row's own, and the domain counts.
Qualifies(r, e) ==
  /\ \/ Same(Keys[e].internal, Keys[r].internal)
     \/ Same(Keys[e].provider, Keys[r].provider)
     \/ Same(Keys[e].provider, Reference[r])
  /\ Keys[e].domain \in {NoRef, Keys[r].domain}

Stored(stored) == {r \in Rows : stored[r] # NoRow}
Candidates(e, stored) == {r \in Stored(stored) : Qualifies(r, e)}

\* A query without ORDER BY answers in any order.
Orders(S) == {s \in [1 .. Cardinality(S) -> S] : \A r \in S : \E j \in DOMAIN s : s[j] = r}

Read(r, stored) == [row |-> r, status |-> stored[r].status, at |-> stored[r].at]
ReadAll(order, stored) == [j \in DOMAIN order |-> Read(order[j], stored)]

-----------------------------------------------------------------------------
(* evaluate_expectation_centric on the candidates in the order they came.  *)

\* group_by_execution; provider_reference is never null.
ExecutionId(r) ==
  IF Keys[r].internal # NoRef THEN Keys[r].internal
  ELSE IF Keys[r].provider # NoRef THEN Keys[r].provider ELSE Reference[r]

Executions(obs) == {ExecutionId(obs[j].row) : j \in DOMAIN obs}

\* get_latest_observation: a stable sort, so the last one of equal times.
Latest(obs) ==
  obs[CHOOSE j \in DOMAIN obs : \A k \in DOMAIN obs :
        obs[k].at < obs[j].at \/ (obs[k].at = obs[j].at /\ k <= j)]

\* Mutant of LatestOf: the last one read, whatever its time.
LatestOfRead(p, obs) ==
  obs[CHOOSE j \in DOMAIN obs : Provider[obs[j].row] = p /\
        \A k \in DOMAIN obs : Provider[obs[k].row] = p => k <= j]

\* provider_latest: an observation replaces the one kept only if it is later, so
\* the first one of equal times.
LatestOf(p, obs) ==
  obs[CHOOSE j \in DOMAIN obs : Provider[obs[j].row] = p /\
        \A k \in DOMAIN obs : Provider[obs[k].row] = p =>
          obs[k].at < obs[j].at \/ (obs[k].at = obs[j].at /\ j <= k)]

Accepts(e, status) ==
  status = Expected[e] \/ (Expected[e] = "FAILED" /\ status = "REFUNDED")

\* The first check that applies returns.
Verdict(e, obs, late) ==
  IF obs = <<>> THEN IF late THEN "SLA_BREACH" ELSE "ABSENT_EXECUTION"
  ELSE IF Cardinality(Executions(obs)) > 1 THEN "DUPLICATE_EXECUTION"
  ELSE IF \E j \in DOMAIN obs : ~Accepts(e, LatestOf(Provider[obs[j].row], obs).status)
  THEN "STATE_MISMATCH"
  ELSE IF Amount[Latest(obs).row] # Amount[e] THEN "AMOUNT_MISMATCH" ELSE "MATCH"

\* The results one evaluation on the stored rows can have.
Verdicts(e, stored, late) ==
  {Verdict(e, ReadAll(s, stored), late) : s \in Orders(Candidates(e, stored))}

\* What the comparison is meant to say, of a set of observations: one execution,
\* whose newest status everywhere is the expected one and whose newest amount is.
Judgement(e, obs, late) ==
  LET newest(o, of) == \A p \in of : p.at <= o.at
      peers(o) == {p \in obs : Provider[p.row] = Provider[o.row]}
  IN  IF obs = {} THEN IF late THEN "SLA_BREACH" ELSE "ABSENT_EXECUTION"
      ELSE IF \E o, p \in obs : ExecutionId(o.row) # ExecutionId(p.row)
      THEN "DUPLICATE_EXECUTION"
      ELSE IF \E o \in obs : newest(o, peers(o)) /\ ~Accepts(e, o.status)
      THEN "STATE_MISMATCH"
      ELSE IF \E o \in obs : newest(o, obs) /\ Amount[o.row] # Amount[e]
      THEN "AMOUNT_MISMATCH" ELSE "MATCH"

\* Rows of one provider with one time and different statuses, or any with one
\* time and different amounts.
Tied(S, stored) == \E q, r \in S :
  /\ stored[q].at = stored[r].at
  /\ \/ Provider[q] = Provider[r] /\ stored[q].status # stored[r].status
     \/ Amount[q] # Amount[r]
=============================================================================
