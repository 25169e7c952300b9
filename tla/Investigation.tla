---------------------------- MODULE Investigation ----------------------------
(***************************************************************************)
(* What stands between the language model and the provider:                *)
(* investigation/validator.py on the hypothesis, investigation/verifier.py *)
(* and integrations/verifier.py on the queries.  A hypothesis is           *)
(* untrusted: it may name evidence that does not exist and queries that    *)
(* are not permitted.                                                      *)
(***************************************************************************)
EXTENDS ReconciliationControls

CONSTANTS
  Domain,     \* per expectation: PAYMENT, REFUND, ... or NoRef
  NamesProvider, \* the expectations whose keys name the provider
  ApiRows     \* the rows normalize_payment and normalize_refund would make

ASSUME InvestigationAssumption ==
  /\ NamesProvider \subseteq Expectations
  /\ ApiRows \subseteq Rows
  /\ NoRef \notin {"PAYMENT", "REFUND"}

VerificationIntent ==
  {"QUERY_PROVIDER_STATE", "QUERY_PROVIDER_TRANSACTION", "COMPARE_SETTLEMENT_RECORD"}
Disposition == {"VERIFICATION_PROPOSED", "INVESTIGATION_EXHAUSTED"}

\* Every save of an observation keeps the evidence of its status.
EvidenceOf(o) == <<o.row, o.status>>

-----------------------------------------------------------------------------
(* OutputValidator.validate.                                               *)

\* CausalHypothesis with its model validator.
SchemaOk(h) ==
  /\ \A j \in DOMAIN h.intents : h.intents[j] \in VerificationIntent
  /\ (h.disposition = "VERIFICATION_PROPOSED") <=> (h.intents # <<>>)

\* Mutant of ReferencesOk: what contradicts the claim is not looked up.
ReferencesSupport(h, known) == h.supporting \subseteq known

\* _check_evidence_references.
ReferencesOk(h, known) == h.supporting \union h.contradicting \subseteq known

\* _check_intent_allowlist; the formatter permits every VerificationIntent.
IntentsOk(h) ==
  \/ h.disposition = "INVESTIGATION_EXHAUSTED"
  \/ /\ h.intents # <<>>
     /\ \A j \in DOMAIN h.intents : h.intents[j] \in VerificationIntent

Validated(h, known) == SchemaOk(h) /\ ReferencesOk(h, known) /\ IntentsOk(h)

-----------------------------------------------------------------------------
(* DeterministicVerifier.verify, one query: e is the expectation of the    *)
(* incident or NoRef, obs are the observations of its context.             *)

\* The provider's strategy: named by the expectation, else that of the first
\* observation; only razorpay is registered.
Routed(e, obs) == \/ e \in NamesProvider
                  \/ obs # <<>> /\ Provider[obs[1].row] = "razorpay"

\* _query_provider_state: whom to ask about ...
QueryRef(e, obs) ==
  IF e # NoRef /\ Keys[e].provider # NoRef THEN Keys[e].provider
  ELSE IF obs # <<>> THEN Keys[obs[1].row].provider ELSE NoRef

\* ... and what; anything that is not PAYMENT is taken for a refund.
QueryDomain(e, obs) ==
  IF e # NoRef /\ Domain[e] # NoRef THEN Domain[e]
  ELSE IF obs # <<>> THEN Keys[obs[1].row].domain ELSE NoRef

\* Mutant of AnswerRows: the refunds of the payment, whatever their receipt.
AnswerRowsUnfiltered(e, obs, truth) ==
  LET ref == QueryRef(e, obs)
      exist == {r \in ApiRows : truth[r] # "ABSENT"}
  IN  IF QueryDomain(e, obs) = "PAYMENT"
      THEN {r \in exist : Keys[r].domain = "PAYMENT" /\ Reference[r] = ref}
      ELSE {r \in exist : Keys[r].domain = "REFUND" /\ Keys[r].provider = ref}

\* Mutant of AnswerRows: what the provider does not know is answered as well.
AnswerRowsAnyway(e, obs, truth) ==
  {r \in ApiRows : /\ Keys[r].domain = QueryDomain(e, obs)
                   /\ QueryRef(e, obs) = Keys[r].provider}

\* get_payment, or get_payment_refunds and the filter on the receipt.
AnswerRows(e, obs, truth) ==
  LET ref == QueryRef(e, obs)
      exist == {r \in ApiRows : truth[r] # "ABSENT"}
      receipt == IF e = NoRef THEN NoRef ELSE Keys[e].internal
  IN  IF QueryDomain(e, obs) = "PAYMENT"
      THEN {r \in exist : Keys[r].domain = "PAYMENT" /\ Reference[r] = ref}
      ELSE {r \in exist : /\ Keys[r].domain = "REFUND" /\ Keys[r].provider = ref
                          /\ receipt \in {NoRef, Keys[r].internal}}

\* No strategy, no reference, or a client error: the provider does not know the payment.
Rejected(e, obs, truth) ==
  \/ ~Routed(e, obs)
  \/ QueryRef(e, obs) = NoRef
  \/ \A r \in ApiRows : Keys[r].domain = "PAYMENT" /\ Reference[r] = QueryRef(e, obs) =>
       truth[r] = "ABSENT"
=============================================================================
