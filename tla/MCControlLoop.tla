--------------------------- MODULE MCControlLoop ----------------------------
(***************************************************************************)
(* Instances of ControlLoop for TLC.                                       *)
(***************************************************************************)
EXTENDS ControlLoop, TLC

CONSTANTS w1, w2, e1, e2

\* The incident keys: a status discrepancy of each of two subjects.
Mismatch1 == <<"s1", "STATE_MISMATCH">>
Mismatch2 == <<"s2", "STATE_MISMATCH">>

\* One incident.
OneIncident == {Mismatch1}
OneEventOf == [e \in Events |-> Mismatch1]

\* Two subjects that share the budgets.
TwoSubjects == {Mismatch1, Mismatch2}
TwoSubjectsEventOf == [e \in Events |-> IF e = e1 THEN Mismatch1 ELSE Mismatch2]

\* The expectations: the payment is settled, or it is given back.
ExpectSettled == [s \in {"s1", "s2"} |-> "SETTLED"]
ExpectSettledOne == [s \in {"s1"} |-> "SETTLED"]
ExpectFailedOne == [s \in {"s1"} |-> "FAILED"]

\* Amounts and budgets.
AmountOne == [s \in {"s1"} |-> 7]
AmountTwo == [s \in {"s1", "s2"} |-> IF s = "s1" THEN 7 ELSE 5]
OneMutation == [a \in Actions |-> 1]
TwoMutations == [a \in Actions |-> 2]
TenUnits == [a \in Actions |-> 10]
TwentyUnits == [a \in Actions |-> 20]

AnyWorker == Permutations(Workers)
=============================================================================
