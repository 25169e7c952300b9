-------------------------- MODULE MCControlPlane --------------------------
(***************************************************************************)
(* Instances of ControlPlane for TLC: two operators, two gates.            *)
(***************************************************************************)
EXTENDS ControlPlane, TLC

CONSTANTS o1, o2, g1, g2

AnyRow == {NoRow, Default}
=============================================================================
