--------------------------- MODULE MCControlPlane ---------------------------
(* Instances of ControlPlane for TLC.                                      *)
EXTENDS ControlPlane, TLC

CONSTANTS i1, s1, p1, p2

MCSymmetry == Permutations(Pollers)
=============================================================================
