----------------------------- MODULE MCSessions -----------------------------
(* Small instances of Sessions: up to two sessions of one caller and two   *)
(* command goroutines, which are interchangeable.                          *)
EXTENDS Sessions, TLC

CONSTANTS s1, s2, alice, o1, x1, x2

Symmetry == Permutations({x1, x2})
=============================================================================
