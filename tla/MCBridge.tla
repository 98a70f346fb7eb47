------------------------------ MODULE MCBridge ------------------------------
(***************************************************************************)
(* An instance of Bridge: clicker c1 is end user u1, c2 not in the map.    *)
(***************************************************************************)
EXTENDS Bridge

Map == [c \in Clickers |-> IF c = "c1" THEN "u1" ELSE ""]
=============================================================================
