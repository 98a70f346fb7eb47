------------------------------ MODULE MCRoutes ------------------------------
(***************************************************************************)
(* An instance of Routes.  Two names, a target t and a bastion b, and the  *)
(* tables below: t behind b, b moved, a cycle, b removed.                  *)
(***************************************************************************)
EXTENDS Routes

Host(at, jump) == [at |-> at, jump |-> jump]
Of(t, b) == [n \in Names |-> IF n = "t" THEN t ELSE b]

Behind == Of(Host(1, "b"), Host(1, ""))
Moved == Of(Host(1, "b"), Host(2, ""))
Cycle == Of(Host(1, "b"), Host(1, "t"))
Removed == Of(Host(1, "b"), NoHost)

MCTables == {Behind, Moved, Cycle, Removed}
=============================================================================
