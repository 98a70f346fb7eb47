--------------------------- MODULE MCShellSession ---------------------------
(* A small instance of ShellSession: two commands of up to two stdout      *)
(* chunks and one stderr chunk each.                                       *)
EXTENDS ShellSession
=============================================================================
