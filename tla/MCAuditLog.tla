----------------------------- MODULE MCAuditLog -----------------------------
(* An instance of AuditLog for TLC.                                        *)
EXTENDS AuditLog

CONSTANTS a1, a2
=============================================================================
