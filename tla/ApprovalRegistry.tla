-------------------------- MODULE ApprovalRegistry --------------------------
(***************************************************************************)
(* The approval registry of the control plane                              *)
(* (internal/control/approval.go).  Each method holds Registry.mu for its  *)
(* whole body, so it is an operator from the entry it finds to the entry   *)
(* it leaves; ControlPlane interleaves them.  An id that is not in the     *)
(* items map, or has no row in the state db, is NoApproval.  Time is in    *)
(* the unit of the row's timestamps, one second.                           *)
(*                                                                         *)
(* An operator Op_Variant, here and in the other modules, is Op with one   *)
(* plausible mistake; nothing uses it.                                     *)
(***************************************************************************)
EXTENDS Integers

CONSTANTS CNs,         \* certificate common names: brokers and approvers
          EndUsers,    \* identities a broker may assert; "" is none
          Hosts, Cmds, \* what is asked for; a command is its first token
          TTL,         \* approval.timeout_seconds
          NoCN,        \* no common name
          NoTime,      \* the zero time.Time
          NoApproval   \* a missing map entry or row

Statuses == {"pending", "approved", "denied", "expired"}
Rules == {"policy", "behavior"}

Approval ==
    [caller : CNs, endUser : EndUsers \cup {""}, stripped : BOOLEAN,
     host : Hosts, cmd : Cmds, rule : Rules, bearer : BOOLEAN,
     status : Statuses, createdAt : Nat,
     decidedBy : CNs \cup {NoCN}, decidedAt : Nat \cup {NoTime}, learn : BOOLEAN,
     consumed : BOOLEAN, issuing : BOOLEAN, resultReported : BOOLEAN]

ASSUME RegistryAssumption ==
    /\ TTL \in Nat \ {0}
    /\ NoCN \notin CNs
    /\ NoTime \notin Nat
    /\ NoApproval \notin Approval

(* expireLocked: a pending request expires TTL after its creation, an      *)
(* approved one that nobody consumed or is forwarding TTL after its        *)
(* decision.                                                               *)
Overdue_PendingOnly(a, now) == a.status = "pending" /\ now - a.createdAt > TTL
Overdue_WhileIssuing(a, now) ==
    /\ a.status \in {"pending", "approved"} /\ ~a.consumed
    /\ now - (IF a.decidedAt = NoTime THEN a.createdAt ELSE a.decidedAt) > TTL

Overdue(a, now) ==
    CASE a.status = "pending"  -> now - a.createdAt > TTL
      [] a.status = "approved" ->
            /\ ~a.consumed /\ ~a.issuing
            /\ now - (IF a.decidedAt = NoTime THEN a.createdAt ELSE a.decidedAt) > TTL
      [] OTHER -> FALSE

expireLocked(a, now) ==
    IF a # NoApproval /\ Overdue(a, now) /\ ~a.consumed
    THEN [a EXCEPT !.status = "expired"] ELSE a

(* purgeLocked on one entry of the map and on one row: the row goes at the *)
(* instant the map entry is first too old to stay.                         *)
PurgedEntry(a, now) ==
    IF a # NoApproval /\ now - a.createdAt > 2 * TTL THEN NoApproval ELSE a

PurgedRow(a, now) ==
    IF a # NoApproval /\ now - a.createdAt >= 2 * TTL THEN NoApproval ELSE a

NewApproval(caller, endUser, stripped, host, cmd, rule, bearer, now) ==
    [caller |-> caller, endUser |-> endUser, stripped |-> stripped,
     host |-> host, cmd |-> cmd, rule |-> rule, bearer |-> bearer,
     status |-> "pending", createdAt |-> now,
     decidedBy |-> NoCN, decidedAt |-> NoTime, learn |-> FALSE,
     consumed |-> FALSE, issuing |-> FALSE, resultReported |-> FALSE]

(* insertDB: the row never holds the end user's bearer token.              *)
Row(a) == [a EXCEPT !.bearer = FALSE, !.issuing = FALSE, !.resultReported = FALSE]

(* Decide: its guard, after expiry, and the entry it leaves.               *)
MayDecide(a, approve, learn) ==
    /\ a # NoApproval
    /\ a.status = "pending"
    /\ ~(approve /\ learn /\ a.stripped)

Decided(a, approve, by, learn, now) ==
    [a EXCEPT !.status = IF approve THEN "approved" ELSE "denied",
              !.learn = approve /\ learn,
              !.decidedBy = by, !.decidedAt = now]

(* BeginConsume: whether the caller starts, and whether it should poll on. *)
Startable(a) == a # NoApproval /\ a.status = "approved" /\ ~a.consumed /\ ~a.issuing
Retriable(a) == a # NoApproval /\ a.status = "approved" /\ ~a.consumed /\ a.issuing

BeginConsume(a) == IF Startable(a) THEN [a EXCEPT !.issuing = TRUE] ELSE a

FinishConsume_NotBurned(a, success) ==
    IF a = NoApproval THEN a ELSE [a EXCEPT !.issuing = FALSE]

FinishConsume(a, success) ==
    IF a = NoApproval THEN a
    ELSE [a EXCEPT !.consumed = @ \/ success, !.issuing = FALSE]

(* ReportResultOnce: whether this call is the one that reports.            *)
Reports(a) == a # NoApproval /\ a.status \in {"denied", "expired"} /\ ~a.resultReported

ReportResultOnce(a) == IF Reports(a) THEN [a EXCEPT !.resultReported = TRUE] ELSE a

(* NewRegistryDB: the entry a row becomes at start.  issuing and           *)
(* resultReported are not columns.                                         *)
Loaded(row, now) ==
    IF row # NoApproval /\ now - row.createdAt < 2 * TTL THEN row ELSE NoApproval
=============================================================================
