-------------------------- MODULE ApprovalLifecycle -------------------------
(***************************************************************************)
(* What the approval registry promises a requester and its approvers: a    *)
(* request is registered once, decided at most once or left to expire,     *)
(* claimed by one poll at a time, and redeemed at most once.  A claim that *)
(* fails gives the approval back; a forgotten request is gone for good.    *)
(*                                                                         *)
(* A restart starts a new life of the process.  It drops every claim and   *)
(* may take a request back to an earlier state, because a later one was    *)
(* not written; it never takes a request forward or brings one back that   *)
(* expired or was forgotten.                                               *)
(***************************************************************************)
EXTENDS Naturals

CONSTANT Ids
VARIABLES state, life

Moves ==
    {<<"none", "pending">>,
     <<"pending", "approved">>, <<"pending", "denied">>, <<"pending", "expired">>,
     <<"approved", "claimed">>, <<"approved", "expired">>,
     <<"claimed", "approved">>, <<"claimed", "redeemed">>, <<"claimed", "gone">>}
        \cup {"pending", "approved", "denied", "expired", "redeemed"} \X {"gone"}

States == {m[1] : m \in Moves} \cup {m[2] : m \in Moves}

(* What a restart may make of a request in state s.                        *)
Kept(s) ==
    CASE s \in {"none", "gone"} -> {s}
      [] s = "expired" -> {s, "gone"}
      [] s \in {"pending", "approved", "denied"} -> {"pending", s, "expired", "gone"}
      [] s = "claimed" -> {"pending", "approved", "expired", "gone"}
      [] s = "redeemed" -> {"pending", "approved", "redeemed", "expired", "gone"}

Init == state = [id \in Ids |-> "none"] /\ life = 0

(* A list or a registration ages several requests at once.                 *)
Step ==
    /\ state' \in [Ids -> States]
    /\ \A id \in Ids : state'[id] = state[id] \/ <<state[id], state'[id]>> \in Moves
    /\ life' = life

Restart ==
    /\ state' \in [Ids -> States]
    /\ \A id \in Ids : state'[id] \in Kept(state[id])
    /\ life' = life + 1

Next == Step \/ Restart

Spec == Init /\ [][Next]_<<state, life>>
=============================================================================
