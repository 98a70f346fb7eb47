--------------------------- MODULE MCSignerState ----------------------------
(* An instance of SignerState for TLC.                                     *)
EXTENDS SignerState

CONSTANTS g1, g2, s1, a1

(* The control plane forwards a broker's approved request, or asks for     *)
(* itself: with an approval to be learned, or through a waiver.  gated is  *)
(* on the allowlist but needs an approval; other needs a grant.            *)
MCRequest(onBehalfOf, cmd, approved, sudoUser) ==
    [peer |-> "cp", onBehalfOf |-> onBehalfOf, endUser |-> "ann", host |-> "h", cmd |-> cmd,
     sudo |-> TRUE, sudoUser |-> sudoUser, approved |-> approved, learn |-> approved,
     dryRun |-> FALSE]
MCRequests == {MCRequest("broker", "other", FALSE, ""),
               MCRequest("", "gated", FALSE, "root"), MCRequest("", "gated", TRUE, "")}

(* What the grant API is asked for, and who is frozen: the control plane   *)
(* is a peer, a caller and the scope of grants.                            *)
MCScopes == {[host |-> "h", cmd |-> "other", caller |-> "cp", endUser |-> ""]}
MCSubjects == {[kind |-> "caller", value |-> "cp"]}
=============================================================================
