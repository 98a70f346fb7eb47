------------------------------ MODULE MCClocks ------------------------------
(***************************************************************************)
(* The three small components whose correctness is a matter of clocks,     *)
(* each in an instance of its own: the broker's wait for an approval, the  *)
(* rate limiter of the signer, and the envelopes of sealed exec.  They     *)
(* share no state, so only the one that `part` names takes steps; the      *)
(* others stay in one of their initial states.  One of the sealed hosts    *)
(* keeps the signer's time.                                                *)
(***************************************************************************)
EXTENDS ApprovalWait, RateLimiter, SealedExec, TLC

VARIABLE part

MCSkews == {-2, -1, 0, 1}
Symmetry == Permutations(Callers) \cup Permutations(Procs)

MCInit ==
  /\ part \in {"wait", "rate", "sealed"}
  /\ WaitInit /\ RateInit /\ SealedInit
  /\ part # "rate" => limit = TopLimit
  /\ part # "sealed" => key = CHOOSE k \in Keys : TRUE
  /\ \E h \in Hosts : skew[h] = 0
  /\ part # "sealed" => skew = [h \in Hosts |-> 0]

MCNext ==
  \/ part = "wait" /\ WaitNext /\ UNCHANGED <<part, rateVars, sealedVars>>
  \/ part = "rate" /\ RateNext /\ UNCHANGED <<part, waitVars, sealedVars>>
  \/ part = "sealed" /\ SealedNext /\ UNCHANGED <<part, waitVars, rateVars>>

MCSpec == MCInit /\ [][MCNext]_<<part, waitVars, rateVars, sealedVars>>
=============================================================================
