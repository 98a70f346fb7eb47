---------------------------- MODULE ApprovalWait ----------------------------
(***************************************************************************)
(* The broker's wait for humans (internal/signer/remote.go) while it       *)
(* builds a chain (buildHops in internal/broker/engine.go).  Hop by hop,   *)
(* the bastions first and the target last, SignIntent posts the request;   *)
(* told 202 by the control plane, pollApproval asks for the result at      *)
(* every tick of a ticker until it has the credential, a final answer, too *)
(* many failures in a row or no time left.  The behaviour guardrails of    *)
(* the control plane may want a human for a bastion too, so every hop may  *)
(* wait, and the certificates signed before it grow old meanwhile.         *)
(*                                                                         *)
(* A request takes at most Timeout, the timeout of the HTTP client; a step *)
(* of the goroutine takes no time.                                         *)
(*                                                                         *)
(* Definitions named Op_Variant are altered forms of Op used to show that  *)
(* the properties depend on what Op does.                                  *)
(***************************************************************************)
EXTENDS Integers

CONSTANTS
  ChainLen,     \* number of hops of the chain, the target included
  Wait,         \* approval_wait_seconds
  Interval,     \* interval between polls
  Timeout,      \* timeout of a request
  MaxTransient  \* maxTransientPolls

ASSUME WaitAssumption ==
  /\ ChainLen \in Nat \ {0}
  /\ Wait \in Nat /\ Interval \in Nat \ {0} /\ Timeout \in Nat
  /\ MaxTransient \in Nat

VARIABLES
  now,
  pc,        \* where the broker's goroutine is
  at,        \* the hop it is at
  issued,    \* when the signer issued the certificate of each hop before
  sent,      \* when the request in flight was sent
  deadline, next, transient,  \* of pollApproval
  grant,     \* the approval of the hop at the control plane
  streak,    \* history: answers in a row that were failures to collect
  final,     \* history: the control plane gave a final answer
  cut        \* history: the call was cancelled or an answer was lost

waitVars == <<now, pc, at, issued, sent, deadline, next, transient, grant,
              streak, final, cut>>

WaitInit ==
  /\ now = 0 /\ pc = "post" /\ sent = 0
  /\ at = 1 /\ issued = [i \in 1 .. ChainLen |-> 0]
  /\ deadline = 0 /\ next = 0 /\ transient = 0
  /\ grant = "none" /\ streak = 0 /\ final = FALSE /\ cut = FALSE

Flying == pc \in {"post", "get"}
Ended == pc \in {"dial", "failed"}

-----------------------------------------------------------------------------
\* A second passes; a request does not outlive its timeout and a tick that
\* has come is taken at once.
Tick ==
  /\ Flying => now < sent + Timeout
  /\ pc = "wait" => now < next
  /\ ~Ended
  /\ now' = now + 1
  /\ UNCHANGED <<pc, at, issued, sent, deadline, next, transient, grant,
                 streak, final, cut>>

\* An approver decides, or the control plane lets the request expire.
resolve(g) ==
  /\ grant = "pending" /\ ~Ended /\ grant' = g
  /\ UNCHANGED <<now, pc, at, issued, sent, deadline, next, transient,
                 streak, final, cut>>

\* buildHops with the certificate of its hop, which the signer issued while
\* the request was in flight: the next hop's request, or the dial.
buildHops ==
  /\ \E t \in sent .. now : issued' = [issued EXCEPT ![at] = t]
  /\ IF at = ChainLen THEN pc' = "dial" /\ UNCHANGED <<at, sent>>
     ELSE pc' = "post" /\ at' = at + 1 /\ sent' = now

\* SignIntent: a certificate at once, a refusal or failure, or a 202, which
\* starts the wait, or is an error when the client is not to wait.
SignIntent ==
  /\ pc = "post"
  /\ \/ buildHops /\ UNCHANGED <<deadline, next, transient, grant, streak>>
     \/ /\ pc' = "failed"
        /\ UNCHANGED <<at, issued, sent, deadline, next, transient, grant,
                       streak>>
     \/ /\ grant' = "pending"
        /\ IF Wait = 0
           THEN pc' = "failed" /\ UNCHANGED <<deadline, next, transient, streak>>
           ELSE /\ pc' = "wait" /\ deadline' = now + Wait
                /\ next' = now + Interval /\ transient' = 0 /\ streak' = 0
        /\ UNCHANGED <<at, issued, sent>>
  /\ UNCHANGED <<now, final, cut>>

pollApproval_NoDeadline ==
  /\ pc = "wait" /\ now >= next
  /\ pc' = "get" /\ sent' = now
  /\ next' \in now + 1 .. now + Interval
  /\ UNCHANGED <<now, at, issued, deadline, transient, grant, streak, final,
                 cut>>

\* A tick of pollApproval: the deadline is checked, then the result asked
\* for.  The ticker goes on by itself, so the next tick is at most an
\* interval away.
pollApproval ==
  /\ pc = "wait" /\ now >= next
  /\ IF now > deadline THEN pc' = "failed" /\ UNCHANGED <<sent, next>>
     ELSE pc' = "get" /\ sent' = now /\ next' \in now + 1 .. now + Interval
  /\ UNCHANGED <<now, at, issued, deadline, transient, grant, streak, final,
                 cut>>

\* 202: still pending; failures are counted anew.
pending ==
  /\ pc = "get" /\ grant = "pending"
  /\ pc' = "wait" /\ streak' = 0 /\ transient' = 0
  /\ UNCHANGED <<now, at, issued, sent, deadline, next, grant, final, cut>>

\* 502, 503 or 429: the control plane could not collect the credential and
\* keeps the approval.
transientAnswer ==
  /\ pc = "get" /\ grant \in {"pending", "approved"}
  /\ streak' = streak + 1 /\ transient' = transient + 1
  /\ pc' = IF transient' > MaxTransient THEN "failed" ELSE "wait"
  /\ UNCHANGED <<now, at, issued, sent, deadline, next, grant, final, cut>>

\* 200: the credential, collected once.
collected ==
  /\ pc = "get" /\ grant = "approved"
  /\ grant' = (IF at = ChainLen THEN "issued" ELSE "none") /\ buildHops
  /\ UNCHANGED <<now, deadline, next, transient, streak, final, cut>>

\* Any other status is final: a denial, an expiry or a used approval, but
\* also a 403 from a signer that refuses the approved command, which leaves
\* the approval to be claimed, or from a control plane that no longer serves
\* this broker.
refused ==
  /\ pc = "get" /\ grant \in {"pending", "approved", "denied"}
  /\ pc' = "failed" /\ final' = TRUE
  /\ UNCHANGED <<now, at, issued, sent, deadline, next, transient, grant,
                 streak, cut>>

\* The connection breaks or times out, with the credential collected or not,
\* or the caller is gone: both end the call.
broken ==
  /\ ~Ended /\ pc' = "failed" /\ cut' = TRUE
  /\ grant' \in {grant} \cup (IF pc = "get" /\ grant = "approved"
                              THEN {"issued"} ELSE {})
  /\ UNCHANGED <<now, at, issued, sent, deadline, next, transient, streak,
                 final>>

WaitNext ==
  \/ Tick \/ (\E g \in {"approved", "denied"} : resolve(g))
  \/ SignIntent \/ pollApproval
  \/ pending \/ transientAnswer \/ collected \/ refused \/ broken

WaitSpec == WaitInit /\ [][WaitNext]_waitVars

-----------------------------------------------------------------------------
(* Properties.                                                             *)

\* WaitTypeOK: every variable keeps its type.
WaitTypeOK ==
  /\ now \in Nat /\ sent \in Nat /\ deadline \in Nat /\ next \in Nat
  /\ at \in 1 .. ChainLen /\ issued \in [1 .. ChainLen -> Nat]
  /\ transient \in Nat /\ streak \in Nat
  /\ final \in BOOLEAN /\ cut \in BOOLEAN
  /\ pc \in {"post", "wait", "get", "dial", "failed"}
  /\ grant \in {"none", "pending", "approved", "denied", "issued"}

\* The longest a certificate may have to wait for the k hops behind its own:
\* the answer it came in, and for each hop a request, a wait and a poll.
Delay(k) == Timeout + k * (Wait + 2 * Timeout)

\* ChainAge: when buildHops goes on to dial, the certificate of each hop is
\* no older than the delays of the hops behind it, however long the humans
\* took and however slow the last answers were.  So a certificate is alive at
\* the dial if its lifetime is longer; whether it is, is a matter of the
\* configuration (ttlFor and the max_ttl_seconds of its host) that no line of
\* the code checks: the 120 s that signer.example.json gives the bastion are
\* less than the 150 s of one hop behind it with the wait of 120 s and the
\* timeout of 10 s of the broker's example.
ChainAge ==
  pc = "dial" => \A i \in 1 .. ChainLen : now - issued[i] <= Delay(ChainLen - i)

\* GivesUpRightly: the broker stops asking about an approval that may still
\* be collected only when its time is over, when more than maxTransientPolls
\* answers in a row failed, when the control plane gave a final answer, or
\* when the call was cut; and a credential that was collected is used unless
\* the call was cut.
GivesUpRightly ==
  pc = "failed" /\ ~cut =>
    /\ grant # "issued"
    /\ grant \in {"pending", "approved"} =>
         Wait = 0 \/ now > deadline \/ streak > MaxTransient \/ final
=============================================================================
