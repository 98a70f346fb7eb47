---------------------------- MODULE Grants_proofs ----------------------------
(***************************************************************************)
(* What becomes of a permission where it is used: the wait of the broker   *)
(* for a human's approval (ApprovalWait), the envelope that the shim of a  *)
(* sealed host opens (SealedExec), the token with which the broker acts in *)
(* a cluster (K8sAccess), and, where it is given, the relay of a click on  *)
(* a card (Bridge).  They share no state; each has its part.               *)
(***************************************************************************)
EXTENDS ApprovalWait, SealedExec, K8sAccess, Bridge, TLAPS

(***************************************************************************)
(* The certificates of a chain are not older than the waits behind them    *)
(* make them, and the broker gives up only for a reason, for every length  *)
(* of the chain, wait, interval, timeout and number of tolerated failures. *)
(*                                                                         *)
(* ChainAge is not inductive: it says nothing of the states before the     *)
(* dial.  Times bounds, in each of them, the age of the certificates that  *)
(* the hops before have; Counts relates pollApproval's counter and the     *)
(* control plane's state to the answers that were really given.            *)
(***************************************************************************)

(* At time t the certificates of the hops before hop k are not older than  *)
(* the k - 1 - i hops in between and d more make them.                     *)
Young(k, t, d) ==
  \A i \in 1 .. k - 1 : t <= issued[i] + Delay(k - 1 - i) + d

Times ==
  /\ pc \in {"post", "get"} => sent <= now /\ now <= sent + Timeout
  /\ pc = "post" => Young(at, sent, 0)
  /\ pc \in {"wait", "get"} => Young(at, deadline, Timeout + Wait)
  /\ pc = "get" => sent <= deadline
  /\ ChainAge

Counts ==
  /\ transient = streak
  /\ pc = "post" => grant = "none"
  /\ grant = "issued" => pc = "dial" \/ cut
  /\ GivesUpRightly

PollInv == WaitTypeOK /\ Times /\ Counts

LEMMA ProductStep ==
  ASSUME NEW k \in Nat, NEW c \in Nat
  PROVE  k * c \in Nat /\ (k + 1) * c = k * c + c
OBVIOUS

LEMMA DelayIs ==
  /\ Delay(0) = Timeout
  /\ \A k \in Nat : Delay(k) \in Nat /\ Delay(k + 1) = Delay(k) + Wait + 2 * Timeout
<1>1. Wait \in Nat /\ Timeout \in Nat /\ Wait + 2 * Timeout \in Nat
  BY WaitAssumption DEF WaitAssumption
<1>2. Delay(0) = Timeout
  BY <1>1 DEF Delay
<1>3. ASSUME NEW k \in Nat
      PROVE  Delay(k) \in Nat /\ Delay(k + 1) = Delay(k) + Wait + 2 * Timeout
  <2>1. PICK p \in Nat : /\ p = k * (Wait + 2 * Timeout)
                         /\ (k + 1) * (Wait + 2 * Timeout) = p + (Wait + 2 * Timeout)
    BY <1>1, ProductStep
  <2>2. Delay(k) = Timeout + p /\ Delay(k + 1) = Timeout + (p + (Wait + 2 * Timeout))
    BY Zenon, <2>1 DEF Delay
  <2> QED
    BY <1>1, <2>2
<1> QED
  BY <1>2, <1>3

LEMMA PollInitInv == WaitInit => PollInv
<1> SUFFICES ASSUME WaitInit PROVE PollInv
  OBVIOUS
<1>1. WaitTypeOK
  <2>1. 1 \in 1 .. ChainLen /\ [i \in 1 .. ChainLen |-> 0] \in [1 .. ChainLen -> Nat] /\ 0 \in Nat
    BY WaitAssumption DEF WaitAssumption
  <2> QED
    BY Zenon, <2>1 DEF WaitInit, WaitTypeOK
<1>2. Times
  BY WaitAssumption DEF WaitAssumption, WaitInit, Times, Young, ChainAge
<1>3. Counts
  BY DEF WaitInit, Counts, GivesUpRightly
<1> QED
  BY <1>1, <1>2, <1>3 DEF PollInv

\* One step of WaitNext, action by action, or a stutter.

LEMMA BuildHopsTypes ==
  ASSUME WaitTypeOK, buildHops
  PROVE  /\ at' \in 1 .. ChainLen /\ issued' \in [1 .. ChainLen -> Nat] /\ sent' \in Nat
         /\ pc' \in {"post", "dial"}
BY WaitAssumption DEF WaitAssumption, WaitTypeOK, buildHops

LEMMA WaitStepTypeOK == PollInv /\ [WaitNext]_waitVars => WaitTypeOK'
<1> SUFFICES ASSUME PollInv, [WaitNext]_waitVars PROVE WaitTypeOK'
  OBVIOUS
<1>0. WaitTypeOK
  BY DEF PollInv
<1>1. CASE Tick
  BY <1>0, <1>1 DEF Tick, WaitTypeOK
<1>2. CASE \E g \in {"approved", "denied"} : resolve(g)
  BY <1>0, <1>2 DEF resolve, WaitTypeOK
<1>3. CASE SignIntent
  <2>1. CASE buildHops
    BY <1>0, <1>3, <2>1, BuildHopsTypes DEF SignIntent, WaitTypeOK
  <2>2. CASE ~buildHops
    <3>1. now + Wait \in Nat /\ now + Interval \in Nat /\ 0 \in Nat
      BY <1>0, WaitAssumption DEF WaitAssumption, WaitTypeOK
    <3> QED
      BY Zenon, <1>0, <1>3, <2>2, <3>1 DEF SignIntent, WaitTypeOK
  <2> QED
    BY <2>1, <2>2
<1>4. CASE pollApproval
  BY <1>0, <1>4, WaitAssumption DEF WaitAssumption, pollApproval, WaitTypeOK
<1>5. CASE pending \/ transientAnswer
  BY <1>0, <1>5 DEF pending, transientAnswer, WaitTypeOK
<1>5a. CASE refused
  BY Zenon, <1>0, <1>5a DEF refused, WaitTypeOK
<1>6. CASE collected
  BY <1>0, <1>6, BuildHopsTypes DEF collected, WaitTypeOK
<1>7. CASE broken
  BY <1>0, <1>7 DEF broken, WaitTypeOK
<1>8. CASE UNCHANGED waitVars
  BY Zenon, <1>0, <1>8 DEF waitVars, WaitTypeOK
<1> QED
  BY <1>1, <1>2, <1>3, <1>4, <1>5, <1>5a, <1>6, <1>7, <1>8 DEF WaitNext

(* A certificate has come: the ones before it have grown older by a wait   *)
(* and two requests at most, and it by one request at most.                *)
LEMMA BuildHopsTimes ==
  ASSUME WaitTypeOK, buildHops, pc \in {"post", "get"}, now' = now,
         sent <= now, now <= sent + Timeout,
         Young(at, sent, Timeout + Wait)
  PROVE  Times'
<1>0. /\ at \in 1 .. ChainLen /\ ChainLen \in Nat /\ now \in Nat /\ sent \in Nat
      /\ Timeout \in Nat /\ Wait \in Nat /\ issued \in [1 .. ChainLen -> Nat]
  BY WaitAssumption DEF WaitAssumption, WaitTypeOK
<1>b. issued' \in [1 .. ChainLen -> Nat]
  BY BuildHopsTypes
<1>1. PICK t \in sent .. now : issued' = [issued EXCEPT ![at] = t]
  BY Zenon DEF buildHops
<1>2. ASSUME NEW i \in 1 .. at PROVE now <= issued'[i] + Delay(at - i)
  <2>1. CASE i = at
    <3>1. issued'[i] = t /\ at - i = 0
      BY <1>0, <1>1, <2>1
    <3>2. Delay(at - i) = Timeout
      BY Zenon, <3>1, DelayIs
    <3>3. now <= t + Timeout
      BY <1>0
    <3> QED
      BY Zenon, <3>1, <3>2, <3>3
  <2>2. CASE i # at
    <3>1. i \in 1 .. at - 1 /\ at - 1 - i \in Nat /\ (at - 1 - i) + 1 = at - i
      BY <1>0, <2>2
    <3>2. issued'[i] = issued[i] /\ issued[i] \in Nat
      BY <1>0, <1>1, <2>2
    <3>3. sent <= issued[i] + Delay(at - 1 - i) + (Timeout + Wait)
      BY <3>1 DEF Young
    <3>4. PICK d : d = Delay(at - 1 - i)
      OBVIOUS
    <3>5. d \in Nat /\ Delay(at - i) = d + Wait + 2 * Timeout
      BY <3>1, <3>4, DelayIs
    <3>6. sent <= issued[i] + d + (Timeout + Wait)
      BY <3>3, <3>4
    <3>7. now <= issued[i] + (d + Wait + 2 * Timeout)
      BY <1>0, <3>2, <3>5, <3>6
    <3> QED
      BY <3>2, <3>5, <3>7
  <2> QED
    BY <2>1, <2>2
<1>3. CASE at = ChainLen
  <2>1. pc' = "dial"
    BY <1>3 DEF buildHops
  <2>2. ASSUME NEW i \in 1 .. ChainLen PROVE now' - issued'[i] <= Delay(ChainLen - i)
    <3>1. now <= issued'[i] + Delay(ChainLen - i)
      BY <1>2, <1>3
    <3>2. issued'[i] \in Nat /\ Delay(ChainLen - i) \in Nat
      <4>1. ChainLen - i \in Nat
        BY <1>0
      <4>2. Delay(ChainLen - i) \in Nat
        BY Zenon, <4>1, DelayIs
      <4>3. issued'[i] \in Nat
        BY Zenon, <1>b
      <4> QED
        BY Zenon, <4>2, <4>3
    <3> QED
      BY <1>0, <3>1, <3>2
  <2>3. ChainAge'
    BY Zenon, <2>2 DEF ChainAge
  <2> QED
    BY Zenon, <2>1, <2>3 DEF Times
<1>4. CASE at # ChainLen
  <2>1. pc' = "post" /\ at' = at + 1 /\ sent' = now
    BY <1>4 DEF buildHops
  <2>2. ASSUME NEW i \in 1 .. at' - 1
        PROVE  sent' <= issued'[i] + Delay(at' - 1 - i) + 0
    <3>1. i \in 1 .. at /\ at' - 1 - i = at - i /\ at - i \in Nat
      BY <1>0, <2>1
    <3>2. now <= issued'[i] + Delay(at - i)
      BY <1>2, <3>1
    <3>3. issued'[i] \in Nat /\ Delay(at - i) \in Nat
      <4>1. Delay(at - i) \in Nat
        BY Zenon, <3>1, DelayIs
      <4>2. i \in 1 .. ChainLen
        BY <1>0, <3>1
      <4>3. issued'[i] \in Nat
        BY Zenon, <1>b, <4>2
      <4> QED
        BY Zenon, <4>1, <4>3
    <3>4. now <= issued'[i] + Delay(at - i) + 0
      BY <3>2, <3>3
    <3> QED
      BY Zenon, <2>1, <3>1, <3>4
  <2>3. Young(at, sent, 0)'
    BY Zenon, <2>2 DEF Young
  <2>4. sent' <= now' /\ now' <= sent' + Timeout
    BY <1>0, <2>1
  <2> QED
    BY Zenon, <2>1, <2>3, <2>4 DEF Times, ChainAge
<1> QED
  BY <1>3, <1>4

(* Young at a time is Young later, with so much more allowed for.          *)
LEMMA YoungLater ==
  ASSUME WaitTypeOK, NEW s \in Nat, NEW t \in Nat, NEW d \in Nat, NEW e \in Nat,
         Young(at, s, d), t + d <= s + e
  PROVE  Young(at, t, e)
<1> SUFFICES ASSUME NEW i \in 1 .. at - 1
             PROVE  t <= issued[i] + Delay(at - 1 - i) + e
  BY DEF Young
<1>1. at - 1 - i \in Nat /\ issued[i] \in Nat
  BY WaitAssumption DEF WaitAssumption, WaitTypeOK
<1>2. PICK k \in Nat : k = Delay(at - 1 - i)
  BY <1>1, DelayIs
<1>3. s <= issued[i] + k + d
  BY <1>2 DEF Young
<1>4. t <= issued[i] + k + e
  BY <1>1, <1>3
<1> QED
  BY <1>2, <1>4

LEMMA StepTimes == PollInv /\ [WaitNext]_waitVars => Times'
<1> SUFFICES ASSUME PollInv, [WaitNext]_waitVars PROVE Times'
  OBVIOUS
<1>0. WaitTypeOK /\ Times
  BY DEF PollInv
<1>a. /\ now \in Nat /\ sent \in Nat /\ deadline \in Nat /\ Timeout \in Nat /\ Wait \in Nat
      /\ Timeout + Wait \in Nat
  BY <1>0, WaitAssumption DEF WaitAssumption, WaitTypeOK
<1>1. CASE Tick
  <2>1. /\ UNCHANGED <<pc, at, issued, sent, deadline>> /\ pc # "dial"
        /\ now' = now + 1 /\ (pc \in {"post", "get"} => now < sent + Timeout)
    BY <1>1 DEF Tick, Flying, Ended
  <2>2. pc' \in {"post", "get"} => sent' <= now' /\ now' <= sent' + Timeout
    BY <1>0, <1>a, <2>1 DEF Times
  <2> QED
    BY Zenon, <1>0, <2>1, <2>2 DEF Times, ChainAge, Young
<1>2. CASE \/ \E g \in {"approved", "denied"} : resolve(g)
           \/ UNCHANGED waitVars
  <2>1. UNCHANGED <<now, pc, at, issued, sent, deadline>>
    BY <1>2 DEF resolve, waitVars
  <2> QED
    BY Zenon, <1>0, <2>1 DEF Times, ChainAge, Young
<1>3. CASE SignIntent
  <2>0. /\ pc = "post" /\ now' = now /\ sent <= now /\ now <= sent + Timeout
        /\ Young(at, sent, 0)
    BY <1>0, <1>3 DEF SignIntent, Times
  <2>1. CASE buildHops
    <3>1. sent + 0 <= sent + (Timeout + Wait)
      BY <1>a
    <3>2. Young(at, sent, Timeout + Wait)
      BY <1>0, <1>a, <2>0, <3>1, YoungLater
    <3> QED
      BY Zenon, <1>0, <2>0, <2>1, <3>2, BuildHopsTimes
  <2>2. CASE ~buildHops /\ pc' = "failed"
    BY Zenon, <2>2 DEF Times, ChainAge
  <2>3. CASE ~buildHops /\ pc' # "failed"
    <3>1. pc' = "wait" /\ deadline' = now + Wait /\ UNCHANGED <<at, issued>>
      BY Zenon, <1>3, <2>3 DEF SignIntent
    <3>2. now + Wait \in Nat /\ (now + Wait) + 0 <= sent + (Timeout + Wait)
      BY <1>a, <2>0
    <3>3. Young(at, now + Wait, Timeout + Wait)
      BY <1>0, <1>a, <2>0, <3>2, YoungLater
    <3>4. Young(at, deadline, Timeout + Wait)'
      BY Zenon, <3>1, <3>3 DEF Young
    <3> QED
      BY Zenon, <3>1, <3>4 DEF Times, ChainAge
  <2> QED
    BY Zenon, <2>1, <2>2, <2>3
<1>4. CASE pollApproval
  <2>1. CASE pc' = "failed"
    BY Zenon, <2>1 DEF Times, ChainAge
  <2>2. CASE pc' # "failed"
    <3>1. /\ pc = "wait" /\ pc' = "get" /\ sent' = now /\ ~(now > deadline)
          /\ UNCHANGED <<now, at, issued, deadline>>
      BY Zenon, <1>4, <2>2 DEF pollApproval
    <3>2. sent' <= now' /\ now' <= sent' + Timeout /\ sent' <= deadline'
      BY <1>a, <3>1
    <3> QED
      BY Zenon, <1>0, <3>1, <3>2 DEF Times, ChainAge, Young
  <2> QED
    BY <2>1, <2>2
<1>5. CASE pending \/ transientAnswer \/ refused \/ broken
  <2>1. CASE pc' = "failed"
    BY Zenon, <2>1 DEF Times, ChainAge
  <2>2. CASE pc' # "failed"
    <3>1. pc = "get" /\ pc' = "wait" /\ UNCHANGED <<now, at, issued, deadline>>
      BY Zenon, <1>5, <2>2 DEF pending, transientAnswer, refused, broken
    <3> QED
      BY Zenon, <1>0, <3>1 DEF Times, ChainAge, Young
  <2> QED
    BY <2>1, <2>2
<1>6. CASE collected
  <2>1. /\ pc = "get" /\ buildHops /\ now' = now /\ sent <= now /\ now <= sent + Timeout
        /\ sent <= deadline /\ Young(at, deadline, Timeout + Wait)
    BY <1>0, <1>6 DEF collected, Times
  <2>2. sent + (Timeout + Wait) <= deadline + (Timeout + Wait)
    BY <1>a, <2>1
  <2>3. Timeout + Wait \in Nat
    BY <1>a
  <2>4. Young(at, sent, Timeout + Wait)
    BY ZenonT(30), <1>0, <1>a, <2>1, <2>2, <2>3, YoungLater
  <2> QED
    BY Zenon, <1>0, <2>1, <2>4, BuildHopsTimes
<1> QED
  BY Zenon, <1>1, <1>2, <1>3, <1>4, <1>5, <1>6 DEF WaitNext

LEMMA StepCounts == PollInv /\ [WaitNext]_waitVars => Counts'
<1> SUFFICES ASSUME PollInv, [WaitNext]_waitVars PROVE Counts'
  OBVIOUS
<1>0. WaitTypeOK /\ Counts
  BY DEF PollInv
<1> USE <1>0, WaitAssumption DEF WaitAssumption, WaitTypeOK, Counts, GivesUpRightly
<1>1. CASE Tick
  BY <1>1 DEF Tick, Ended
<1>2. CASE \E g \in {"approved", "denied"} : resolve(g)
  BY <1>2 DEF resolve, Ended
<1>3. CASE SignIntent
  BY <1>3 DEF SignIntent, buildHops
<1>4. CASE pollApproval
  BY <1>4 DEF pollApproval
<1>5. CASE pending \/ transientAnswer \/ refused
  BY <1>5 DEF pending, transientAnswer, refused
<1>6. CASE collected
  BY <1>6 DEF collected, buildHops
<1>7. CASE broken
  BY <1>7 DEF broken, Ended
<1>8. CASE UNCHANGED waitVars
  BY <1>8 DEF waitVars
<1> QED
  BY <1>1, <1>2, <1>3, <1>4, <1>5, <1>6, <1>7, <1>8 DEF WaitNext

\* PollInv holds in every state: pollApproval's deadline bounds the age of the
\* certificates that wait, and its counter is the number of failures in a row.

THEOREM WaitInvariance == WaitSpec => []PollInv
<1>1. PollInv /\ [WaitNext]_waitVars => PollInv'
  BY WaitStepTypeOK, StepTimes, StepCounts DEF PollInv
<1> QED
  BY PollInitInv, <1>1, PTL DEF WaitSpec

\* When buildHops goes on to dial, the certificate of each hop is no older
\* than the requests, waits and polls of the hops behind it allow, for a chain
\* of any length in which any hop may wait for a human.

THEOREM ChainAgeHolds == WaitSpec => []ChainAge
<1>1. PollInv => ChainAge
  BY DEF PollInv, Times
<1> QED
  BY WaitInvariance, <1>1, PTL

\* So a certificate with a lifetime ttl longer than that delay is alive at the
\* dial; the code does not see to it that the lifetime is (ttlFor and the
\* signer's clamp know nothing of the wait).

THEOREM CertificatesOutliveWait ==
  ASSUME NEW hop \in 1 .. ChainLen, NEW ttl \in Nat, Delay(ChainLen - hop) < ttl
  PROVE  WaitSpec => [](pc = "dial" => now < issued[hop] + ttl)
<1>1. ASSUME PollInv, pc = "dial" PROVE now < issued[hop] + ttl
  <2>1. ChainLen - hop \in Nat /\ issued[hop] \in Nat /\ now \in Nat
    BY <1>1, WaitAssumption DEF WaitAssumption, PollInv, WaitTypeOK
  <2>2. PICK d \in Nat : d = Delay(ChainLen - hop)
    BY <2>1, DelayIs
  <2>3. now - issued[hop] <= d
    BY <1>1, <2>2 DEF PollInv, Times, ChainAge
  <2> QED
    BY <2>1, <2>2, <2>3
<1>2. PollInv => (pc = "dial" => now < issued[hop] + ttl)
  BY <1>1
<1> QED
  BY WaitInvariance, <1>2, PTL

\* pollApproval stops asking for a reason and does not drop a credential.

THEOREM GivesUpForAReason == WaitSpec => []GivesUpRightly
<1>1. PollInv => GivesUpRightly
  BY DEF PollInv, Counts
<1> QED
  BY WaitInvariance, <1>1, PTL

-----------------------------------------------------------------------------
(***************************************************************************)
(* An envelope runs once, for every number of hosts, shims and envelopes,  *)
(* any skew of the clocks and any validity: a nonce that sweepNonces       *)
(* deletes belongs to an envelope that no shim on the host can still       *)
(* accept.                                                                 *)
(***************************************************************************)

(* Where a shim is in time: it claims at most MaxStall after its time.Now. *)
Timely ==
  \A p \in Procs : Busy(p) => /\ shim[p].now <= HostClock(shim[p].host)
                              /\ HostClock(shim[p].host) <= shim[p].now + MaxStall

(* What VerifyAny established for a shim that goes on to claim its nonce.  *)
Verified ==
  \A p \in Procs :
    LET e == envelope[shim[p].nonce]
    IN /\ shim[p].pc = "claim" \/ p \in took => e.host = shim[p].host
       /\ shim[p].pc = "claim" => shim[p].now <= e.expiry /\ e.expiry - shim[p].now <= MaxTTL

(* The mtime of a claimed nonce is at most MaxTTL before the expiry.       *)
Stamped ==
  \A h \in Hosts, n \in Nonces : nonces[h][n] # NoTime =>
    envelope[n] # NoEnvelope /\ envelope[n].expiry - MaxTTL <= nonces[h][n]

(* A nonce that was taken is in the store of its host, or the envelope     *)
(* expired more than MaxTTL ago there.                                     *)
Burned ==
  \A p \in Procs : p \in took =>
    \/ nonces[shim[p].host][shim[p].nonce] # NoTime
    \/ HostClock(shim[p].host) > envelope[shim[p].nonce].expiry + MaxTTL

(* A shim takes its nonce when it leaves the claim, and before it execs.   *)
Claims ==
  \A p \in Procs : /\ p \in took => shim[p].pc \notin {"new", "verify", "claim"}
                   /\ shim[p].pc \in {"exec", "ran"} => p \in took

(* A nonce is taken once in the whole fleet.                               *)
TakeOnce ==
  \A p, q \in Procs : p \in took /\ q \in took /\ shim[p].nonce = shim[q].nonce => p = q

SealedInv ==
  SealedTypeOK /\ Timely /\ Verified /\ Stamped /\ Burned /\ Claims /\ TakeOnce

LEMMA ConstantTypes ==
  /\ Skews \subseteq Int /\ EnvelopeTTL \in Nat /\ MaxTTL \in Nat
  /\ MaxStall \in Nat /\ MaxStall <= MaxTTL /\ SealedTime \in Nat /\ MaxChanges \in Nat
  /\ Nonces # {} /\ Hosts # {} /\ NoEnvelope \notin Envelope
BY Zenon, SealedAssumption DEF SealedAssumption, Envelope

LEMMA ZeroIn == \A k \in Nat : k \in Int /\ 0 \in 0 .. k
OBVIOUS

LEMMA ClockTypes ==
  ASSUME SealedTypeOK, NEW h \in Hosts
  PROVE  clock \in Int /\ skew[h] \in Int /\ HostClock(h) \in Int
<1>1. clock \in Int
  BY ConstantTypes DEF SealedTypeOK
<1>2. skew[h] \in Int
  BY Zenon, ConstantTypes DEF SealedTypeOK
<1> QED
  BY <1>1, <1>2 DEF HostClock

(* An envelope was signed in the past, and before any shim was started     *)
(* for it.                                                                 *)
Dated ==
  /\ \A n \in Nonces : envelope[n] # NoEnvelope => envelope[n].expiry <= clock + EnvelopeTTL
  /\ \A p \in Procs : shim[p].pc # "new" =>
       envelope[shim[p].nonce].expiry - EnvelopeTTL <= shim[p].now - skew[shim[p].host]

Taken(h, n) == \E q \in took : shim[q].host = h /\ shim[q].nonce = n

TakenByOther(p) == \E q \in took \ {p} : shim[q].host = shim[p].host /\ shim[q].nonce = shim[p].nonce

(* A nonce is in the store of a host only since a shim there took it.      *)
Claimed == \A h \in Hosts, n \in Nonces : nonces[h][n] # NoTime => Taken(h, n)

(* What a refusal was decided on.                                          *)
RefusedOn ==
  \A p \in Procs : shim[p].pc = "refused" =>
    /\ shim[p].why = "future" => envelope[shim[p].nonce].expiry - shim[p].now > MaxTTL
    /\ shim[p].why = "expired" => shim[p].now > envelope[shim[p].nonce].expiry
    /\ shim[p].why = "replay" => TakenByOther(p)

RefusalInv == SealedInv /\ Dated /\ Claimed /\ RefusedOn

LEMMA SealedInitInv == SealedInit => SealedInv
<1> SUFFICES ASSUME SealedInit PROVE SealedInv
  OBVIOUS
<1>1. NewShim \in Shim /\ NewShim.pc = "new"
  <2>1. (CHOOSE h \in Hosts : TRUE) \in Hosts /\ (CHOOSE n \in Nonces : TRUE) \in Nonces
    BY ConstantTypes
  <2>2. 0 \in Int
    OBVIOUS
  <2> QED
    BY <2>1, <2>2, Zenon DEF NewShim, Shim
<1> USE DEF SealedInit
<1>2. SealedTypeOK
  <2>1. clock \in 0 .. SealedTime /\ changes \in 0 .. MaxChanges
    BY ZenonT(30), ConstantTypes, ZeroIn
  <2> QED
    BY ZenonT(30), <1>1, <2>1, ConstantTypes DEF SealedTypeOK
<1>3. Timely /\ Verified /\ Burned /\ Claims /\ TakeOnce
  BY <1>1 DEF Timely, Busy, Verified, Burned, Claims, TakeOnce
<1>4. Stamped
  BY DEF Stamped
<1> QED
  BY <1>2, <1>3, <1>4 DEF SealedInv

(* The facts every step needs of a shim that is past its start.            *)
LEMMA ShimFacts ==
  ASSUME SealedTypeOK, NEW p \in Procs
  PROVE  /\ shim[p] \in Shim /\ shim[p].host \in Hosts /\ shim[p].nonce \in Nonces
         /\ shim[p].now \in Int /\ HostClock(shim[p].host) \in Int
         /\ shim[p].pc # "new" => /\ envelope[shim[p].nonce] \in Envelope
                                  /\ envelope[shim[p].nonce].expiry \in Int
<1>1. /\ shim[p] \in Shim /\ shim[p].host \in Hosts /\ shim[p].nonce \in Nonces
      /\ shim[p].now \in Int
  BY Zenon DEF SealedTypeOK, Shim
<1>2. HostClock(shim[p].host) \in Int
  BY <1>1, ClockTypes
<1>3. shim[p].pc # "new" => envelope[shim[p].nonce] \in Envelope
  BY <1>1 DEF SealedTypeOK
<1> QED
  BY <1>1, <1>2, <1>3 DEF Envelope

(* A shim goes on to its next step.                                       *)
GoesOn(p, to, why) == shim' = [shim EXCEPT ![p] = [shim[p] EXCEPT !.pc = to, !.why = why]]

WentOn(p, to, why) ==
  /\ shim'[p].pc = to /\ shim'[p].why = why /\ shim'[p] \in Shim
  /\ shim'[p].host = shim[p].host /\ shim'[p].nonce = shim[p].nonce
  /\ shim'[p].now = shim[p].now
  /\ shim' \in [Procs -> Shim] /\ \A q \in Procs : q # p => shim'[q] = shim[q]

LEMMA ShimMoves ==
  ASSUME SealedTypeOK, NEW p \in Procs, NEW to \in {"claim", "exec", "ran", "refused", "killed"},
         NEW why \in {"", "signature", "host", "expired", "future", "replay", "store", "exec"},
         GoesOn(p, to, why)
  PROVE  WentOn(p, to, why)
<1> DEFINE s == [shim[p] EXCEPT !.pc = to, !.why = why]
<1>1. /\ s \in Shim /\ s.pc = to /\ s.why = why /\ s.host = shim[p].host /\ s.nonce = shim[p].nonce
      /\ s.now = shim[p].now
  <2>1. shim[p] \in Shim
    BY Zenon DEF SealedTypeOK
  <2> QED
    BY Zenon, <2>1 DEF Shim
<1>2. shim \in [Procs -> Shim]
  BY Zenon DEF SealedTypeOK
<1> HIDE DEF s
<1>3. shim' = [shim EXCEPT ![p] = s]
  BY Zenon DEF s, GoesOn
<1> QED
  BY Zenon, <1>1, <1>2, <1>3 DEF WentOn

LEMMA SignInv ==
  ASSUME SealedInv, NEW n \in Nonces, NEW h \in Hosts, Sign(n, h)
  PROVE  SealedInv'
<1> DEFINE e == [host |-> h, expiry |-> clock + EnvelopeTTL, key |-> key]
<1>0. /\ envelope[n] = NoEnvelope /\ envelope' = [envelope EXCEPT ![n] = e]
      /\ UNCHANGED <<clock, key, pinned, nonces, shim, took, changes, skew>>
  BY DEF Sign
<1>1. e \in Envelope /\ e # NoEnvelope
  BY ConstantTypes DEF SealedInv, SealedTypeOK, Envelope
<1> HIDE DEF e
<1>2. \A m \in Nonces : envelope[m] # NoEnvelope => envelope'[m] = envelope[m]
  BY Zenon, <1>0 DEF SealedInv, SealedTypeOK
<1>3. \A p \in Procs : shim[p].pc # "new" =>
         envelope'[shim[p].nonce] = envelope[shim[p].nonce]
  BY Zenon, <1>2, ShimFacts DEF SealedInv, SealedTypeOK
<1>4. SealedTypeOK'
  <2>1. envelope' \in [Nonces -> Envelope \cup {NoEnvelope}]
    BY Zenon, <1>0, <1>1 DEF SealedInv, SealedTypeOK
  <2>2. \A p \in Procs : shim[p].pc # "new" => envelope'[shim[p].nonce] # NoEnvelope
    BY Zenon, <1>3 DEF SealedInv, SealedTypeOK
  <2> QED
    BY <1>0, <2>1, <2>2 DEF SealedInv, SealedTypeOK
<1>5. Timely' /\ Claims' /\ TakeOnce'
  BY Zenon, <1>0 DEF SealedInv, Timely, Busy, HostClock, Claims, TakeOnce
<1>6. Verified' /\ Burned'
  <2>1. \A p \in Procs : shim[p].pc = "claim" \/ p \in took =>
           envelope'[shim[p].nonce] = envelope[shim[p].nonce]
    BY Zenon, <1>3 DEF SealedInv, Claims
  <2>2. Verified'
    BY Zenon, <1>0, <2>1 DEF SealedInv, Verified
  <2>3. Burned'
    BY Zenon, <1>0, <2>1 DEF SealedInv, Burned, HostClock
  <2> QED
    BY Zenon, <2>2, <2>3
<1>7. Stamped'
  BY Zenon, <1>0, <1>2 DEF SealedInv, Stamped
<1> QED
  BY <1>4, <1>5, <1>6, <1>7 DEF SealedInv

LEMMA StartInv ==
  ASSUME SealedInv, NEW p \in Procs, NEW h \in Hosts, NEW n \in Nonces, start(p, h, n)
  PROVE  SealedInv'
<1> DEFINE s == [pc |-> "verify", host |-> h, nonce |-> n, now |-> HostClock(h), why |-> ""]
<1>0. /\ envelope[n] # NoEnvelope /\ shim' = [shim EXCEPT ![p] = s]
      /\ shim[p].pc = "new" /\ UNCHANGED <<clock, key, pinned, envelope, nonces, took, changes, skew>>
  BY Zenon DEF start
<1>1. HostClock(h) \in Int /\ HostClock(h)' = HostClock(h)
  <2>1. HostClock(h) \in Int
    BY ClockTypes DEF SealedInv
  <2> QED
    BY Zenon, <1>0, <2>1 DEF HostClock
<1>2. s \in Shim /\ s.pc = "verify" /\ s.host = h /\ s.nonce = n /\ s.now = HostClock(h)
  BY <1>1 DEF Shim
<1> HIDE DEF s
<1>3. shim'[p] = s /\ \A q \in Procs : q # p => shim'[q] = shim[q]
  BY <1>0 DEF SealedInv, SealedTypeOK
<1>4. SealedTypeOK'
  BY Zenon, <1>0, <1>2, <1>3 DEF SealedInv, SealedTypeOK
<1>5. Timely'
  <2>1. ASSUME NEW q \in Procs, q # p, Busy(q)'
        PROVE  /\ shim'[q].now <= HostClock(shim[q].host)'
               /\ HostClock(shim[q].host)' <= shim'[q].now + MaxStall
    BY ZenonT(30), <1>0, <1>3, <2>1 DEF SealedInv, Timely, Busy, HostClock
  <2>2. /\ shim'[p].now <= HostClock(shim[p].host)'
        /\ HostClock(shim[p].host)' <= shim'[p].now + MaxStall
    <3>1. PICK c \in Int : c = HostClock(h)
      BY Zenon, <1>1
    <3>2. \A x \in Int, m \in Nat : x <= x /\ x <= x + m
      OBVIOUS
    <3>3. c <= c /\ c <= c + MaxStall
      BY Zenon, <3>1, <3>2, ConstantTypes
    <3> QED
      BY Zenon, <1>1, <1>2, <1>3, <3>1, <3>3
  <2> QED
    BY Zenon, <2>1, <2>2 DEF Timely
<1>6. Verified' /\ Burned' /\ Claims' /\ TakeOnce'
  <2>1. p \notin took /\ \A q \in Procs : q \in took => shim'[q] = shim[q]
    BY Zenon, <1>0, <1>3 DEF SealedInv, Claims
  <2>2. Verified'
    BY ZenonT(30), <1>0, <1>2, <1>3, <2>1 DEF SealedInv, Verified
  <2>3. Burned'
    BY ZenonT(30), <1>0, <2>1 DEF SealedInv, Burned, HostClock
  <2>4. Claims'
    BY ZenonT(30), <1>0, <1>2, <1>3, <2>1 DEF SealedInv, Claims
  <2>5. TakeOnce'
    BY ZenonT(30), <1>0, <2>1 DEF SealedInv, TakeOnce
  <2> QED
    BY Zenon, <2>2, <2>3, <2>4, <2>5
<1>7. Stamped'
  BY Zenon, <1>0 DEF SealedInv, Stamped
<1> QED
  BY <1>4, <1>5, <1>6, <1>7 DEF SealedInv

LEMMA AuthorizeInv ==
  ASSUME SealedInv, NEW p \in Procs, authorize(p)
  PROVE  SealedInv'
<1> DEFINE e == envelope[shim[p].nonce]
<1>0. /\ shim[p].pc = "verify"
      /\ UNCHANGED <<clock, key, pinned, envelope, nonces, took, changes, skew>>
  BY Zenon DEF authorize
<1>1. PICK why : /\ why = Refusal(e, shim[p].host, shim[p].now)
                 /\ shim' = [shim EXCEPT ![p].pc = IF why = "" THEN "claim" ELSE "refused",
                                         ![p].why = why]
  BY Zenon DEF authorize
<1>2. why \in {"", "signature", "host", "expired", "future"}
  BY Zenon, <1>1 DEF Refusal
<1>3. /\ shim'[p].pc = (IF why = "" THEN "claim" ELSE "refused") /\ shim'[p] \in Shim
      /\ shim'[p].host = shim[p].host /\ shim'[p].nonce = shim[p].nonce
      /\ shim'[p].now = shim[p].now
      /\ shim' \in [Procs -> Shim] /\ \A q \in Procs : q # p => shim'[q] = shim[q]
  <2> DEFINE to == IF why = "" THEN "claim" ELSE "refused"
  <2>1. GoesOn(p, to, why)
    BY Zenon, <1>1 DEF SealedInv, SealedTypeOK, GoesOn
  <2>2. /\ to \in {"claim", "exec", "ran", "refused", "killed"} /\ SealedTypeOK
        /\ why \in {"", "signature", "host", "expired", "future", "replay", "store", "exec"}
    BY Zenon, <1>2 DEF SealedInv
  <2> HIDE DEF to
  <2>3. WentOn(p, to, why)
    BY Zenon, <2>1, <2>2, ShimMoves
  <2> QED
    BY Zenon, <2>3 DEF to, WentOn
<1>4. SealedTypeOK'
  <2>1. \A q \in Procs : shim'[q].pc # "new" => envelope[shim'[q].nonce] # NoEnvelope
    BY Zenon, <1>0, <1>3 DEF SealedInv, SealedTypeOK
  <2> QED
    BY Zenon, <1>0, <1>3, <2>1 DEF SealedInv, SealedTypeOK
<1>5. Timely'
  BY Zenon, <1>0, <1>3 DEF SealedInv, Timely, Busy, HostClock
<1>6. Verified'
  <2>1. why = "" => /\ e.host = shim[p].host /\ ~(shim[p].now > e.expiry)
                    /\ ~(e.expiry - shim[p].now > MaxTTL)
    BY Zenon, <1>1 DEF Refusal
  <2>2. e.expiry \in Int /\ shim[p].now \in Int
    BY Zenon, <1>0, ShimFacts DEF SealedInv
  <2>3. why = "" => /\ e.host = shim[p].host /\ shim[p].now <= e.expiry
                    /\ e.expiry - shim[p].now <= MaxTTL
    <3>1. \A x, t, m \in Int : ~(t > x) /\ ~(x - t > m) => t <= x /\ x - t <= m
      OBVIOUS
    <3>2. MaxTTL \in Int
      BY ConstantTypes
    <3> HIDE DEF e
    <3> QED
      BY Zenon, <2>1, <2>2, <3>1, <3>2
  <2>4. ASSUME NEW q \in Procs, q # p
        PROVE  LET d == envelope[shim'[q].nonce]
               IN /\ shim'[q].pc = "claim" \/ q \in took => d.host = shim'[q].host
                  /\ shim'[q].pc = "claim" =>
                        shim'[q].now <= d.expiry /\ d.expiry - shim'[q].now <= MaxTTL
    BY Zenon, <1>3, <2>4 DEF SealedInv, Verified
  <2>5. p \notin took
    BY Zenon, <1>0 DEF SealedInv, Claims
  <2> QED
    BY Zenon, <1>0, <1>3, <2>3, <2>4, <2>5 DEF Verified
<1>7. Burned'
  BY Zenon, <1>0, <1>3 DEF SealedInv, Burned, HostClock
<1>8. Claims'
  <2>1. p \notin took
    BY Zenon, <1>0 DEF SealedInv, Claims
  <2>2. shim'[p].pc \notin {"exec", "ran"}
    BY Zenon, <1>3
  <2> QED
    BY Zenon, <1>0, <1>3, <2>1, <2>2 DEF SealedInv, Claims
<1>9. TakeOnce' /\ Stamped'
  <2>1. \A q \in Procs : shim'[q].nonce = shim[q].nonce
    BY Zenon, <1>3
  <2>2. TakeOnce'
    BY Zenon, <1>0, <2>1 DEF SealedInv, TakeOnce
  <2>3. Stamped'
    BY Zenon, <1>0 DEF SealedInv, Stamped
  <2> QED
    BY Zenon, <2>2, <2>3
<1> QED
  BY Zenon, <1>4, <1>5, <1>6, <1>7, <1>8, <1>9 DEF SealedInv

(* A claim swept at s by a shim whose host shows c was made at t, an       *)
(* acceptable time of an envelope that expires at x.                       *)
LEMMA SweptLate ==
  ASSUME NEW x \in Int, NEW t \in Int, NEW s \in Int, NEW c \in Int, NEW m \in Nat,
         s - t > 2 * m, x - m <= t, s <= c
  PROVE  c > x + m
OBVIOUS

LEMMA SweepInv ==
  ASSUME SealedInv, NEW p \in Procs, sweepNonces(p)
  PROVE  SealedInv'
<1> DEFINE h == shim[p].host
<1>0. /\ shim[p].pc = "claim" /\ Busy(p) /\ h \in Hosts
      /\ UNCHANGED <<clock, key, pinned, envelope, shim, took, changes, skew>>
  BY Zenon, ShimFacts DEF sweepNonces, SealedInv, Busy
<1>1. PICK gone \in SUBSET {n \in Nonces : Old(h, n, shim[p].now)} :
        nonces' = [nonces EXCEPT ![h] = [n \in Nonces |->
                     IF n \in gone THEN NoTime ELSE nonces[h][n]]]
  BY Zenon DEF sweepNonces
<1>2. \A g \in Hosts, n \in Nonces :
         \/ nonces'[g][n] = nonces[g][n]
         \/ nonces'[g][n] = NoTime /\ g = h /\ Old(h, n, shim[p].now)
  BY Zenon, <1>0, <1>1 DEF SealedInv, SealedTypeOK
<1>3. nonces' \in [Hosts -> [Nonces -> Int \cup {NoTime}]]
  BY <1>0, <1>1 DEF SealedInv, SealedTypeOK
<1>4. SealedTypeOK'
  BY ZenonT(30), <1>0, <1>3 DEF SealedInv, SealedTypeOK
<1>5. Timely' /\ Verified' /\ Claims' /\ TakeOnce'
  BY Zenon, <1>0 DEF SealedInv, Timely, Busy, HostClock, Verified, Claims, TakeOnce
<1>6. Stamped'
  BY ZenonT(30), <1>0, <1>2 DEF SealedInv, Stamped
<1>7. Burned'
  <2> SUFFICES ASSUME NEW q \in Procs, q \in took,
                      nonces'[shim[q].host][shim[q].nonce] = NoTime
               PROVE  HostClock(shim[q].host) > envelope[shim[q].nonce].expiry + MaxTTL
    BY Zenon, <1>0 DEF Burned, HostClock
  <2> DEFINE n == shim[q].nonce
             x == envelope[n].expiry
             t == nonces[h][n]
  <2>0. /\ shim[q].host \in Hosts /\ n \in Nonces /\ x \in Int
        /\ shim[p].now \in Int /\ HostClock(h) \in Int
    BY Zenon, ShimFacts DEF SealedInv, Claims
  <2>1. CASE nonces[shim[q].host][n] = NoTime
    BY Zenon, <2>1 DEF SealedInv, Burned
  <2>2. CASE nonces[shim[q].host][n] # NoTime
    <3>1. shim[q].host = h /\ t # NoTime /\ shim[p].now - t > 2 * MaxTTL
      BY ZenonT(30), <1>2, <2>0, <2>2 DEF Old
    <3>2. t \in Int
      <4>1. h \in Hosts /\ nonces \in [Hosts -> [Nonces -> Int \cup {NoTime}]]
        BY Zenon, <1>0 DEF SealedInv, SealedTypeOK
      <4>2. nonces[h] \in [Nonces -> Int \cup {NoTime}]
        BY Zenon, <4>1
      <4>3. t \in Int \cup {NoTime}
        BY Zenon, <2>0, <4>2
      <4> QED
        BY Zenon, <3>1, <4>3
    <3>3. x - MaxTTL <= t
      BY Zenon, <1>0, <2>0, <3>1 DEF SealedInv, Stamped
    <3>4. shim[p].now <= HostClock(h)
      BY Zenon, <1>0 DEF SealedInv, Timely
    <3> HIDE DEF x, t, h
    <3>5. HostClock(h) > x + MaxTTL
      BY Zenon, <2>0, <3>1, <3>2, <3>3, <3>4, ConstantTypes, SweptLate
    <3> QED
      BY Zenon, <3>1, <3>5 DEF x
  <2> QED
    BY Zenon, <2>1, <2>2
<1> QED
  BY Zenon, <1>4, <1>5, <1>6, <1>7 DEF SealedInv

(* What the exclusive create does to the stores.                           *)
LEMMA StoreStep ==
  ASSUME NEW f \in [Hosts -> [Nonces -> Int \cup {NoTime}]],
         NEW h \in Hosts, NEW n \in Nonces, NEW c \in Int,
         NEW g, g = [f EXCEPT ![h][n] = c]
  PROVE  /\ g \in [Hosts -> [Nonces -> Int \cup {NoTime}]]
         /\ \A k \in Hosts, m \in Nonces :
               g[k][m] = f[k][m] \/ (g[k][m] = c /\ k = h /\ m = n)
         /\ g[h][n] = c
OBVIOUS

(* A shim with time t claims at c, at most s later, an envelope that       *)
(* expires at e, at most m after t.                                        *)
LEMMA ClaimedInTime ==
  ASSUME NEW e \in Int, NEW t \in Int, NEW c \in Int, NEW m \in Nat, NEW s \in Nat,
         t <= c, c <= t + s, t <= e, e - t <= m, s <= m
  PROVE  e - m <= c /\ ~(c > e + m)
OBVIOUS

(* What the exclusive create decides.                                      *)
LEMMA ClaimStep ==
  ASSUME SealedInv, NEW p \in Procs, NEW fails \in StoreFails, claimNonce(p, fails)
  PROVE  /\ shim[p].pc = "claim" /\ shim'[p].pc \in {"exec", "refused"}
         /\ shim'[p].host = shim[p].host /\ shim'[p].nonce = shim[p].nonce
         /\ shim'[p].now = shim[p].now
         /\ shim' \in [Procs -> Shim] /\ \A q \in Procs : q # p => shim'[q] = shim[q]
         /\ shim'[p].why \notin {"future", "expired"}
         /\ shim'[p].why = "replay" => nonces[shim[p].host][shim[p].nonce] # NoTime
         /\ shim'[p].pc = "exec" => p \in took'
         /\ \/ took' = took /\ nonces' = nonces
            \/ /\ took' = took \cup {p} /\ nonces[shim[p].host][shim[p].nonce] = NoTime
               /\ nonces' = [nonces EXCEPT ![shim[p].host][shim[p].nonce] =
                                             HostClock(shim[p].host)]
<1> DEFINE h == shim[p].host
           n == shim[p].nonce
<1>1. PICK takes : takes = (fails # "open" /\ nonces[h][n] = NoTime)
  BY Zenon
<1>2. PICK why :
        /\ why = IF fails = "open" \/ (takes /\ fails = "close") THEN "store"
                 ELSE IF takes THEN "" ELSE "replay"
        /\ nonces' = IF takes THEN [nonces EXCEPT ![h][n] = HostClock(h)] ELSE nonces
        /\ took' = IF takes THEN took \cup {p} ELSE took
        /\ shim' = [shim EXCEPT ![p].pc = IF why = "" THEN "exec" ELSE "refused",
                                ![p].why = why]
  BY Zenon, <1>1 DEF claimNonce
<1>3. /\ why \in {"", "store", "replay"} /\ (why = "" => takes)
      /\ why = "replay" => nonces[h][n] # NoTime
  BY <1>1, <1>2, Zenon
<1>4. why \notin {"future", "expired"}
  <2>1. why = "" \/ why = "store" \/ why = "replay"
    BY <1>3, Zenon
  <2> QED
    BY <2>1, Zenon
<1>5. \/ took' = took /\ nonces' = nonces
      \/ /\ took' = took \cup {p} /\ nonces[h][n] = NoTime
         /\ nonces' = [nonces EXCEPT ![h][n] = HostClock(h)]
  BY Zenon, <1>1, <1>2
<1>6. why = "" => p \in took'
  BY Zenon, <1>2, <1>3
<1> DEFINE to == IF why = "" THEN "exec" ELSE "refused"
<1>7. GoesOn(p, to, why)
  BY <1>2, Zenon DEF SealedInv, SealedTypeOK, GoesOn
<1>8. /\ to \in {"claim", "exec", "ran", "refused", "killed"} /\ SealedTypeOK
      /\ why \in {"", "signature", "host", "expired", "future", "replay", "store", "exec"}
      /\ to \in {"exec", "refused"} /\ (to = "exec" => why = "")
  <2>1. why = "" \/ why = "store" \/ why = "replay"
    BY <1>3, Zenon
  <2>2. (why = "" /\ to = "exec") \/ (why # "" /\ to = "refused")
    BY Zenon
  <2> HIDE DEF to
  <2> QED
    BY Zenon, <2>1, <2>2 DEF SealedInv
<1> HIDE DEF to
<1>9. WentOn(p, to, why)
  BY <1>7, <1>8, ShimMoves, Zenon
<1>10. shim[p].pc = "claim"
  BY Zenon DEF claimNonce
<1> HIDE DEF h, n
<1>11. /\ shim'[p].pc = to /\ shim'[p].why = why
       /\ shim'[p].host = shim[p].host /\ shim'[p].nonce = shim[p].nonce
       /\ shim'[p].now = shim[p].now
       /\ shim' \in [Procs -> Shim] /\ \A q \in Procs : q # p => shim'[q] = shim[q]
  BY Zenon, <1>9 DEF WentOn
<1>12. /\ shim'[p].pc \in {"exec", "refused"} /\ (shim'[p].pc = "exec" => p \in took')
       /\ shim'[p].why \notin {"future", "expired"}
       /\ shim'[p].why = "replay" => nonces[h][n] # NoTime
  BY Zenon, <1>3, <1>4, <1>6, <1>8, <1>11
<1> QED
  BY ZenonT(30), <1>5, <1>10, <1>11, <1>12 DEF h, n

(* What a claim leaves in the stores.                                      *)
LEMMA ClaimStores ==
  ASSUME SealedInv, NEW p \in Procs, NEW fails \in StoreFails, claimNonce(p, fails)
  PROVE  /\ nonces' \in [Hosts -> [Nonces -> Int \cup {NoTime}]]
         /\ \A g \in Hosts, m \in Nonces :
               \/ nonces'[g][m] = nonces[g][m]
               \/ /\ nonces'[g][m] = HostClock(shim[p].host) /\ p \in took'
                  /\ g = shim[p].host /\ m = shim[p].nonce
         /\ \/ p \notin took' \/ p \in took
            \/ nonces'[shim[p].host][shim[p].nonce] = HostClock(shim[p].host)
<1> DEFINE h == shim[p].host
           n == shim[p].nonce
<1>1. nonces \in [Hosts -> [Nonces -> Int \cup {NoTime}]]
  BY Zenon DEF SealedInv, SealedTypeOK
<1>2. h \in Hosts /\ n \in Nonces /\ HostClock(h) \in Int
  BY Zenon, ShimFacts DEF claimNonce, SealedInv, Busy
<1>3. PICK c \in Int : c = HostClock(h)
  BY Zenon, <1>2
<1>4. \/ took' = took /\ nonces' = nonces
      \/ took' = took \cup {p} /\ nonces' = [nonces EXCEPT ![h][n] = c]
  BY Zenon, <1>3, ClaimStep
<1> SUFFICES /\ nonces' \in [Hosts -> [Nonces -> Int \cup {NoTime}]]
             /\ \A g \in Hosts, m \in Nonces :
                   \/ nonces'[g][m] = nonces[g][m]
                   \/ nonces'[g][m] = c /\ g = h /\ m = n /\ p \in took'
             /\ p \in took' => p \in took \/ nonces'[h][n] = c
  BY Zenon, <1>3
<1> HIDE DEF h, n
<1>5. CASE took' = took /\ nonces' = nonces
  BY Zenon, <1>1, <1>5
<1>6. CASE took' = took \cup {p} /\ nonces' = [nonces EXCEPT ![h][n] = c]
  <2>1. PICK f \in [Hosts -> [Nonces -> Int \cup {NoTime}]] : f = nonces
    BY Zenon, <1>1
  <2>2. PICK g : g = nonces'
    OBVIOUS
  <2>3. g = [f EXCEPT ![h][n] = c]
    BY Zenon, <1>6, <2>1, <2>2
  <2>4. /\ g \in [Hosts -> [Nonces -> Int \cup {NoTime}]]
        /\ \A k \in Hosts, m \in Nonces :
              g[k][m] = f[k][m] \/ (g[k][m] = c /\ k = h /\ m = n)
        /\ g[h][n] = c
    BY <1>2, <2>3, StoreStep
  <2>5. p \in took'
    BY Zenon, <1>6
  <2> QED
    BY Zenon, <2>1, <2>2, <2>4, <2>5
<1> QED
  BY Zenon, <1>4, <1>5, <1>6

(* The exclusive create: a second claim of a nonce finds it in the store,  *)
(* for while the envelope is acceptable its nonce is not swept.            *)
LEMMA ClaimInv ==
  ASSUME SealedInv, NEW p \in Procs, NEW fails \in StoreFails, claimNonce(p, fails)
  PROVE  SealedInv'
<1> DEFINE h == shim[p].host
           n == shim[p].nonce
           x == envelope[n].expiry
<1>0. /\ shim[p].pc = "claim" /\ Busy(p) /\ h \in Hosts /\ n \in Nonces
      /\ x \in Int /\ shim[p].now \in Int /\ HostClock(h) \in Int
      /\ UNCHANGED <<clock, key, pinned, envelope, changes, skew>>
  BY Zenon, ShimFacts DEF claimNonce, SealedInv, Busy
<1>1. /\ shim'[p].pc \in {"exec", "refused"} /\ (shim'[p].pc = "exec" => p \in took')
      /\ shim'[p].host = h /\ shim'[p].nonce = n
      /\ shim' \in [Procs -> Shim] /\ \A q \in Procs : q # p => shim'[q] = shim[q]
  BY Zenon, ClaimStep
<1>2. \/ took' = took /\ nonces' = nonces
      \/ /\ took' = took \cup {p} /\ nonces[h][n] = NoTime
         /\ nonces' = [nonces EXCEPT ![h][n] = HostClock(h)]
  BY Zenon, ClaimStep
<1>3. /\ nonces' \in [Hosts -> [Nonces -> Int \cup {NoTime}]]
      /\ \A g \in Hosts, m \in Nonces :
            \/ nonces'[g][m] = nonces[g][m]
            \/ nonces'[g][m] = HostClock(h) /\ g = h /\ m = n
      /\ p \in took' => p \in took \/ nonces'[h][n] = HostClock(h)
  <2>1. nonces' \in [Hosts -> [Nonces -> Int \cup {NoTime}]]
    BY Zenon, ClaimStores
  <2>2. \A g \in Hosts, m \in Nonces :
           \/ nonces'[g][m] = nonces[g][m]
           \/ /\ nonces'[g][m] = HostClock(h) /\ p \in took'
              /\ g = h /\ m = n
    BY Zenon, ClaimStores
  <2>3. p \notin took' \/ p \in took \/ nonces'[h][n] = HostClock(h)
    BY Zenon, ClaimStores
  <2> QED
    BY Zenon, <2>1, <2>2, <2>3
<1>4. /\ took' \in SUBSET Procs /\ took \subseteq took' /\ p \notin took
      /\ \A q \in Procs : q \in took' => q \in took \/ q = p
      /\ p \in took' => nonces[h][n] = NoTime
  BY Zenon, <1>0, <1>2 DEF SealedInv, SealedTypeOK, Claims
<1>5. shim[p].now <= HostClock(h) /\ HostClock(h) <= shim[p].now + MaxStall
  BY Zenon, <1>0 DEF SealedInv, Timely
<1>6. envelope[n].host = h /\ shim[p].now <= x /\ x - shim[p].now <= MaxTTL
  BY Zenon, <1>0 DEF SealedInv, Verified
<1>7. x - MaxTTL <= HostClock(h) /\ ~(HostClock(h) > x + MaxTTL)
  <2> HIDE DEF x, h
  <2> QED
    BY Zenon, <1>0, <1>5, <1>6, ConstantTypes, ClaimedInTime
<1>8. SealedTypeOK'
  <2>1. \A q \in Procs : shim'[q].pc # "new" => envelope[shim'[q].nonce] # NoEnvelope
    BY Zenon, <1>0, <1>1 DEF SealedInv, SealedTypeOK
  <2> QED
    BY Zenon, <1>0, <1>1, <1>3, <1>4, <2>1 DEF SealedInv, SealedTypeOK
<1>9. Timely'
  <2>1. shim'[p].pc \notin {"verify", "claim"}
    <3>1. shim'[p].pc = "exec" \/ shim'[p].pc = "refused"
      BY Zenon, <1>1
    <3> QED
      BY Zenon, <3>1
  <2> QED
    BY Zenon, <1>0, <1>1, <2>1 DEF SealedInv, Timely, Busy, HostClock
<1>10. Verified'
  <2>1. ASSUME NEW q \in Procs, q # p
        PROVE  LET d == envelope[shim'[q].nonce]
               IN /\ shim'[q].pc = "claim" \/ q \in took' => d.host = shim'[q].host
                  /\ shim'[q].pc = "claim" =>
                        shim'[q].now <= d.expiry /\ d.expiry - shim'[q].now <= MaxTTL
    BY Zenon, <1>1, <1>4, <2>1 DEF SealedInv, Verified
  <2>2. shim'[p].pc # "claim" /\ envelope[shim'[p].nonce].host = shim'[p].host
    <3>1. shim'[p].pc = "exec" \/ shim'[p].pc = "refused"
      BY Zenon, <1>1
    <3> QED
      BY Zenon, <1>1, <1>6, <3>1
  <2> QED
    BY Zenon, <1>0, <2>1, <2>2 DEF Verified
<1>11. Stamped'
  <2>1. envelope[n] # NoEnvelope
    BY Zenon, <1>0 DEF SealedInv, SealedTypeOK
  <2>2. ASSUME NEW g \in Hosts, NEW m \in Nonces, nonces'[g][m] # NoTime
        PROVE  envelope[m] # NoEnvelope /\ envelope[m].expiry - MaxTTL <= nonces'[g][m]
    <3>1. CASE nonces'[g][m] = nonces[g][m]
      BY Zenon, <2>2, <3>1 DEF SealedInv, Stamped
    <3>2. CASE nonces'[g][m] = HostClock(h) /\ g = h /\ m = n
      BY Zenon, <1>7, <2>1, <3>2
    <3> QED
      BY Zenon, <1>3, <3>1, <3>2
  <2> QED
    BY Zenon, <1>0, <2>2 DEF Stamped
<1>12. Burned'
  <2>1. NoTime \notin Int
    BY Zenon, SealedAssumption DEF SealedAssumption
  <2>2. \A g \in Hosts, m \in Nonces : nonces[g][m] # NoTime => nonces'[g][m] # NoTime
    BY Zenon, <1>0, <1>3, <2>1
  <2>3. ASSUME NEW q \in Procs, q # p, q \in took'
        PROVE  \/ nonces'[shim'[q].host][shim'[q].nonce] # NoTime
               \/ HostClock(shim'[q].host) > envelope[shim'[q].nonce].expiry + MaxTTL
    BY ZenonT(30), <1>1, <1>4, <2>2, <2>3, ShimFacts DEF SealedInv, Burned
  <2>4. p \in took' => nonces'[shim'[p].host][shim'[p].nonce] # NoTime
    BY Zenon, <1>0, <1>1, <1>3, <1>4, <2>1
  <2> QED
    BY Zenon, <1>0, <2>3, <2>4 DEF Burned, HostClock
<1>13. Claims'
  <2>1. shim'[p].pc = "exec" \/ shim'[p].pc = "refused"
    BY Zenon, <1>1
  <2>2. /\ shim'[p].pc \notin {"new", "verify", "claim"}
        /\ shim'[p].pc \in {"exec", "ran"} => p \in took'
    BY Zenon, <1>1, <2>1
  <2> QED
    BY Zenon, <1>1, <1>4, <2>2 DEF SealedInv, Claims
<1>14. TakeOnce'
  <2>1. ASSUME NEW q \in Procs, q \in took, shim[q].nonce = n, p \in took'
        PROVE  FALSE
    <3>1. shim[q].host = h
      BY Zenon, <1>6, <2>1 DEF SealedInv, Verified
    <3>2. nonces[h][n] = NoTime
      BY Zenon, <1>4, <2>1
    <3> QED
      BY Zenon, <1>7, <2>1, <3>1, <3>2 DEF SealedInv, Burned
  <2> SUFFICES ASSUME NEW q \in Procs, NEW r \in Procs, q # r, q \in took',
                      r \in took', shim'[q].nonce = shim'[r].nonce
               PROVE  FALSE
    BY Zenon DEF TakeOnce
  <2>2. CASE q # p /\ r # p
    BY Zenon, <1>1, <1>4, <2>2 DEF SealedInv, TakeOnce
  <2>3. CASE q = p
    BY Zenon, <1>1, <1>4, <2>1, <2>3
  <2>4. CASE r = p
    BY Zenon, <1>1, <1>4, <2>1, <2>4
  <2> QED
    BY Zenon, <2>2, <2>3, <2>4
<1> QED
  BY Zenon, <1>8, <1>9, <1>10, <1>11, <1>12, <1>13, <1>14 DEF SealedInv

(* How exec and kill end a shim.                                           *)
EndsAs(p, to) ==
  /\ shim[p].pc # "new" /\ to \in {"ran", "refused", "killed"}
  /\ to = "ran" => shim[p].pc = "exec"
  /\ shim'[p].pc = to
  /\ shim'[p].why \notin {"future", "expired", "replay"} \/ to = "killed"
  /\ shim'[p].host = shim[p].host /\ shim'[p].nonce = shim[p].nonce
  /\ shim'[p].now = shim[p].now
  /\ shim' \in [Procs -> Shim] /\ \A q \in Procs : q # p => shim'[q] = shim[q]
  /\ UNCHANGED <<clock, key, pinned, envelope, nonces, took, changes, skew>>

LEMMA ExecEnds ==
  ASSUME SealedInv, NEW p \in Procs, NEW fails \in BOOLEAN, exec(p, fails)
  PROVE  \E to : EndsAs(p, to)
<1> DEFINE to == IF fails THEN "refused" ELSE "ran"
           why == IF fails THEN "exec" ELSE ""
<1>1. /\ shim[p].pc = "exec" /\ UNCHANGED <<clock, key, pinned, envelope, nonces, took, changes, skew>>
      /\ GoesOn(p, to, why)
  BY Zenon DEF exec, SealedInv, SealedTypeOK, GoesOn
<1>2. /\ to \in {"claim", "exec", "ran", "refused", "killed"} /\ SealedTypeOK
      /\ why \in {"", "signature", "host", "expired", "future", "replay", "store", "exec"}
      /\ to \in {"ran", "refused", "killed"} /\ why \notin {"future", "expired", "replay"}
  BY Zenon DEF SealedInv
<1> HIDE DEF to, why
<1>3. WentOn(p, to, why)
  BY Zenon, <1>1, <1>2, ShimMoves
<1>4. EndsAs(p, to)
  BY Zenon, <1>1, <1>2, <1>3 DEF WentOn, EndsAs
<1> QED
  BY Zenon, <1>4

LEMMA KillEnds ==
  ASSUME SealedInv, NEW p \in Procs, kill(p)
  PROVE  \E to : EndsAs(p, to)
<1>1. /\ shim[p].pc # "new" /\ UNCHANGED <<clock, key, pinned, envelope, nonces, took, changes, skew>>
      /\ shim' = [shim EXCEPT ![p].pc = "killed"]
  BY Zenon DEF kill
<1>2. /\ shim \in [Procs -> Shim] /\ SealedTypeOK
      /\ shim[p].why \in {"", "signature", "host", "expired", "future", "replay", "store", "exec"}
  BY Zenon DEF SealedInv, SealedTypeOK, Shim
<1>3. GoesOn(p, "killed", shim[p].why)
  <2>1. shim[p] \in Shim
    BY Zenon, <1>2
  <2>2. [shim[p] EXCEPT !.pc = "killed"] = [shim[p] EXCEPT !.pc = "killed", !.why = shim[p].why]
    BY Zenon, <2>1 DEF Shim
  <2> QED
    BY Zenon, <1>1, <1>2, <2>2 DEF GoesOn
<1>4. WentOn(p, "killed", shim[p].why)
  BY Zenon, <1>2, <1>3, ShimMoves
<1>5. EndsAs(p, "killed")
  BY Zenon, <1>1, <1>4 DEF WentOn, EndsAs
<1> QED
  BY Zenon, <1>5

LEMMA EndsInv ==
  ASSUME SealedInv, NEW p \in Procs, NEW to, EndsAs(p, to)
  PROVE  SealedInv'
<1>1. /\ shim[p].pc # "new" /\ to \in {"ran", "refused", "killed"} /\ shim'[p].pc = to
      /\ to = "ran" => shim[p].pc = "exec"
      /\ shim'[p].host = shim[p].host /\ shim'[p].nonce = shim[p].nonce
      /\ shim' \in [Procs -> Shim] /\ \A q \in Procs : q # p => shim'[q] = shim[q]
      /\ UNCHANGED <<clock, key, pinned, envelope, nonces, took, changes, skew>>
  BY Zenon DEF EndsAs
<1>2. \A q \in Procs : /\ shim'[q].host = shim[q].host /\ shim'[q].nonce = shim[q].nonce
                       /\ shim'[q] = shim[q] \/ (q = p /\ shim'[q].pc = to)
  BY Zenon, <1>1
<1>3. to \notin {"new", "verify", "claim", "exec"}
  BY Zenon, <1>1
<1>4. SealedTypeOK'
  <2>1. \A q \in Procs : shim'[q].pc # "new" => envelope[shim'[q].nonce] # NoEnvelope
    BY Zenon, <1>1, <1>2 DEF SealedInv, SealedTypeOK
  <2> QED
    BY Zenon, <1>1, <2>1 DEF SealedInv, SealedTypeOK
<1>5. Timely'
  BY Zenon, <1>1, <1>2, <1>3 DEF SealedInv, Timely, Busy, HostClock
<1>6. Verified'
  BY Zenon, <1>1, <1>2, <1>3 DEF SealedInv, Verified
<1>7. Stamped' /\ Burned' /\ TakeOnce'
  <2>1. Stamped'
    BY Zenon, <1>1 DEF SealedInv, Stamped
  <2>2. Burned'
    BY Zenon, <1>1, <1>2 DEF SealedInv, Burned, HostClock
  <2>3. TakeOnce'
    <3>1. /\ took' = took /\ \A q \in Procs : shim'[q].nonce = shim[q].nonce
      BY Zenon, <1>1, <1>2
    <3> QED
      BY Zenon, <3>1 DEF SealedInv, TakeOnce
  <2> QED
    BY Zenon, <2>1, <2>2, <2>3
<1>8. Claims'
  BY Zenon, <1>1, <1>2, <1>3 DEF SealedInv, Claims
<1> QED
  BY Zenon, <1>4, <1>5, <1>6, <1>7, <1>8 DEF SealedInv

LEMMA TickInv ==
  ASSUME SealedInv, SealedTick
  PROVE  SealedInv'
<1>0. /\ clock < SealedTime /\ clock' = clock + 1 /\ clock \in Nat /\ SealedTime \in Nat
      /\ UNCHANGED <<key, pinned, envelope, nonces, shim, took, changes, skew>>
  BY ConstantTypes DEF SealedTick, SealedInv, SealedTypeOK
<1>1. \A h \in Hosts : HostClock(h) \in Int /\ HostClock(h)' = HostClock(h) + 1
  <2>1. ASSUME NEW h \in Hosts PROVE HostClock(h) \in Int /\ HostClock(h)' = HostClock(h) + 1
    <3>1. skew[h] \in Int /\ skew'[h] = skew[h]
      BY Zenon, <1>0, ClockTypes DEF SealedInv
    <3> QED
      BY <1>0, <3>1 DEF HostClock
  <2> QED
    BY <2>1
<1>2. SealedTypeOK'
  <2>1. clock' \in 0..SealedTime
    BY SMTT(20), <1>0
  <2> QED
    BY <1>0, <2>1 DEF SealedInv, SealedTypeOK
<1>3. Timely'
  <2> SUFFICES ASSUME NEW p \in Procs, Busy(p)
               PROVE  /\ shim[p].now <= HostClock(shim[p].host)'
                      /\ HostClock(shim[p].host)' <= shim[p].now + MaxStall
    BY ZenonT(30), <1>0 DEF Timely, Busy
  <2>1. /\ HostClock(shim[p].host) - shim[p].now < MaxStall
        /\ shim[p].now <= HostClock(shim[p].host)
    BY DEF SealedTick, SealedInv, Timely
  <2>2. HostClock(shim[p].host)' = HostClock(shim[p].host) + 1
    BY Zenon, <1>0, <1>1, ShimFacts DEF SealedInv
  <2>3. HostClock(shim[p].host) \in Int /\ shim[p].now \in Int
    BY Zenon, ShimFacts DEF SealedInv
  <2> QED
    BY <2>1, <2>2, <2>3, ConstantTypes
<1>4. Verified' /\ Stamped' /\ Claims' /\ TakeOnce'
  BY ZenonT(30), <1>0 DEF SealedInv, Verified, Stamped, Claims, TakeOnce
<1>5. Burned'
  <2> SUFFICES ASSUME NEW p \in Procs, p \in took,
                      nonces[shim[p].host][shim[p].nonce] = NoTime
               PROVE  HostClock(shim[p].host)' > envelope[shim[p].nonce].expiry + MaxTTL
    BY Zenon, <1>0 DEF Burned
  <2>1. HostClock(shim[p].host) > envelope[shim[p].nonce].expiry + MaxTTL
    BY Zenon DEF SealedInv, Burned
  <2>2. HostClock(shim[p].host)' = HostClock(shim[p].host) + 1
    BY Zenon, <1>0, <1>1, ShimFacts DEF SealedInv
  <2>3. HostClock(shim[p].host) \in Int /\ envelope[shim[p].nonce].expiry \in Int
    BY Zenon, ShimFacts DEF SealedInv, Claims
  <2> QED
    BY SMTT(20), <2>1, <2>2, <2>3, ConstantTypes
<1> QED
  BY ZenonT(30), <1>2, <1>3, <1>4, <1>5 DEF SealedInv

LEMMA KeyInv ==
  ASSUME SealedInv,
         (\E h \in Hosts, k \in Keys : Pin(h, k)) \/ (\E k \in Keys : Rotate(k))
  PROVE  SealedInv'
<1>0. /\ UNCHANGED <<clock, envelope, nonces, shim, took, skew>>
      /\ changes < MaxChanges /\ changes' = changes + 1 /\ changes \in 0..MaxChanges
  BY Zenon DEF Pin, Rotate, SealedInv, SealedTypeOK
<1>1. key' \in Keys /\ pinned' \in [Hosts -> SUBSET Keys]
  BY DEF Pin, Rotate, SealedInv, SealedTypeOK
<1>2. changes' \in 0..MaxChanges
  BY <1>0, ConstantTypes
<1>3. SealedTypeOK'
  BY Zenon, <1>0, <1>1, <1>2 DEF SealedInv, SealedTypeOK
<1>4. Timely' /\ Verified' /\ Stamped' /\ Burned' /\ Claims' /\ TakeOnce'
  BY Zenon, <1>0 DEF SealedInv, Timely, Busy, HostClock, Verified, Stamped, Burned, Claims,
     TakeOnce
<1> QED
  BY Zenon, <1>3, <1>4 DEF SealedInv

LEMMA SealedNextInv == SealedInv /\ [SealedNext]_sealedVars => SealedInv'
<1> SUFFICES ASSUME SealedInv, [SealedNext]_sealedVars PROVE SealedInv'
  OBVIOUS
<1>1. CASE UNCHANGED sealedVars
  BY Zenon, <1>1 DEF sealedVars, SealedInv, SealedTypeOK, Timely, Busy, HostClock, Verified,
     Stamped, Burned, Claims, TakeOnce
<1>2. CASE \E p \in Procs, fails \in BOOLEAN : exec(p, fails)
  BY Zenon, <1>2, ExecEnds, EndsInv
<1>3. CASE \E p \in Procs : kill(p)
  BY Zenon, <1>3, KillEnds, EndsInv
<1> QED
  BY Zenon, <1>1, <1>2, <1>3, SignInv, StartInv, AuthorizeInv, SweepInv, ClaimInv, TickInv,
     KeyInv DEF SealedNext

(* An envelope runs its command once in the whole fleet, whatever the      *)
(* clocks of the hosts show, provided that no shim takes longer than       *)
(* MaxTTL from its time.Now to its claim (claimNonce, sweepNonces,         *)
(* VerifyAny).                                                             *)
THEOREM RunOnceHolds == SealedSpec => []RunOnce
<1>1. SealedInv => RunOnce
  BY Zenon DEF SealedInv, Claims, TakeOnce, RunOnce
<1> QED
  BY <1>1, SealedInitInv, SealedNextInv, PTL DEF SealedSpec

-----------------------------------------------------------------------------
(* Refusals *)

LEMMA RefusalInit == SealedInit => RefusalInv
<1> SUFFICES ASSUME SealedInit PROVE RefusalInv
  OBVIOUS
<1>1. \A p \in Procs : shim[p].pc = "new"
  BY Zenon DEF SealedInit, NewShim
<1>2. /\ \A n \in Nonces : envelope[n] = NoEnvelope
      /\ \A h \in Hosts, n \in Nonces : nonces[h][n] = NoTime
  BY DEF SealedInit
<1> QED
  BY Zenon, <1>1, <1>2, SealedInitInv DEF RefusalInv, Dated, Claimed, RefusedOn

(* What VerifyAny decides for a shim.                                      *)
LEMMA AuthorizeStep ==
  ASSUME SealedInv, NEW p \in Procs, authorize(p)
  PROVE  /\ shim[p].pc = "verify" /\ shim'[p].pc \in {"claim", "refused"}
         /\ shim'[p].host = shim[p].host /\ shim'[p].nonce = shim[p].nonce
         /\ shim'[p].now = shim[p].now
         /\ \A q \in Procs : q # p => shim'[q] = shim[q]
         /\ shim'[p].why = "future" => envelope[shim[p].nonce].expiry - shim[p].now > MaxTTL
         /\ shim'[p].why = "expired" => shim[p].now > envelope[shim[p].nonce].expiry
         /\ shim'[p].why # "replay"
<1> DEFINE e == envelope[shim[p].nonce]
<1>1. PICK why : /\ why = Refusal(e, shim[p].host, shim[p].now)
                 /\ shim' = [shim EXCEPT ![p].pc = IF why = "" THEN "claim" ELSE "refused",
                                         ![p].why = why]
  BY Zenon DEF authorize
<1>2. /\ why \in {"", "signature", "host", "expired", "future"}
      /\ why = "future" => e.expiry - shim[p].now > MaxTTL
      /\ why = "expired" => shim[p].now > e.expiry
  BY <1>1, Zenon DEF Refusal
<1>3. why # "replay"
  BY <1>2, Zenon
<1> DEFINE to == IF why = "" THEN "claim" ELSE "refused"
<1>4. GoesOn(p, to, why)
  BY <1>1, Zenon DEF SealedInv, SealedTypeOK, GoesOn
<1>5. /\ to \in {"claim", "refused"} /\ SealedTypeOK
      /\ to \in {"claim", "exec", "ran", "refused", "killed"}
      /\ why \in {"", "signature", "host", "expired", "future", "replay", "store", "exec"}
  BY <1>2, Zenon DEF SealedInv
<1> HIDE DEF to, e
<1>6. WentOn(p, to, why)
  BY <1>4, <1>5, ShimMoves, Zenon
<1>7. to \in {"claim", "refused"} /\ shim[p].pc = "verify"
  BY Zenon, <1>5 DEF authorize
<1> QED
  BY <1>2, <1>3, <1>6, <1>7, Zenon DEF WentOn, e

(* A step of one shim that leaves the envelopes and the time alone.        *)
LEMMA ShimStepRefusal ==
  ASSUME RefusalInv, SealedInv', NEW p \in Procs, UNCHANGED <<clock, envelope, skew>>,
         shim[p].pc # "new", took' = took \/ took' = took \cup {p},
         shim'[p].host = shim[p].host, shim'[p].nonce = shim[p].nonce,
         shim'[p].now = shim[p].now,
         \A q \in Procs : q # p => shim'[q] = shim[q],
         \A h \in Hosts, n \in Nonces :
           \/ nonces'[h][n] = nonces[h][n]
           \/ nonces'[h][n] = NoTime
           \/ h = shim[p].host /\ n = shim[p].nonce /\ p \in took',
         shim'[p].pc = "refused" =>
           /\ shim'[p].why = "future" => envelope[shim[p].nonce].expiry - shim[p].now > MaxTTL
           /\ shim'[p].why = "expired" => shim[p].now > envelope[shim[p].nonce].expiry
           /\ shim'[p].why = "replay" => TakenByOther(p)
  PROVE  RefusalInv'
<1>0. /\ took \subseteq took' /\ took \subseteq Procs
      /\ \A q \in Procs : /\ shim'[q].nonce = shim[q].nonce /\ shim'[q].host = shim[q].host
                           /\ shim'[q].now = shim[q].now
                           /\ shim'[q].pc # "new" => shim[q].pc # "new"
  BY Zenon DEF RefusalInv, SealedInv, SealedTypeOK
<1>1. \A h, n : Taken(h, n) => Taken(h, n)'
  BY ZenonT(30), <1>0 DEF Taken
<1>2. p \in took' => Taken(shim[p].host, shim[p].nonce)'
  BY Zenon, <1>0 DEF Taken
<1>3. \A q \in Procs : TakenByOther(q) => TakenByOther(q)'
  <2>1. \A r \in took : r \in took' /\ shim'[r].host = shim[r].host /\ shim'[r].nonce = shim[r].nonce
    BY Zenon, <1>0
  <2> QED
    BY <1>0, <2>1 DEF TakenByOther
<1>4. Dated'
  BY Zenon, <1>0 DEF RefusalInv, Dated
<1>5. Claimed'
  BY ZenonT(30), <1>1, <1>2 DEF RefusalInv, Claimed
<1>6. RefusedOn'
  BY Zenon, <1>3 DEF RefusalInv, RefusedOn
<1> QED
  BY Zenon, <1>4, <1>5, <1>6 DEF RefusalInv

LEMMA SameTaken ==
  ASSUME UNCHANGED <<shim, took>>
  PROVE  /\ \A h, n : Taken(h, n)' = Taken(h, n)
         /\ \A p : TakenByOther(p)' = TakenByOther(p)
<1>1. shim' = shim /\ took' = took
  OBVIOUS
<1> QED
  BY <1>1 DEF Taken, TakenByOther

LEMMA SameSum == \A x, y \in Int : x + y <= x + y
OBVIOUS

LEMMA SignRefusal ==
  ASSUME RefusalInv, NEW n \in Nonces, NEW h \in Hosts, Sign(n, h)
  PROVE  RefusalInv'
<1>1. /\ envelope[n] = NoEnvelope /\ UNCHANGED <<clock, nonces, shim, took, skew>> /\ SealedInv
      /\ envelope \in [Nonces -> Envelope \cup {NoEnvelope}]
  BY DEF Sign, RefusalInv, SealedInv, SealedTypeOK
<1>2. /\ envelope'[n].expiry = clock + EnvelopeTTL
      /\ \A m \in Nonces : m # n => envelope'[m] = envelope[m]
  BY ZenonT(30), <1>1 DEF Sign
<1>3. \A p \in Procs : shim[p].pc # "new" => envelope'[shim[p].nonce] = envelope[shim[p].nonce]
  BY Zenon, <1>1, <1>2, ShimFacts DEF SealedInv, SealedTypeOK
<1>4. clock + EnvelopeTTL <= clock + EnvelopeTTL
  <2>1. clock \in Int /\ EnvelopeTTL \in Int
    BY ZenonT(30), <1>1, ConstantTypes, ZeroIn, ClockTypes DEF SealedInv
  <2> QED
    BY Zenon, <2>1, SameSum
<1>5. Dated'
  BY Zenon, <1>1, <1>2, <1>3, <1>4 DEF RefusalInv, Dated
<1>6. Claimed'
  BY Zenon, <1>1, SameTaken DEF RefusalInv, Claimed
<1>7. RefusedOn'
  BY Zenon, <1>1, <1>3, SameTaken DEF RefusalInv, RefusedOn
<1>8. SealedInv'
  BY <1>1, SignInv
<1> QED
  BY ZenonT(30), <1>5, <1>6, <1>7, <1>8 DEF RefusalInv

(* The time of signing, on the clock of the signer and on a skewed one.    *)
LEMMA BehindSigning ==
  ASSUME NEW x \in Int, NEW c \in Int, NEW s \in Int, NEW w \in Nat, x <= c + w
  PROVE  x - w <= (c + s) - s
OBVIOUS

LEMMA StartRefusal ==
  ASSUME RefusalInv, NEW p \in Procs, NEW h \in Hosts, NEW n \in Nonces, start(p, h, n)
  PROVE  RefusalInv'
<1>1. /\ shim[p].pc = "new" /\ envelope[n] # NoEnvelope /\ SealedInv
      /\ UNCHANGED <<clock, envelope, nonces, took, skew>>
  BY Zenon DEF start, RefusalInv
<1>2. /\ shim'[p].pc = "verify" /\ shim'[p].host = h /\ shim'[p].nonce = n
      /\ shim'[p].now = HostClock(h)
      /\ \A q \in Procs : q # p => shim'[q] = shim[q]
  <2>1. PICK s : s = [pc |-> "verify", host |-> h, nonce |-> n, now |-> HostClock(h), why |-> ""]
    BY Zenon
  <2>2. s.pc = "verify" /\ s.host = h /\ s.nonce = n /\ s.now = HostClock(h)
    BY <2>1, Zenon
  <2>3. shim' = [shim EXCEPT ![p] = s]
    BY ZenonT(30), <2>1, Zenon DEF start
  <2> QED
    BY <2>2, <2>3, <1>1 DEF SealedInv, SealedTypeOK
<1>3. envelope[n].expiry - EnvelopeTTL <= HostClock(h) - skew[h]
  <2>1. envelope[n].expiry <= clock + EnvelopeTTL
    BY Zenon, <1>1 DEF RefusalInv, Dated
  <2>2. envelope[n].expiry \in Int
    BY ZenonT(30), <1>1 DEF SealedInv, SealedTypeOK, Envelope
  <2>3. clock \in Int /\ skew[h] \in Int
    BY Zenon, <1>1, ClockTypes DEF SealedInv
  <2>4. EnvelopeTTL \in Nat
    BY Zenon, ConstantTypes
  <2> QED
    BY Zenon, <2>1, <2>2, <2>3, <2>4, BehindSigning DEF HostClock
<1>4. /\ \A g, m : Taken(g, m) => Taken(g, m)'
      /\ \A q \in Procs : q # p /\ TakenByOther(q) => TakenByOther(q)'
  <2>1. took \subseteq Procs /\ p \notin took
    BY Zenon, <1>1 DEF SealedInv, SealedTypeOK, Claims
  <2>2. \A q \in took : shim'[q] = shim[q]
    BY Zenon, <1>2, <2>1
  <2>3. \A g, m : Taken(g, m) => Taken(g, m)'
    BY Zenon, <1>1, <2>2 DEF Taken
  <2>4. \A q \in Procs : q # p /\ TakenByOther(q) => TakenByOther(q)'
    BY ZenonT(30), <1>1, <1>2, <2>2 DEF TakenByOther
  <2> QED
    BY Zenon, <2>3, <2>4
<1>5. Dated'
  BY Zenon, <1>1, <1>2, <1>3 DEF RefusalInv, Dated
<1>6. Claimed'
  BY Zenon, <1>1, <1>4 DEF RefusalInv, Claimed
<1>7. RefusedOn'
  BY Zenon, <1>1, <1>2, <1>4 DEF RefusalInv, RefusedOn
<1>8. SealedInv'
  BY Zenon, <1>1, StartInv
<1> QED
  BY <1>5, <1>6, <1>7, <1>8 DEF RefusalInv

LEMMA AuthorizeRefusal ==
  ASSUME RefusalInv, NEW p \in Procs, authorize(p)
  PROVE  RefusalInv'
<1>1. SealedInv /\ UNCHANGED <<clock, envelope, skew, nonces, took>>
  BY Zenon DEF RefusalInv, authorize
<1>2. SealedInv'
  BY <1>1, AuthorizeInv
<1> QED
  BY Zenon, <1>1, <1>2, AuthorizeStep, ShimStepRefusal

LEMMA SweepRefusal ==
  ASSUME RefusalInv, NEW p \in Procs, sweepNonces(p)
  PROVE  RefusalInv'
<1>1. SealedInv /\ UNCHANGED <<clock, envelope, skew, shim, took>> /\ shim[p].pc = "claim"
  BY Zenon DEF RefusalInv, sweepNonces
<1>2. SealedInv'
  BY ZenonT(30), <1>1, SweepInv
<1>3. \A h \in Hosts, n \in Nonces : nonces'[h][n] = nonces[h][n] \/ nonces'[h][n] = NoTime
  BY <1>1 DEF sweepNonces, SealedInv, SealedTypeOK
<1> QED
  BY Zenon, <1>1, <1>2, <1>3, ShimStepRefusal

LEMMA ClaimRefusal ==
  ASSUME RefusalInv, NEW p \in Procs, NEW fails \in StoreFails, claimNonce(p, fails)
  PROVE  RefusalInv'
<1>1. SealedInv /\ UNCHANGED <<clock, envelope, skew>>
  BY Zenon DEF RefusalInv, claimNonce
<1>2. SealedInv'
  BY <1>1, ClaimInv
<1>3. nonces[shim[p].host][shim[p].nonce] # NoTime => TakenByOther(p)
  <2>1. nonces[shim[p].host][shim[p].nonce] # NoTime => Taken(shim[p].host, shim[p].nonce)
    BY Zenon, <1>1, ShimFacts DEF RefusalInv, Claimed, SealedInv
  <2>2. p \notin took
    BY Zenon, <1>1, ClaimStep DEF SealedInv, Claims
  <2> QED
    BY Zenon, <2>1, <2>2 DEF Taken, TakenByOther
<1>4. /\ shim[p].pc # "new" /\ (took' = took \/ took' = took \cup {p})
      /\ shim'[p].host = shim[p].host /\ shim'[p].nonce = shim[p].nonce
      /\ shim'[p].now = shim[p].now
      /\ \A q \in Procs : q # p => shim'[q] = shim[q]
      /\ shim'[p].why \notin {"future", "expired"}
      /\ shim'[p].why = "replay" => TakenByOther(p)
  BY Zenon, <1>1, <1>3, ClaimStep
<1>5. \A h \in Hosts, n \in Nonces :
         \/ nonces'[h][n] = nonces[h][n]
         \/ h = shim[p].host /\ n = shim[p].nonce /\ p \in took'
  <2>1. SealedInv
    BY Zenon, <1>1
  <2>2. \A h \in Hosts, n \in Nonces :
           \/ nonces'[h][n] = nonces[h][n]
           \/ /\ nonces'[h][n] = HostClock(shim[p].host) /\ p \in took'
              /\ h = shim[p].host /\ n = shim[p].nonce
    BY Zenon, <2>1, ClaimStores
  <2> QED
    BY Zenon, <2>2
<1> QED
  BY Zenon, <1>1, <1>2, <1>4, <1>5, ShimStepRefusal

LEMMA EndsRefusal ==
  ASSUME RefusalInv, NEW p \in Procs, NEW to, EndsAs(p, to)
  PROVE  RefusalInv'
<1>1. SealedInv'
  BY Zenon, EndsInv DEF RefusalInv
<1>2. shim'[p].pc = "refused" => shim'[p].why \notin {"future", "expired", "replay"}
  BY Zenon DEF EndsAs
<1>3. /\ shim[p].pc # "new" /\ UNCHANGED <<clock, envelope, skew, nonces, took>>
      /\ shim'[p].host = shim[p].host /\ shim'[p].nonce = shim[p].nonce
      /\ shim'[p].now = shim[p].now
      /\ \A q \in Procs : q # p => shim'[q] = shim[q]
  BY Zenon DEF EndsAs
<1> QED
  BY Zenon, <1>1, <1>2, <1>3, ShimStepRefusal

LEMMA TickRefusal ==
  ASSUME RefusalInv, SealedTick
  PROVE  RefusalInv'
<1>1. /\ SealedInv /\ clock' = clock + 1 /\ clock \in Int /\ EnvelopeTTL \in Int
      /\ UNCHANGED <<envelope, nonces, shim, took, skew>>
  BY ConstantTypes DEF RefusalInv, SealedTick, SealedInv, SealedTypeOK
<1>2. \A n \in Nonces : envelope[n] # NoEnvelope => envelope[n].expiry \in Int
  BY <1>1 DEF SealedInv, SealedTypeOK, Envelope
<1>3. \A x \in Int : x <= clock + EnvelopeTTL => x <= clock' + EnvelopeTTL
  BY <1>1
<1>4. Dated'
  BY Zenon, <1>1, <1>2, <1>3 DEF RefusalInv, Dated
<1>5. Claimed' /\ RefusedOn'
  BY Zenon, <1>1, SameTaken DEF RefusalInv, Claimed, RefusedOn
<1>6. SealedInv'
  BY <1>1, TickInv
<1> QED
  BY <1>4, <1>5, <1>6 DEF RefusalInv

LEMMA SameRefusal ==
  ASSUME RefusalInv, SealedInv', UNCHANGED <<clock, envelope, nonces, shim, took, skew>>
  PROVE  RefusalInv'
<1>1. Dated'
  BY Zenon DEF RefusalInv, Dated
<1>2. Claimed' /\ RefusedOn'
  BY Zenon, SameTaken DEF RefusalInv, Claimed, RefusedOn
<1> QED
  BY Zenon, <1>1, <1>2 DEF RefusalInv

LEMMA RefusalNextInv == RefusalInv /\ [SealedNext]_sealedVars => RefusalInv'
<1> SUFFICES ASSUME RefusalInv, [SealedNext]_sealedVars PROVE RefusalInv'
  OBVIOUS
<1>1. SealedInv /\ SealedInv'
  BY SealedNextInv DEF RefusalInv
<1>2. CASE UNCHANGED sealedVars
  BY Zenon, <1>1, <1>2, SameRefusal DEF sealedVars
<1>3. CASE (\E h \in Hosts, k \in Keys : Pin(h, k)) \/ (\E k \in Keys : Rotate(k))
  BY Zenon, <1>1, <1>3, SameRefusal DEF Pin, Rotate
<1>4. CASE \E p \in Procs, fails \in BOOLEAN : exec(p, fails)
  BY Zenon, <1>1, <1>4, ExecEnds, EndsRefusal
<1>5. CASE \E p \in Procs : kill(p)
  BY Zenon, <1>1, <1>5, KillEnds, EndsRefusal
<1> QED
  BY Zenon, <1>2, <1>3, <1>4, <1>5, SignRefusal, StartRefusal, AuthorizeRefusal, SweepRefusal, ClaimRefusal,
     TickRefusal DEF SealedNext

(* A shim with time t on a clock k ahead refuses as too far in the future  *)
(* an envelope with validity v, signed no later than that, only if the     *)
(* clock is further behind than the slack m - v.                           *)
LEMMA FutureMeansBehind ==
  ASSUME NEW x \in Int, NEW t \in Int, NEW k \in Int, NEW v \in Int, NEW m \in Int,
         x - v <= t - k, x - t > m
  PROVE  k < v - m
OBVIOUS

LEMMA ExpiredMeansLate ==
  ASSUME NEW x \in Int, NEW t \in Int, NEW k \in Int, NEW v \in Int, t > x
  PROVE  t - k - (x - v) > v - k
OBVIOUS

(* No needless refusal: a shim reports a replay only for an envelope whose *)
(* nonce another shim on its host took, and turns away a first             *)
(* presentation to the right host only because its clock is behind by more *)
(* than the slack that MaxTTL leaves or because the envelope came too late *)
(* (VerifyAny, claimNonce, sweepNonces).  The shim that took the nonce may *)
(* have failed or been killed before its exec.                             *)
THEOREM RefusedRightlyHolds == SealedSpec => []RefusedRightly
<1>1. ASSUME RefusalInv PROVE RefusedRightly
  <2> SUFFICES ASSUME NEW p \in Procs, shim[p].pc = "refused"
               PROVE  /\ shim[p].why = "future" => skew[shim[p].host] < EnvelopeTTL - MaxTTL
                      /\ shim[p].why = "expired" =>
                           shim[p].now - skew[shim[p].host]
                               - (envelope[shim[p].nonce].expiry - EnvelopeTTL)
                             > EnvelopeTTL - skew[shim[p].host]
                      /\ shim[p].why = "replay" =>
                           \E q \in took \ {p} :
                              shim[q].host = shim[p].host /\ shim[q].nonce = shim[p].nonce
    BY Zenon DEF RefusedRightly
  <2>1. PICK x \in Int : x = envelope[shim[p].nonce].expiry
    BY Zenon, <1>1, ShimFacts DEF RefusalInv, SealedInv
  <2>2. PICK k \in Int : k = skew[shim[p].host]
    BY Zenon, <1>1, ShimFacts, ClockTypes DEF RefusalInv, SealedInv
  <2>3. PICK t \in Int : t = shim[p].now
    BY Zenon, <1>1, ShimFacts DEF RefusalInv, SealedInv
  <2>4. EnvelopeTTL \in Int /\ MaxTTL \in Int
    BY ConstantTypes
  <2>5. x - EnvelopeTTL <= t - k
    BY Zenon, <1>1, <2>1, <2>2, <2>3 DEF RefusalInv, Dated
  <2>6. shim[p].why = "future" => k < EnvelopeTTL - MaxTTL
    <3>1. shim[p].why = "future" => x - t > MaxTTL
      BY <1>1, <2>1, <2>3 DEF RefusalInv, RefusedOn
    <3> QED
      BY <3>1, <2>4, <2>5, FutureMeansBehind
  <2>7. shim[p].why = "expired" => t - k - (x - EnvelopeTTL) > EnvelopeTTL - k
    <3>1. shim[p].why = "expired" => t > x
      BY Zenon, <1>1, <2>1, <2>3 DEF RefusalInv, RefusedOn
    <3> QED
      BY Zenon, <3>1, <2>4, ExpiredMeansLate
  <2>8. shim[p].why = "replay" => TakenByOther(p)
    BY Zenon, <1>1 DEF RefusalInv, RefusedOn
  <2> QED
    BY Zenon, <2>1, <2>2, <2>3, <2>6, <2>7, <2>8 DEF TakenByOther
<1> QED
  BY <1>1, RefusalInit, RefusalNextInv, PTL DEF SealedSpec

-----------------------------------------------------------------------------
(***************************************************************************)
(* What happens in the cluster is what the signer decided, and it leaves   *)
(* its records, for every number of calls, every table, every policy and   *)
(* every reload.                                                           *)
(***************************************************************************)

(* The variables have the shape that the actions rely on.                  *)
CallShape(r) ==
    r = [pc |-> r.pc, action |-> r.action, dry |-> r.dry, cmd |-> r.cmd,
         def |-> r.def, result |-> r.result, lost |-> r.lost]

SrvShape(r) ==
    r = [st |-> r.st, approved |-> r.approved, learn |-> r.learn, out |-> r.out,
         recorded |-> r.recorded]

Functions ==
    /\ call = [c \in Calls |-> call[c]] /\ srv = [c \in Calls |-> srv[c]]
    /\ slog = [c \in Calls |-> slog[c]] /\ blog = [c \in Calls |-> blog[c]]
    /\ ran = [c \in Calls |-> ran[c]] /\ decided = [c \in Calls |-> decided[c]]

(* The signer was asked about the action that the broker will perform: the *)
(* canonical form is the one of the normalised action.                     *)
Prepared(c) ==
    LET a == call[c].action
        def == call[c].def
    IN /\ call[c].cmd = Canonical(a)
       /\ a.group = def.group
       /\ ~def.namespaced => a.ns = ""

HasIssued(log) == log.issued = TRUE

(* The signer issued a token for call c, and has its record.               *)
Issued(c) ==
    /\ Validate(call[c].action)
    /\ decided[c].cmd = call[c].cmd
    /\ decided[c].effect # "deny"
    /\ decided[c].effect = "approval" => srv[c].approved
    /\ FailClosed /\ srv[c].st = "answered" => HasIssued(slog[c])

(* The states of a call before it has the token or ends.                   *)
Unfinished == {"idle", "signing", "waiting", "polling"}

CallInv(c) ==
    /\ CallShape(call[c]) /\ SrvShape(srv[c])
    /\ call[c].pc = "idle" => srv[c].st = "none" /\ ~srv[c].approved /\ ran[c] = None
    /\ call[c].pc \in Unfinished => call[c].result = None /\ ran[c] = None
    /\ call[c].pc = "waiting" => srv[c].st = "answered" /\ srv[c].out = "approval-required"
    /\ srv[c].st # "none" => Prepared(c)
    /\ srv[c].st = "decided" => srv[c].out \in Outcomes
    /\ srv[c].st \in {"decided", "answered"} /\ srv[c].out = "issued" => Issued(c)
    /\ ran[c] # None =>
          /\ srv[c].st = "answered" /\ srv[c].out = "issued"
          /\ ran[c] = call[c].cmd
    /\ FailClosed /\ call[c].pc = "done" /\ call[c].result = "executed" =>
          blog[c] = "executed"

(* Waiver w was learned from call c.                                       *)
LearnedFrom(c, w) ==
    /\ srv[c].approved /\ call[c].cmd = w
    /\ FailClosed => HasIssued(slog[c])

Learned == \A w \in waivers : \E c \in Calls : LearnedFrom(c, w)

K8sInv == Functions /\ Learned /\ \A c \in Calls : CallInv(c)

(* A step of one call leaves the others alone.                             *)
Same(d) ==
    /\ call'[d] = call[d] /\ srv'[d] = srv[d] /\ slog'[d] = slog[d]
    /\ blog'[d] = blog[d] /\ ran'[d] = ran[d] /\ decided'[d] = decided[d]

LEMMA SameInv ==
    ASSUME NEW d \in Calls, CallInv(d), Same(d)
    PROVE  CallInv(d)'
<1>1. Prepared(d)' <=> Prepared(d)
  BY Zenon DEF Same, Prepared
<1>2. Issued(d)' <=> Issued(d)
  BY ZenonT(30) DEF Same, Issued, HasIssued
<1>3. CallShape(call'[d]) /\ SrvShape(srv'[d])
  BY Zenon DEF Same, CallInv
<1> QED
  BY Zenon, <1>1, <1>2, <1>3 DEF Same, CallInv

LEMMA SameLearned ==
    ASSUME NEW d \in Calls, NEW w, LearnedFrom(d, w), Same(d)
    PROVE  LearnedFrom(d, w)'
BY Zenon DEF Same, LearnedFrom

LEMMA InitK8s == Init => K8sInv
<1> SUFFICES ASSUME Init PROVE K8sInv
  OBVIOUS
<1>1. Functions /\ Learned
  BY Zenon DEF Init, Functions, Learned
<1>2. ASSUME NEW c \in Calls PROVE CallInv(c)
  <2>1. /\ call[c] = Idle /\ srv[c] = Unasked /\ ran[c] = None
    BY ZenonT(30) DEF Init
  <2>2. /\ CallShape(Idle) /\ Idle.pc = "idle" /\ Idle.result = None
        /\ SrvShape(Unasked) /\ Unasked.st = "none" /\ Unasked.approved = FALSE
    BY DEF Idle, Unasked, CallShape, SrvShape
  <2> QED
    BY Zenon, <2>1, <2>2 DEF CallInv
<1> QED
  BY <1>1, <1>2 DEF K8sInv

(* Every action of a call updates its own entries only.                    *)
LEMMA Frame ==
    ASSUME Functions, NEW c \in Calls, Step(c)
    PROVE  Functions' /\ \A d \in Calls : d # c => Same(d)
<1> USE DEF Functions, Same
<1>1. CASE k8sPreflightDenied(c) \/ signRefused(c) \/ dryRunAnswered(c) \/ approvalError(c)
  BY Zenon, <1>1 DEF k8sPreflightDenied, signRefused, dryRunAnswered, approvalError,
              BestEffort, Done
<1>1a. CASE noApproval(c) \/ decline(c) \/ giveUp(c)
  BY Zenon, <1>1a DEF noApproval, decline, giveUp, BestEffort, Done
<1>2. CASE K8sExecute(c)
  BY Zenon, <1>2 DEF K8sExecute
<1>3. CASE rateLimited(c)
  BY <1>3 DEF rateLimited
<1>4. CASE handleSignK8s(c)
  BY Zenon, <1>4 DEF handleSignK8s
<1>5. CASE respondSignK8s(c)
  BY Zenon, <1>5 DEF respondSignK8s
<1>6. CASE waitApproval(c) \/ approve(c) \/ pollAgain(c)
  BY Zenon, <1>6 DEF waitApproval, approve, pollAgain
<1>7. CASE signerUnavailable(c)
  BY <1>7 DEF signerUnavailable, BestEffort
<1>8. CASE callServer(c)
  BY Zenon, <1>8 DEF callServer
<1>9. CASE finish(c)
  BY Zenon, <1>9 DEF finish, Done
<1> QED
  BY Zenon, <1>1, <1>1a, <1>2, <1>3, <1>4, <1>5, <1>6, <1>7, <1>8, <1>9 DEF Step

----------------------------------------------------------------------------
(* A call that goes on and leaves what it asked for alone.                *)
Goes(c, to) ==
    /\ CallShape(call'[c]) /\ call'[c].pc = to
    /\ call'[c].action = call[c].action /\ call'[c].cmd = call[c].cmd
    /\ call'[c].def = call[c].def

(* A call ends before the API server was called.                           *)
LEMMA EndInv ==
    ASSUME NEW c \in Calls, CallInv(c), call[c].pc \in Unfinished,
           Goes(c, "done"), call'[c].result # "executed",
           srv'[c] = srv[c], slog'[c] = slog[c], ran'[c] = ran[c], decided'[c] = decided[c]
    PROVE  CallInv(c)'
<1>1. Prepared(c)' <=> Prepared(c)
  BY Zenon DEF Prepared, Goes
<1>2. Issued(c) => Issued(c)'
  BY Zenon DEF Issued, HasIssued, Goes
<1>3. call'[c].pc \notin Unfinished /\ call'[c].pc # "waiting" /\ call'[c].pc # "idle"
  BY Zenon DEF Goes, Unfinished
<1>4. ran[c] = None /\ ran'[c] = None
  BY Zenon DEF CallInv
<1> QED
  BY Zenon, <1>1, <1>2, <1>3, <1>4 DEF CallInv, Goes

LEMMA Ends ==
    ASSUME Functions, NEW c \in Calls, CallInv(c),
           \/ k8sPreflightDenied(c) \/ signRefused(c) \/ dryRunAnswered(c)
           \/ approvalError(c) \/ noApproval(c) \/ decline(c) \/ giveUp(c)
           \/ signerUnavailable(c)
    PROVE  CallInv(c)'
<1>1. /\ call[c].pc \in Unfinished
      /\ srv' = srv /\ slog' = slog /\ ran' = ran /\ decided' = decided
  BY ZenonT(30) DEF k8sPreflightDenied, signRefused, dryRunAnswered, approvalError,
         noApproval, decline, giveUp, Transient, signerUnavailable, Answered, Unfinished
<1>2. call[c].result = None
  BY Zenon, <1>1 DEF CallInv
<1>3. \E r \in {None, "dry_run_allowed", "dry_run_denied"}, l \in {TRUE, call[c].lost} :
         call'[c] = [call[c] EXCEPT !.pc = "done", !.result = r, !.lost = l]
  <2>1. CASE signerUnavailable(c)
    <3>1. call' = [call EXCEPT ![c].pc = "done", ![c].lost = TRUE]
      BY <2>1 DEF signerUnavailable
    <3>2. call'[c] = [call[c] EXCEPT !.pc = "done", !.result = None, !.lost = TRUE]
      BY Zenon, <1>2, <3>1 DEF Functions, CallInv, CallShape
    <3> QED
      BY <3>2
  <2>2. ASSUME NEW r \in {None, "dry_run_allowed", "dry_run_denied"}, Done(c, r)
        PROVE  call'[c] = [call[c] EXCEPT !.pc = "done", !.result = r, !.lost = call[c].lost]
    BY Zenon, <2>2 DEF Done, Functions, CallInv, CallShape
  <2>3. CASE dryRunAnswered(c)
    <3>1. PICK r \in {"dry_run_allowed", "dry_run_denied"} : Done(c, r)
      BY Zenon, <2>3 DEF dryRunAnswered, Answered
    <3> QED
      BY <2>2, <3>1
  <2>4. CASE \/ k8sPreflightDenied(c) \/ signRefused(c) \/ approvalError(c)
             \/ noApproval(c) \/ decline(c) \/ giveUp(c)
    <3>1. Done(c, None)
      BY Zenon, <2>4 DEF k8sPreflightDenied, signRefused, approvalError, noApproval, decline,
             giveUp
    <3> QED
      BY <2>2, <3>1
  <2> QED
    BY <2>1, <2>3, <2>4
<1>4. Goes(c, "done") /\ call'[c].result # "executed"
  <2>1. PICK r \in {None, "dry_run_allowed", "dry_run_denied"}, l \in {TRUE, call[c].lost} :
           call'[c] = [call[c] EXCEPT !.pc = "done", !.result = r, !.lost = l]
    BY Zenon, <1>3
  <2>2. Goes(c, "done") /\ call'[c].result = r
    BY Zenon, <2>1 DEF Goes, CallShape, CallInv
  <2>3. None # "executed"
    BY Zenon, K8sAssumption DEF K8sAssumption
  <2> QED
    BY Zenon, <2>2, <2>3
<1> QED
  BY Zenon, <1>1, <1>4, EndInv

(* The request is normalised by the broker's table.                        *)
LEMMA ExecuteInv ==
    ASSUME Functions, NEW c \in Calls, CallInv(c), K8sExecute(c)
    PROVE  CallInv(c)'
<1>0. /\ call[c].pc = "idle" /\ slog' = slog /\ ran' = ran /\ decided' = decided
      /\ srv' = [srv EXCEPT ![c].st = "asked"]
  BY DEF K8sExecute
<1>1. PICK a \in Actions, dry \in BOOLEAN :
         call' = [call EXCEPT ![c] =
                    [@ EXCEPT !.pc = "signing", !.action = Normal(cache.table, a),
                              !.dry = dry, !.cmd = Canonical(Normal(cache.table, a)),
                              !.def = cache.table[a.resource]]]
  BY Zenon DEF K8sExecute
<1> DEFINE n == Normal(cache.table, a)
           def == cache.table[a.resource]
<1>2. /\ CallShape(call'[c]) /\ call'[c].pc = "signing" /\ call'[c].action = n
      /\ call'[c].cmd = Canonical(n) /\ call'[c].def = def
      /\ call'[c].result = call[c].result
  BY Zenon, <1>1 DEF Functions, CallInv, CallShape
<1>3. n.group = def.group /\ (~def.namespaced => n.ns = "")
  BY Zenon, K8sAssumption DEF Normal, Action
<1>4. SrvShape(srv'[c]) /\ srv'[c].st = "asked"
  BY <1>0 DEF Functions, CallInv, SrvShape
<1> HIDE DEF n, def
<1>5. Prepared(c)'
  BY Zenon, <1>2, <1>3 DEF Prepared
<1> QED
  BY Zenon, <1>0, <1>2, <1>4, <1>5 DEF CallInv, Unfinished

LEMMA LimitedInv ==
    ASSUME Functions, NEW c \in Calls, CallInv(c), rateLimited(c)
    PROVE  CallInv(c)'
<1>0. /\ srv[c].st = "asked" /\ UNCHANGED <<call, slog, blog, ran, decided>>
      /\ srv' = [srv EXCEPT ![c].st = "answered", ![c].out = "limited", ![c].recorded = FALSE]
  BY DEF rateLimited
<1>1. SrvShape(srv'[c]) /\ srv'[c].st = "answered" /\ srv'[c].out = "limited"
  BY Zenon, <1>0 DEF Functions, CallInv, SrvShape
<1> QED
  BY Zenon, <1>0, <1>1 DEF CallInv, Prepared

LEMMA DecidedFields ==
    ASSUME NEW r, NEW e, NEW k, r = [effect |-> e, cmd |-> k]
    PROVE  r.effect = e /\ r.cmd = k
OBVIOUS

(* The decision: issued only for an action that is admitted, not denied,   *)
(* and approved if it is gated.                                            *)
LEMMA DecideInv ==
    ASSUME Functions, NEW c \in Calls, CallInv(c), handleSignK8s(c)
    PROVE  CallInv(c)'
<1> DEFINE a == call[c].action
           cmd == call[c].cmd
<1>0. srv[c].st = "asked" /\ UNCHANGED <<call, slog, blog, ran>>
  BY DEF handleSignK8s
<1>1. PICK minted \in BOOLEAN :
         srv' = [srv EXCEPT ![c].st = "decided",
                    ![c].out = Verdict(policy, a, cmd, call[c].dry, srv[c].approved, minted)]
  BY Zenon DEF handleSignK8s
<1>2. decided'[c] = [effect |-> IF Admits(policy, a, cmd) THEN Effect(policy, cmd) ELSE "deny",
                     cmd |-> IF Admits(policy, a, cmd)
                             THEN Canonical(Normal(policy.table, a)) ELSE None]
  BY DEF handleSignK8s, Functions
<1> DEFINE out == Verdict(policy, a, cmd, call[c].dry, srv[c].approved, minted)
<1>3. /\ out \in Outcomes
      /\ out = "issued" => /\ Admits(policy, a, cmd) /\ Effect(policy, cmd) # "deny"
                           /\ Effect(policy, cmd) = "approval" => srv[c].approved
  BY Zenon DEF Verdict, Outcomes
<1> HIDE DEF out
<1>4. /\ SrvShape(srv'[c]) /\ srv'[c].st = "decided" /\ srv'[c].out = out
      /\ srv'[c].approved = srv[c].approved
  BY Zenon, <1>1 DEF out, Functions, CallInv, SrvShape
<1>5. out = "issued" => Issued(c)'
  <2> SUFFICES ASSUME out = "issued" PROVE Issued(c)'
    BY Zenon
  <2>1. /\ Validate(call'[c].action) /\ Canonical(Normal(policy.table, a)) = call'[c].cmd
        /\ Admits(policy, a, cmd)
    BY ZenonT(30), <1>0, <1>3 DEF Admits
  <2>2. decided'[c].effect = Effect(policy, cmd) /\ decided'[c].cmd = call'[c].cmd
    <3>1. decided'[c] = [effect |-> Effect(policy, cmd), cmd |-> call'[c].cmd]
      BY Zenon, <1>2, <2>1
    <3> QED
      BY <3>1, DecidedFields
  <2>3. decided'[c].effect # "deny" /\ (decided'[c].effect = "approval" => srv'[c].approved)
    BY Zenon, <1>3, <1>4, <2>2
  <2> QED
    BY Zenon, <1>4, <2>1, <2>2, <2>3 DEF Issued
<1>6. ran[c] = None /\ call[c].pc # "waiting"
  BY Zenon, <1>0 DEF CallInv
<1>7. Prepared(c)'
  BY Zenon, <1>0 DEF CallInv, Prepared
<1> QED
  BY Zenon, <1>0, <1>3, <1>4, <1>5, <1>6, <1>7 DEF CallInv

(* The record, and the answer only with it under fail-closed auditing.     *)
LEMMA LastRecord ==
    ASSUME NEW log, NEW o
    PROVE  WithRecord(log, o).last = o
BY DEF WithRecord

LEMMA IssuanceAdded ==
    ASSUME NEW log, NEW o, o = "issued" \/ HasIssued(log)
    PROVE  HasIssued(WithRecord(log, o))
BY Zenon DEF WithRecord, HasIssued

LEMMA RespondInv ==
    ASSUME Functions, NEW c \in Calls, CallInv(c), respondSignK8s(c)
    PROVE  CallInv(c)'
<1>0. srv[c].st = "decided" /\ UNCHANGED <<call, blog, ran, decided>>
  BY DEF respondSignK8s
<1>1. PICK ok \in AuditOk :
         /\ slog' = [slog EXCEPT ![c] = IF ok THEN WithRecord(@, srv[c].out) ELSE @]
         /\ srv' = [srv EXCEPT ![c].st = "answered", ![c].recorded = ok,
                               ![c].out = IF ok \/ ~FailClosed THEN @ ELSE "unavailable"]
  BY Zenon DEF respondSignK8s
<1>2. /\ SrvShape(srv'[c]) /\ srv'[c].st = "answered"
      /\ srv'[c].approved = srv[c].approved
      /\ srv'[c].out = IF ok \/ ~FailClosed THEN srv[c].out ELSE "unavailable"
  BY Zenon, <1>1 DEF Functions, CallInv, SrvShape
<1>3. slog'[c] = IF ok THEN WithRecord(slog[c], srv[c].out) ELSE slog[c]
  BY Zenon, <1>1 DEF Functions
<1>6. ran[c] = None /\ call[c].pc # "waiting"
  BY Zenon, <1>0 DEF CallInv
<1>7. srv'[c].out = "issued" => Issued(c)'
  <2> SUFFICES ASSUME srv'[c].out = "issued" PROVE Issued(c)'
    BY Zenon
  <2>1. srv[c].out = "issued" /\ (ok \/ ~FailClosed)
    BY Zenon, <1>2
  <2>2. FailClosed => HasIssued(slog'[c])
    BY ZenonT(30), <1>3, <2>1, IssuanceAdded
  <2> QED
    BY Zenon, <1>0, <1>2, <2>1, <2>2 DEF CallInv, Issued
<1>8. Prepared(c)'
  BY Zenon, <1>0 DEF CallInv, Prepared
<1> QED
  BY Zenon, <1>0, <1>2, <1>6, <1>7, <1>8 DEF CallInv

LEMMA WaitInv ==
    ASSUME Functions, NEW c \in Calls, CallInv(c), waitApproval(c)
    PROVE  CallInv(c)'
<1>0. /\ call[c].pc = "signing" /\ srv[c].st = "answered" /\ srv[c].out = "approval-required"
      /\ call' = [call EXCEPT ![c].pc = "waiting"]
      /\ UNCHANGED <<srv, slog, blog, ran, decided>>
  BY DEF waitApproval, Answered
<1>1. Goes(c, "waiting") /\ call'[c].result = call[c].result
  BY Zenon, <1>0 DEF Functions, CallInv, CallShape, Goes
<1>2. Prepared(c)'
  BY Zenon, <1>0, <1>1 DEF CallInv, Prepared, Goes
<1> QED
  BY Zenon, <1>0, <1>1, <1>2 DEF CallInv, Goes, Unfinished

(* The forward of an approved request, the first and every later one.      *)
Forwarded(learn) ==
    [st |-> "asked", approved |-> TRUE, learn |-> learn, out |-> None, recorded |-> FALSE]

LEMMA ForwardedIs ==
    ASSUME Functions, NEW c \in Calls, NEW l,
           srv' = [srv EXCEPT ![c] = [Unasked EXCEPT !.st = "asked", !.approved = TRUE,
                                                     !.learn = l]]
    PROVE  srv'[c] = Forwarded(l)
<1>1. srv'[c] = [Unasked EXCEPT !.st = "asked", !.approved = TRUE, !.learn = l]
  BY Zenon DEF Functions
<1> QED
  BY ZenonT(30), <1>1 DEF Unasked, Forwarded

LEMMA ForwardedFields ==
    ASSUME NEW l
    PROVE  /\ SrvShape(Forwarded(l)) /\ Forwarded(l).st = "asked"
           /\ Forwarded(l).approved = TRUE /\ Forwarded(l).recorded = FALSE
BY DEF Forwarded, SrvShape

LEMMA ApprovedForward ==
    ASSUME Functions, NEW c \in Calls, approve(c) \/ pollAgain(c)
    PROVE  \E l : srv'[c] = Forwarded(l)
<1>1. PICK l : srv' = [srv EXCEPT ![c] = [Unasked EXCEPT !.st = "asked", !.approved = TRUE,
                                                         !.learn = l]]
  BY Zenon DEF approve, pollAgain
<1> QED
  BY Zenon, <1>1, ForwardedIs

LEMMA ApproveInv ==
    ASSUME Functions, NEW c \in Calls, CallInv(c), approve(c)
    PROVE  CallInv(c)'
<1>0. /\ call[c].pc = "waiting" /\ call' = [call EXCEPT ![c].pc = "polling"]
      /\ UNCHANGED <<slog, blog, ran, decided>>
  BY DEF approve
<1>1. Goes(c, "polling") /\ call'[c].result = call[c].result
  BY ZenonT(30), <1>0 DEF Functions, CallInv, CallShape, Goes
<1>2. SrvShape(srv'[c]) /\ srv'[c].st = "asked"
  BY Zenon, ApprovedForward, ForwardedFields
<1>3. Prepared(c)'
  BY ZenonT(30), <1>0, <1>1 DEF CallInv, Prepared, Goes
<1> QED
  BY Zenon, <1>0, <1>1, <1>2, <1>3 DEF CallInv, Goes, Unfinished

LEMMA PollAgainInv ==
    ASSUME Functions, NEW c \in Calls, CallInv(c), pollAgain(c)
    PROVE  CallInv(c)'
<1>0. /\ call[c].pc = "polling" /\ srv[c].st = "answered"
      /\ UNCHANGED <<call, slog, blog, ran, decided>>
  BY DEF pollAgain, Transient, Answered
<1>1. SrvShape(srv'[c]) /\ srv'[c].st = "asked"
  BY Zenon, ApprovedForward, ForwardedFields
<1>2. Prepared(c)'
  BY ZenonT(30), <1>0 DEF CallInv, Prepared
<1> QED
  BY Zenon, <1>0, <1>1, <1>2 DEF CallInv, Unfinished

(* The path of the request says what the canonical form says, though it is *)
(* built from the broker's definition of the resource.                     *)
LEMMA PathIsCanonical ==
    ASSUME NEW c \in Calls, Prepared(c), Validate(call[c].action)
    PROVE  runK8sAction(call[c].def, call[c].action) = call[c].cmd
<1> DEFINE a == call[c].action
<1>1. CASE a.verb = "logs"
  BY Zenon, <1>1 DEF Prepared, Validate, runK8sAction, Canonical
<1>2. CASE a.verb # "logs"
  BY Zenon, <1>2 DEF Prepared, runK8sAction, resourcePath, Canonical, Dash
<1> QED
  BY <1>1, <1>2

LEMMA CallServerInv ==
    ASSUME Functions, NEW c \in Calls, CallInv(c), callServer(c)
    PROVE  CallInv(c)'
<1>0. /\ call[c].pc \in Unfinished /\ call[c].pc # "idle"
      /\ srv[c].st = "answered" /\ srv[c].out = "issued"
      /\ UNCHANGED <<srv, slog, blog, decided>>
  BY Zenon DEF callServer, Answered, Unfinished
<1>1. PICK did \in BOOLEAN, seen \in BOOLEAN :
         /\ call' = [call EXCEPT ![c].pc = "recording",
                                 ![c].result = IF seen THEN "executed" ELSE "error"]
         /\ ran' = [ran EXCEPT ![c] =
                      IF did THEN runK8sAction(call[c].def, call[c].action) ELSE @]
  BY Zenon DEF callServer
<1>a. ran'[c] \in {ran[c], runK8sAction(call[c].def, call[c].action)}
  BY <1>1 DEF Functions
<1>2. Goes(c, "recording")
  BY Zenon, <1>1 DEF Functions, CallInv, CallShape, Goes
<1>3. Prepared(c) /\ Issued(c) /\ ran[c] = None
  BY Zenon, <1>0 DEF CallInv
<1>4. Prepared(c)'
  BY Zenon, <1>2, <1>3 DEF Prepared, Goes
<1>5. Issued(c)'
  BY Zenon, <1>0, <1>2, <1>3 DEF Issued, Goes
<1>6. ran'[c] # None => ran'[c] = call'[c].cmd
  BY Zenon, <1>a, <1>2, <1>3, PathIsCanonical DEF Goes, Issued
<1> QED
  BY Zenon, <1>0, <1>2, <1>4, <1>5, <1>6 DEF CallInv, Goes, Unfinished

(* The result is shown only with its completion record.                    *)
LEMMA FinishInv ==
    ASSUME Functions, NEW c \in Calls, CallInv(c), finish(c)
    PROVE  CallInv(c)'
<1>0. call[c].pc = "recording" /\ UNCHANGED <<srv, slog, ran, decided>>
  BY Zenon DEF finish
<1>1. PICK ok \in AuditOk :
         /\ blog' = [blog EXCEPT ![c] = IF ok THEN call[c].result ELSE @]
         /\ Done(c, IF ok \/ ~FailClosed THEN call[c].result ELSE None)
  BY Zenon DEF finish
<1> DEFINE r == IF ok \/ ~FailClosed THEN call[c].result ELSE None
<1>2. Goes(c, "done") /\ call'[c].result = r
  BY Zenon, <1>1 DEF Functions, CallInv, CallShape, Goes, Done
<1>3. ok => blog'[c] = call[c].result
  BY ZenonT(30), <1>1 DEF Functions
<1>4. FailClosed /\ call'[c].result = "executed" => blog'[c] = "executed"
  BY <1>2, <1>3, K8sAssumption DEF K8sAssumption
<1>5. Prepared(c) => Prepared(c)'
  BY Zenon, <1>2 DEF Prepared, Goes
<1>6. Issued(c) => Issued(c)'
  BY Zenon, <1>0, <1>2 DEF Issued, Goes
<1> QED
  BY Zenon, <1>0, <1>2, <1>4, <1>5, <1>6 DEF CallInv, Goes, Unfinished

LEMMA StepInv ==
    ASSUME Functions, NEW c \in Calls, CallInv(c), Step(c)
    PROVE  CallInv(c)'
BY Zenon, Ends, ExecuteInv, LimitedInv, DecideInv, RespondInv, WaitInv, ApproveInv,
   PollAgainInv, CallServerInv,
   FinishInv DEF Step
-----------------------------------------------------------------------------
(* An approved call stays approved, keeps its canonical form and its       *)
(* records, so what was learned from it stays true.                        *)
LEMMA StaysApproved ==
    ASSUME Functions, NEW c \in Calls, CallInv(c), Step(c), srv[c].approved
    PROVE  srv'[c].approved
<1>1. CASE approve(c) \/ pollAgain(c)
  BY Zenon, <1>1, ApprovedForward, ForwardedFields
<1>2. CASE K8sExecute(c)
  BY Zenon, <1>2 DEF K8sExecute, CallInv
<1>3. CASE rateLimited(c)
  BY Zenon, <1>3 DEF rateLimited, Functions, CallInv, SrvShape
<1>4. CASE handleSignK8s(c)
  <2>1. PICK o : srv' = [srv EXCEPT ![c].st = "decided", ![c].out = o]
    BY Zenon, <1>4 DEF handleSignK8s
  <2> QED
    BY Zenon, <2>1 DEF Functions, CallInv, SrvShape
<1>5. CASE respondSignK8s(c)
  <2>1. PICK r, o : srv' = [srv EXCEPT ![c].st = "answered", ![c].recorded = r, ![c].out = o]
    <3>1. PICK r \in AuditOk :
             srv' = [srv EXCEPT ![c].st = "answered", ![c].recorded = r,
                                ![c].out = IF r \/ ~FailClosed THEN @ ELSE "unavailable"]
      BY Zenon, <1>5 DEF respondSignK8s
    <3>2. srv' = [srv EXCEPT ![c].st = "answered", ![c].recorded = r,
                             ![c].out = IF r \/ ~FailClosed THEN srv[c].out ELSE "unavailable"]
      BY Zenon, <3>1 DEF Functions, CallInv, SrvShape
    <3> QED
      BY Zenon, <3>2
  <2> QED
    BY Zenon, <2>1 DEF Functions, CallInv, SrvShape
<1>6. CASE srv' = srv
  BY Zenon, <1>6
<1> QED
  BY Zenon, <1>1, <1>2, <1>3, <1>4, <1>5, <1>6 DEF Step, k8sPreflightDenied, signRefused,
     dryRunAnswered, approvalError, noApproval, waitApproval, decline, giveUp,
     signerUnavailable, callServer, finish

LEMMA KeepsCmd ==
    ASSUME Functions, NEW c \in Calls, CallInv(c), Step(c), srv[c].approved
    PROVE  call'[c].cmd = call[c].cmd
<1>1. ~K8sExecute(c)
  BY Zenon DEF K8sExecute, CallInv
<1>2. ASSUME NEW r, Done(c, r) PROVE call'[c].cmd = call[c].cmd
  BY Zenon, <1>2 DEF Done, Functions, CallInv, CallShape
<1>3. CASE \/ k8sPreflightDenied(c) \/ signRefused(c) \/ dryRunAnswered(c) \/ approvalError(c)
           \/ noApproval(c) \/ decline(c) \/ giveUp(c) \/ finish(c)
  <2>1. PICK r : Done(c, r)
    BY Zenon, <1>3 DEF k8sPreflightDenied, signRefused, dryRunAnswered, approvalError,
       noApproval, decline, giveUp, finish
  <2> QED
    BY Zenon, <1>2, <2>1
<1>4. CASE waitApproval(c) \/ approve(c)
  <2>1. PICK p : call' = [call EXCEPT ![c].pc = p]
    BY Zenon, <1>4 DEF waitApproval, approve
  <2> QED
    BY Zenon, <2>1 DEF Functions, CallInv, CallShape
<1>4a. CASE signerUnavailable(c)
  BY Zenon, <1>4a DEF signerUnavailable, Functions, CallInv, CallShape
<1>5. CASE callServer(c)
  <2>1. PICK r : call' = [call EXCEPT ![c].pc = "recording", ![c].result = r]
    BY Zenon, <1>5 DEF callServer
  <2> QED
    BY Zenon, <2>1 DEF Functions, CallInv, CallShape
<1>6. CASE rateLimited(c) \/ handleSignK8s(c) \/ respondSignK8s(c) \/ pollAgain(c)
  BY Zenon, <1>6 DEF rateLimited, handleSignK8s, respondSignK8s, pollAgain
<1> QED
  BY Zenon, <1>1, <1>3, <1>4, <1>4a, <1>5, <1>6 DEF Step

LEMMA KeepsIssued ==
    ASSUME Functions, NEW c \in Calls, Step(c), HasIssued(slog[c])
    PROVE  HasIssued(slog'[c])
<1>1. CASE respondSignK8s(c)
  <2>1. PICK ok \in AuditOk :
           slog' = [slog EXCEPT ![c] = IF ok THEN WithRecord(@, srv[c].out) ELSE @]
    BY Zenon, <1>1 DEF respondSignK8s
  <2>2. slog'[c] = IF ok THEN WithRecord(slog[c], srv[c].out) ELSE slog[c]
    BY Zenon, <2>1 DEF Functions
  <2> QED
    BY Zenon, <2>2, IssuanceAdded
<1>2. CASE slog' = slog
  BY Zenon, <1>2
<1> QED
  BY Zenon, <1>1, <1>2 DEF Step, k8sPreflightDenied, K8sExecute, rateLimited, handleSignK8s,
     signRefused, dryRunAnswered, approvalError, noApproval, waitApproval, approve, decline,
     pollAgain, giveUp, signerUnavailable, callServer, finish

LEMMA KeepsLearned ==
    ASSUME Functions, NEW c \in Calls, NEW w, CallInv(c), Step(c), LearnedFrom(c, w)
    PROVE  LearnedFrom(c, w)'
BY Zenon, StaysApproved, KeepsCmd, KeepsIssued DEF LearnedFrom

(* A waiver comes from an approved request, after its record.              *)
LEMMA NewWaiver ==
    ASSUME Functions, NEW c \in Calls, CallInv(c), CallInv(c)', Step(c), NEW w,
           w \in waivers', w \notin waivers
    PROVE  LearnedFrom(c, w)'
<1>1. respondSignK8s(c)
  BY Zenon DEF Step, k8sPreflightDenied, K8sExecute, rateLimited, handleSignK8s, respondSignK8s,
         signRefused, dryRunAnswered, approvalError, noApproval, waitApproval, approve,
         decline, pollAgain, giveUp, signerUnavailable, callServer, finish
<1>2. PICK ok \in AuditOk :
         /\ srv' = [srv EXCEPT ![c].st = "answered", ![c].recorded = ok,
                               ![c].out = IF ok \/ ~FailClosed THEN @ ELSE "unavailable"]
         /\ waivers' = IF /\ (ok \/ ~FailClosed) /\ srv[c].out = "issued"
                          /\ srv[c].learn /\ decided[c].effect = "approval"
                       THEN waivers \cup {call[c].cmd} ELSE waivers
  BY Zenon, <1>1 DEF respondSignK8s
<1>3. /\ w = call[c].cmd /\ (ok \/ ~FailClosed) /\ srv[c].out = "issued"
      /\ decided[c].effect = "approval" /\ srv[c].st = "decided"
      /\ call' = call
  BY ZenonT(30), <1>1, <1>2 DEF respondSignK8s
<1>4. /\ srv'[c].st = "answered" /\ srv'[c].out = "issued"
      /\ srv'[c].approved = srv[c].approved
  BY <1>2, <1>3 DEF Functions, CallInv, SrvShape
<1>5. Issued(c) /\ Issued(c)'
  BY Zenon, <1>3, <1>4 DEF CallInv
<1> QED
  BY Zenon, <1>3, <1>4, <1>5 DEF Issued, LearnedFrom

LEMMA NextInv == K8sInv /\ [Next]_vars => K8sInv'
<1> SUFFICES ASSUME K8sInv, [Next]_vars PROVE K8sInv'
  OBVIOUS
<1>0. Functions /\ Learned /\ \A c \in Calls : CallInv(c)
  BY DEF K8sInv
<1>1. ASSUME NEW c \in Calls, Step(c) PROVE K8sInv'
  <2>1. Functions' /\ \A d \in Calls : d # c => Same(d)
    BY Zenon, <1>0, <1>1, Frame
  <2>2. CallInv(c)'
    BY Zenon, <1>0, <1>1, StepInv
  <2>3. ASSUME NEW d \in Calls PROVE CallInv(d)'
    BY Zenon, <1>0, <2>1, <2>2, SameInv
  <2>4. ASSUME NEW w \in waivers' PROVE \E d \in Calls : LearnedFrom(d, w)'
    <3>1. CASE w \notin waivers
      BY Zenon, <1>0, <1>1, <2>2, <3>1, NewWaiver
    <3>2. CASE w \in waivers
      <4>1. PICK d \in Calls : LearnedFrom(d, w)
        BY <1>0, <3>2 DEF Learned
      <4>2. CASE d = c
        BY ZenonT(30), <1>0, <1>1, <4>1, <4>2, KeepsLearned
      <4>3. CASE d # c
        BY <2>1, <4>1, <4>3, SameLearned
      <4> QED
        BY <4>2, <4>3
    <3> QED
      BY <3>1, <3>2
  <2> QED
    BY Zenon, <2>1, <2>3, <2>4 DEF K8sInv, Learned
<1>2. CASE refreshClusters \/ reload \/ expireWaiver \/ UNCHANGED vars
  <2>1. /\ UNCHANGED <<call, srv, slog, blog, ran, decided>>
        /\ waivers' \subseteq waivers
    BY Zenon, <1>2 DEF refreshClusters, reload, expireWaiver, vars
  <2>2. Functions' /\ \A d \in Calls : Same(d)
    BY <1>0, <2>1 DEF Functions, Same
  <2>3. ASSUME NEW d \in Calls PROVE CallInv(d)'
    BY Zenon, <1>0, <2>2, SameInv
  <2>4. ASSUME NEW w \in waivers' PROVE \E d \in Calls : LearnedFrom(d, w)'
    BY Zenon, <1>0, <2>1, <2>2, SameLearned DEF Learned
  <2> QED
    BY Zenon, <2>2, <2>3, <2>4 DEF K8sInv, Learned
<1> QED
  BY <1>1, <1>2 DEF Next

LEMMA AlwaysK8sInv == Spec => []K8sInv
BY InitK8s, NextInv, PTL DEF Spec

(***************************************************************************)
(* What the API server does is the action that the signer decided on,      *)
(* allowed or approved by a human, however the table of the broker lags    *)
(* behind the one of the signer: resolveK8s compares the canonical forms,  *)
(* and for a form that is equal and valid (K8sAction.Validate) the path    *)
(* that runK8sAction builds says the same.                                 *)
(***************************************************************************)
THEOREM RanAsDecidedHolds == Spec => []RanAsDecided
<1>1. K8sInv => RanAsDecided
  <2> SUFFICES ASSUME K8sInv, NEW c \in Calls, ran[c] # None
               PROVE  /\ ran[c] = decided[c].cmd
                      /\ decided[c].effect # "deny"
                      /\ decided[c].effect = "approval" => srv[c].approved
    BY DEF RanAsDecided
  <2>1. CallInv(c)
    BY ZenonT(30) DEF K8sInv
  <2>2. ran[c] = call[c].cmd /\ Issued(c)
    BY <2>1 DEF CallInv
  <2> QED
    BY Zenon, <2>2 DEF Issued
<1> QED
  BY <1>1, AlwaysK8sInv, PTL

(***************************************************************************)
(* Under fail-closed auditing nothing happens in the cluster without an    *)
(* issuance record of the signer (respondSignK8s), no result is shown      *)
(* without the completion record of the broker (the end of K8sExecute),    *)
(* and every waiver in force comes from an approved request that has its   *)
(* record.                                                                 *)
(***************************************************************************)
THEOREM TracedHolds == Spec => []Traced
<1>1. K8sInv => Traced
  <2> SUFFICES ASSUME K8sInv, FailClosed PROVE Traced
    BY Zenon DEF Traced
  <2>1. ASSUME NEW c \in Calls
        PROVE  /\ ran[c] # None => slog[c].issued
               /\ call[c].pc = "done" /\ call[c].result = "executed" => blog[c] = "executed"
    <3>1. CallInv(c)
      BY DEF K8sInv
    <3> QED
      BY Zenon, <3>1 DEF CallInv, Issued, HasIssued
  <2>2. ASSUME NEW w \in waivers
        PROVE  \E c \in Calls : srv[c].approved /\ call[c].cmd = w /\ slog[c].issued
    <3>1. PICK c \in Calls : LearnedFrom(c, w)
      BY ZenonT(30) DEF K8sInv, Learned
    <3> QED
      BY Zenon, <3>1 DEF LearnedFrom, HasIssued
  <2> QED
    BY ZenonT(30), <2>1, <2>2 DEF Traced
<1> QED
  BY <1>1, AlwaysK8sInv, PTL

-----------------------------------------------------------------------------
(* The two logs. *)

(* Until the answer there is no record of the signer, and after it the     *)
(* last one is the answer.  The broker writes its record last; if the      *)
(* answer was not lost to it, it tells of that answer.                     *)
StoryInv(c) ==
    /\ blog[c] # None => call[c].pc = "done"
    /\ srv[c].st # "answered" => ~srv[c].recorded
    /\ srv[c].st \in {"asked", "decided"} =>
          call[c].pc \in {"signing", "polling"} \/ call[c].lost
    /\ call[c].pc \in Unfinished => (srv[c].approved <=> call[c].pc = "polling")
    /\ call[c].pc = "recording" =>
          /\ srv[c].st = "answered" /\ srv[c].out = "issued"
          /\ call[c].result \in {"executed", "error"}
    /\ srv[c].recorded =>
          srv[c].out \in Outcomes /\ slog[c].last = srv[c].out
    /\ blog[c] # None /\ ~call[c].lost =>
          /\ srv[c].st \in {"none", "answered"}
          /\ srv[c].recorded => <<srv[c].out, blog[c]>> \in SameStory(srv[c].approved)

LEMMA InitStory ==
    ASSUME Init, NEW c \in Calls
    PROVE  StoryInv(c)
<1>1. call[c] = Idle /\ srv[c] = Unasked /\ blog[c] = None
  BY ZenonT(30) DEF Init
<1>2. /\ Idle.pc = "idle" /\ Unasked.st = "none" /\ Unasked.recorded = FALSE
      /\ Unasked.approved = FALSE
  BY DEF Idle, Unasked
<1> QED
  BY Zenon, <1>1, <1>2 DEF StoryInv

LEMMA SameStoryInv ==
    ASSUME NEW d \in Calls, StoryInv(d), Same(d)
    PROVE  StoryInv(d)'
BY Zenon DEF StoryInv, Same

(* The broker's best effort: the record, or none.                          *)
LEMMA Recorded ==
    ASSUME Functions, NEW c \in Calls, NEW o, BestEffort(c, o)
    PROVE  blog'[c] \in {o, blog[c]}
BY DEF Functions, BestEffort

(* A call ends with a record that tells of the answer it got.              *)
EndsWith(c, o) ==
    /\ call[c].pc \in Unfinished
    /\ call'[c].pc = "done" /\ call'[c].lost = call[c].lost
    /\ srv'[c] = srv[c] /\ slog'[c] = slog[c] /\ blog'[c] \in {o, blog[c]}
    /\ srv[c].st \in {"none", "answered"}
    /\ srv[c].recorded => <<srv[c].out, o>> \in SameStory(srv[c].approved)

LEMMA EndStory ==
    ASSUME NEW c \in Calls, StoryInv(c), NEW o, EndsWith(c, o)
    PROVE  StoryInv(c)'
<1>1. blog[c] = None /\ call'[c].pc \notin Unfinished
  BY Zenon DEF StoryInv, EndsWith, Unfinished
<1> QED
  BY Zenon, <1>1 DEF StoryInv, EndsWith

LEMMA DoneCall ==
    ASSUME Functions, NEW c \in Calls, CallInv(c), NEW r, Done(c, r)
    PROVE  /\ call'[c].pc = "done" /\ call'[c].lost = call[c].lost
           /\ call'[c].result = r
BY Zenon DEF Done, Functions, CallInv, CallShape

LEMMA EndsStory ==
    ASSUME Functions, NEW c \in Calls, CallInv(c), StoryInv(c),
           \/ k8sPreflightDenied(c) \/ signRefused(c) \/ dryRunAnswered(c)
           \/ approvalError(c) \/ noApproval(c) \/ decline(c) \/ giveUp(c)
    PROVE  StoryInv(c)'
<1>1. srv'[c] = srv[c] /\ slog'[c] = slog[c]
  BY Zenon DEF k8sPreflightDenied, signRefused, dryRunAnswered, approvalError, noApproval,
               decline, giveUp
<1>2. /\ call'[c].pc = "done" /\ call'[c].lost = call[c].lost
      /\ call[c].pc \in Unfinished
  BY ZenonT(30), DoneCall DEF k8sPreflightDenied, signRefused, dryRunAnswered, approvalError,
                  noApproval, decline, giveUp, Transient, Answered, Unfinished
<1>2a. srv[c].approved <=> call[c].pc = "polling"
  BY Zenon, <1>2 DEF StoryInv
<1>3. CASE k8sPreflightDenied(c)
  <2>1. srv[c].st \in {"none", "answered"} /\ ~srv[c].recorded
    BY Zenon, <1>3 DEF k8sPreflightDenied, CallInv, StoryInv
  <2>2. blog'[c] \in {"denied", blog[c]}
    BY Zenon, <1>3, Recorded DEF k8sPreflightDenied
  <2>3. srv[c].recorded => <<srv[c].out, "denied">> \in SameStory(srv[c].approved)
    BY Zenon, <2>1
  <2>4. EndsWith(c, "denied")
    BY Zenon, <1>1, <1>2, <2>1, <2>2, <2>3 DEF EndsWith
  <2> QED
    BY Zenon, <2>4, EndStory
<1>4. CASE signRefused(c)
  <2>1. srv[c].st \in {"none", "answered"} /\ srv[c].out \in {"denied", "limited", "error", "unavailable"}
    BY Zenon, <1>4 DEF signRefused, Answered
  <2>2. PICK o : /\ o = IF srv[c].out \in {"denied", "limited"} THEN "denied" ELSE "error"
                 /\ blog'[c] \in {o, blog[c]}
    BY Zenon, <1>4, Recorded DEF signRefused
  <2>3. srv[c].recorded => srv[c].out \in Outcomes
    BY Zenon DEF StoryInv
  <2>3a. srv[c].out = "denied" \/ ~srv[c].approved
    BY Zenon, <1>2a, <1>4 DEF signRefused, Answered
  <2>3b. srv[c].recorded => \/ srv[c].out = "denied" /\ o = "denied"
                            \/ srv[c].out = "error" /\ o = "error"
    BY Zenon, <2>1, <2>2, <2>3 DEF Outcomes
  <2>4. srv[c].recorded => <<srv[c].out, o>> \in SameStory(srv[c].approved)
    BY Zenon, <2>3a, <2>3b DEF SameStory
  <2>5. EndsWith(c, o)
    BY Zenon, <1>1, <1>2, <2>1, <2>2, <2>4 DEF EndsWith
  <2> QED
    BY Zenon, <2>5, EndStory
<1>5. CASE dryRunAnswered(c)
  <2>1. srv[c].st \in {"none", "answered"} /\ srv[c].out \in {"dry_run_allowed", "dry_run_denied"}
    BY Zenon, <1>5 DEF dryRunAnswered, Answered
  <2>2. blog'[c] \in {srv[c].out, blog[c]}
    BY Zenon, <1>5, Recorded DEF dryRunAnswered
  <2>3. <<srv[c].out, srv[c].out>> \in SameStory(srv[c].approved)
    <3>1. ~srv[c].approved
      BY Zenon, <1>2a, <1>5 DEF dryRunAnswered, Answered
    <3> QED
      BY Zenon, <2>1, <3>1 DEF SameStory
  <2>4. EndsWith(c, srv[c].out)
    BY Zenon, <1>1, <1>2, <2>1, <2>2, <2>3 DEF EndsWith
  <2> QED
    BY Zenon, <2>4, EndStory
<1>6. CASE approvalError(c)
  <2>1. srv[c].st \in {"none", "answered"} /\ srv[c].out = "approval-required"
    BY Zenon, <1>6 DEF approvalError, Answered
  <2>2. blog'[c] \in {"approval_required", blog[c]}
    BY Zenon, <1>6, Recorded DEF approvalError
  <2>3. <<srv[c].out, "approval_required">> \in SameStory(srv[c].approved)
    <3>1. ~srv[c].approved
      BY Zenon, <1>2a, <1>6 DEF approvalError, Answered
    <3> QED
      BY Zenon, <2>1, <3>1 DEF SameStory
  <2>4. EndsWith(c, "approval_required")
    BY Zenon, <1>1, <1>2, <2>1, <2>2, <2>3 DEF EndsWith
  <2> QED
    BY Zenon, <2>4, EndStory
<1>7. CASE decline(c)
  <2>1. srv[c].st \in {"none", "answered"} /\ srv[c].out = "approval-required"
    BY Zenon, <1>7 DEF decline, CallInv
  <2>2. blog'[c] \in {"denied", blog[c]}
    BY Zenon, <1>7, Recorded DEF decline
  <2>3. <<srv[c].out, "denied">> \in SameStory(srv[c].approved)
    <3>1. ~srv[c].approved
      BY Zenon, <1>2a, <1>7 DEF decline
    <3> QED
      BY Zenon, <2>1, <3>1 DEF SameStory
  <2>4. EndsWith(c, "denied")
    BY Zenon, <1>1, <1>2, <2>1, <2>2, <2>3 DEF EndsWith
  <2> QED
    BY Zenon, <2>4, EndStory
<1>8. CASE noApproval(c)
  <2>1. /\ srv[c].st \in {"none", "answered"} /\ srv[c].out = "approval-required"
        /\ ~srv[c].approved
    BY Zenon, <1>2a, <1>8 DEF noApproval, Answered
  <2>2. PICK o \in {"denied", "error"} : blog'[c] \in {o, blog[c]}
    BY Zenon, <1>8, Recorded DEF noApproval
  <2>3. <<srv[c].out, o>> \in SameStory(srv[c].approved)
    BY Zenon, <2>1, <2>2 DEF SameStory
  <2>4. EndsWith(c, o)
    BY ZenonT(30), <1>1, <1>2, <2>1, <2>2, <2>3 DEF EndsWith
  <2> QED
    BY Zenon, <2>4, EndStory
<1>9. CASE giveUp(c)
  <2>1. /\ srv[c].st \in {"none", "answered"} /\ srv[c].approved
        /\ srv[c].out \in {"limited", "error", "unavailable", "issued"}
    BY Zenon, <1>2a, <1>9 DEF giveUp, Transient, Answered
  <2>2. blog'[c] \in {"denied", blog[c]}
    BY Zenon, <1>9, Recorded DEF giveUp
  <2>3. srv[c].recorded => srv[c].out \in {"error", "issued"}
    BY Zenon, <2>1 DEF StoryInv, Outcomes
  <2>4. srv[c].recorded => <<srv[c].out, "denied">> \in SameStory(srv[c].approved)
    BY Zenon, <2>1, <2>3 DEF SameStory
  <2>5. EndsWith(c, "denied")
    BY Zenon, <1>1, <1>2, <2>1, <2>2, <2>4 DEF EndsWith
  <2> QED
    BY Zenon, <2>5, EndStory
<1> QED
  BY Zenon, <1>3, <1>4, <1>5, <1>6, <1>7, <1>8, <1>9

LEMMA UnavailableStory ==
    ASSUME Functions, NEW c \in Calls, CallInv(c), StoryInv(c), signerUnavailable(c)
    PROVE  StoryInv(c)'
<1>1. srv' = srv /\ slog' = slog
  BY DEF signerUnavailable
<1>2. call'[c].pc = "done" /\ call'[c].lost = TRUE
  BY Zenon DEF signerUnavailable, Functions, CallInv, CallShape
<1> QED
  BY Zenon, <1>1, <1>2 DEF StoryInv, Unfinished

(* The steps of the signer, and of the broker before its record.           *)
LEMMA AskStory ==
    ASSUME Functions, NEW c \in Calls, CallInv(c), StoryInv(c), K8sExecute(c)
    PROVE  StoryInv(c)'
<1>1. UNCHANGED <<slog, blog>> /\ blog[c] = None
  BY Zenon DEF K8sExecute, StoryInv
<1>2. call'[c].pc = "signing"
  BY ZenonT(30) DEF K8sExecute, Functions, CallInv, CallShape
<1>3. srv'[c].st = "asked" /\ ~srv'[c].recorded /\ ~srv'[c].approved
  <2>1. srv[c].st = "none" /\ ~srv[c].recorded /\ ~srv[c].approved
    BY Zenon DEF K8sExecute, CallInv, StoryInv
  <2>2. srv' = [srv EXCEPT ![c].st = "asked"]
    BY Zenon DEF K8sExecute
  <2> QED
    BY Zenon, <2>1, <2>2 DEF Functions, CallInv, SrvShape
<1> QED
  BY Zenon, <1>1, <1>2, <1>3 DEF StoryInv

LEMMA ForwardStory ==
    ASSUME Functions, NEW c \in Calls, CallInv(c), StoryInv(c),
           approve(c) \/ pollAgain(c)
    PROVE  StoryInv(c)'
<1>1. UNCHANGED <<slog, blog>> /\ blog[c] = None
  BY Zenon DEF approve, pollAgain, Transient, Answered, StoryInv
<1>2. call'[c].pc = "polling"
  BY ZenonT(30) DEF approve, pollAgain, Transient, Answered, Functions, CallInv, CallShape
<1>3. \E l : srv'[c] = Forwarded(l)
  BY Zenon, ApprovedForward
<1>4. srv'[c].st = "asked" /\ ~srv'[c].recorded /\ srv'[c].approved
  BY Zenon, <1>3, ForwardedFields
<1> QED
  BY Zenon, <1>1, <1>2, <1>4 DEF StoryInv

LEMMA LimitedStory ==
    ASSUME Functions, NEW c \in Calls, CallInv(c), StoryInv(c), rateLimited(c)
    PROVE  StoryInv(c)'
<1>1. srv[c].st = "asked" /\ UNCHANGED <<call, slog, blog>>
  BY DEF rateLimited
<1>2. /\ srv'[c].st = "answered" /\ ~srv'[c].recorded
      /\ srv'[c].approved = srv[c].approved
  BY ZenonT(30) DEF rateLimited, Functions, CallInv, SrvShape
<1>3. call[c].pc # "recording"
  BY Zenon, <1>1 DEF StoryInv
<1> QED
  BY Zenon, <1>1, <1>2, <1>3 DEF StoryInv

LEMMA DecideStory ==
    ASSUME Functions, NEW c \in Calls, CallInv(c), StoryInv(c), handleSignK8s(c)
    PROVE  StoryInv(c)'
<1>1. srv[c].st = "asked" /\ ~srv[c].recorded /\ UNCHANGED <<call, slog, blog>>
  BY DEF handleSignK8s, StoryInv
<1>2. PICK o : srv' = [srv EXCEPT ![c].st = "decided", ![c].out = o]
  BY Zenon DEF handleSignK8s
<1>3. /\ srv'[c].st = "decided" /\ ~srv'[c].recorded
      /\ srv'[c].approved = srv[c].approved
  BY Zenon, <1>1, <1>2 DEF Functions, CallInv, SrvShape
<1> QED
  BY Zenon, <1>1, <1>3 DEF StoryInv

LEMMA RespondStory ==
    ASSUME Functions, NEW c \in Calls, CallInv(c), StoryInv(c), respondSignK8s(c)
    PROVE  StoryInv(c)'
<1>1. srv[c].st = "decided" /\ UNCHANGED <<call, blog>>
  BY DEF respondSignK8s
<1>2. PICK ok \in BOOLEAN :
         /\ slog' = [slog EXCEPT ![c] = IF ok THEN WithRecord(@, srv[c].out) ELSE @]
         /\ srv' = [srv EXCEPT ![c].st = "answered", ![c].recorded = ok,
                               ![c].out = IF ok \/ ~FailClosed THEN @ ELSE "unavailable"]
  BY Zenon, K8sAssumption DEF respondSignK8s
<1>3. /\ srv'[c].st = "answered" /\ srv'[c].recorded = ok
      /\ srv'[c].approved = srv[c].approved
      /\ ok => srv'[c].out = srv[c].out
  BY <1>2 DEF Functions, CallInv, SrvShape
<1>4. ok => slog'[c] = WithRecord(slog[c], srv[c].out)
  BY Zenon, <1>2 DEF Functions
<1>5. srv[c].out \in Outcomes
  BY Zenon, <1>1 DEF CallInv
<1>5a. WithRecord(slog[c], srv[c].out).last = srv[c].out
  BY Zenon, LastRecord
<1>6. ok => slog'[c].last = srv'[c].out /\ srv'[c].out \in Outcomes
  BY Zenon, <1>3, <1>4, <1>5, <1>5a
<1>7. call[c].pc # "recording" /\ (blog[c] = None \/ call[c].lost)
  BY Zenon, <1>1 DEF StoryInv
<1> QED
  BY Zenon, <1>1, <1>3, <1>6, <1>7 DEF StoryInv

LEMMA WaitStory ==
    ASSUME Functions, NEW c \in Calls, CallInv(c), StoryInv(c), waitApproval(c)
    PROVE  StoryInv(c)'
<1>1. /\ srv[c].st = "answered" /\ UNCHANGED <<srv, slog, blog>> /\ blog[c] = None
      /\ ~srv[c].approved
  BY Zenon DEF waitApproval, Answered, StoryInv, Unfinished
<1>2. call'[c].pc = "waiting"
  BY DEF waitApproval, Functions, CallInv, CallShape
<1> QED
  BY Zenon, <1>1, <1>2 DEF StoryInv

LEMMA ServerStory ==
    ASSUME Functions, NEW c \in Calls, CallInv(c), StoryInv(c), callServer(c)
    PROVE  StoryInv(c)'
<1>1. /\ srv[c].st = "answered" /\ srv[c].out = "issued"
      /\ UNCHANGED <<srv, slog, blog>> /\ blog[c] = None
  BY DEF callServer, Answered, StoryInv
<1>2. PICK r \in {"executed", "error"} :
         call' = [call EXCEPT ![c].pc = "recording", ![c].result = r]
  BY Zenon DEF callServer
<1>3. call'[c].pc = "recording" /\ call'[c].result = r
  BY Zenon, <1>2 DEF Functions, CallInv, CallShape
<1> QED
  BY Zenon, <1>1, <1>2, <1>3 DEF StoryInv, Unfinished

LEMMA FinishStory ==
    ASSUME Functions, NEW c \in Calls, CallInv(c), StoryInv(c), finish(c)
    PROVE  StoryInv(c)'
<1>1. /\ call[c].pc = "recording" /\ UNCHANGED <<srv, slog>> /\ blog[c] = None
      /\ srv[c].st = "answered" /\ srv[c].out = "issued"
      /\ call[c].result \in {"executed", "error"}
  BY Zenon DEF finish, StoryInv
<1>2. blog'[c] \in {call[c].result, None}
  BY <1>1 DEF finish, Functions
<1>3. call'[c].pc = "done" /\ call'[c].lost = call[c].lost
  BY Zenon, DoneCall DEF finish
<1>4. <<srv[c].out, call[c].result>> \in SameStory(srv[c].approved)
  BY Zenon, <1>1 DEF SameStory
<1> QED
  BY Zenon, <1>1, <1>2, <1>3, <1>4 DEF StoryInv, Unfinished

LEMMA StepStory ==
    ASSUME Functions, NEW c \in Calls, CallInv(c), StoryInv(c), Step(c)
    PROVE  StoryInv(c)'
BY ZenonT(30), EndsStory, UnavailableStory, AskStory, ForwardStory, LimitedStory, DecideStory, RespondStory,
   WaitStory,
   ServerStory, FinishStory DEF Step

Stories == K8sInv /\ \A c \in Calls : StoryInv(c)

LEMMA StoriesNext == Stories /\ [Next]_vars => Stories'
<1> SUFFICES ASSUME Stories, [Next]_vars PROVE Stories'
  OBVIOUS
<1>1. K8sInv' /\ Functions /\ \A c \in Calls : CallInv(c) /\ StoryInv(c)
  BY NextInv DEF Stories, K8sInv
<1>2. ASSUME NEW c \in Calls, Step(c), NEW d \in Calls PROVE StoryInv(d)'
  <2>1. CASE d = c
    BY Zenon, <1>1, <1>2, <2>1, StepStory
  <2>2. CASE d # c
    BY Zenon, <1>1, <1>2, <2>2, Frame, SameStoryInv
  <2> QED
    BY <2>1, <2>2
<1>3. ASSUME refreshClusters \/ reload \/ expireWaiver \/ UNCHANGED vars, NEW d \in Calls
      PROVE  StoryInv(d)'
  <2>1. Same(d)
    BY Zenon, <1>3 DEF refreshClusters, reload, expireWaiver, vars, Same
  <2> QED
    BY Zenon, <1>1, <2>1, SameStoryInv
<1> QED
  BY Zenon, <1>1, <1>2, <1>3 DEF Next, Stories

(***************************************************************************)
(* The logs of signer and broker agree on every call whose answer reached  *)
(* the broker: the last record of the signer (respondSignK8s) and the      *)
(* record of the broker (auditK8s, k8sPreflightDenied, the end of          *)
(* K8sExecute) tell the same outcome, through any number of approvals,     *)
(* reloads and failed appends; a request that failed after its approval is *)
(* a denial to the broker (pollApproval, classifySignErr).                 *)
(***************************************************************************)
THEOREM LogsAgreeHolds == Spec => []LogsAgree
<1>1. ASSUME Init PROVE Stories
  BY Zenon, <1>1, InitK8s, InitStory DEF Stories
<1>2. ASSUME Stories PROVE LogsAgree
  <2> SUFFICES ASSUME NEW c \in Calls, blog[c] # None, srv[c].recorded, ~call[c].lost
               PROVE  <<slog[c].last, blog[c]>> \in SameStory(srv[c].approved)
    BY ZenonT(30) DEF LogsAgree
  <2>1. /\ slog[c].last = srv[c].out
        /\ <<srv[c].out, blog[c]>> \in SameStory(srv[c].approved)
    BY Zenon, <1>2 DEF Stories, StoryInv
  <2> QED
    BY Zenon, <2>1
<1> QED
  BY <1>1, <1>2, StoriesNext, PTL DEF Spec

-----------------------------------------------------------------------------
(* The bridge.  FourEyes speaks of decisions that were relayed.  When one  *)
(* is, the clicker has seen a card, and what has a card and is pending has *)
(* been in an answer of List since the process first had one: so the       *)
(* process knows who made the request.  Noted says that, Carded that what  *)
(* is on a card or was listed is no new request.                           *)
Carded(i) ==
  /\ i \in live \/ cards[i] # 0 \/ approvedBy[i] # NoOne => status[i] # "none"
  /\ cards[i] \in Nat

Noted(i) ==
  status[i] = "pending" /\ (i \in live \/ cards[i] # 0) =>
    /\ listed => origins[i] = origin[i]
    /\ run = "post" => i \in live

Clicked(d) == d \in Decision /\ cards[d.id] # 0

BridgeInv ==
  /\ status = [i \in Ids |-> status[i]] /\ approvedBy = [i \in Ids |-> approvedBy[i]]
  /\ cards = [i \in Ids |-> cards[i]] /\ origins = [i \in Ids |-> origins[i]]
  /\ origin \in [Ids -> Users \cup {""}]
  /\ run = "post" => listed
  /\ todo \subseteq live /\ live \subseteq Ids
  /\ listen = "sending" => Clicked(held)
  /\ decisions \in Seq(Decision) /\ \A k \in DOMAIN decisions : Clicked(decisions[k])
  /\ \A i \in Ids : Carded(i) /\ Noted(i)
  /\ FourEyes

LEMMA InitBridge == BridgeInit => BridgeInv
<1> SUFFICES ASSUME BridgeInit PROVE BridgeInv
  OBVIOUS
<1>1. decisions \in Seq(Decision) /\ DOMAIN decisions = {}
  <2>1. decisions = <<>>
    BY Zenon DEF BridgeInit
  <2> QED
    BY <2>1
<1>2. \A i \in Ids : status[i] = "none" /\ cards[i] = 0 /\ approvedBy[i] = NoOne
  BY DEF BridgeInit, Unknown
<1>3. 0 \in Nat /\ "none" # "pending" /\ run # "post" /\ listen # "sending" /\ live = {} /\ todo = {}
  BY DEF BridgeInit
<1>4. \A i \in Ids : Carded(i) /\ Noted(i)
  BY Zenon, <1>2, <1>3 DEF Carded, Noted
<1>5. FourEyes
  BY Zenon, <1>2 DEF FourEyes
<1>6. origin \in [Ids -> Users \cup {""}]
  BY Zenon DEF BridgeInit
<1>7. /\ status = [i \in Ids |-> status[i]] /\ approvedBy = [i \in Ids |-> approvedBy[i]]
      /\ cards = [i \in Ids |-> cards[i]] /\ origins = [i \in Ids |-> origins[i]]
  BY Zenon DEF BridgeInit, Unknown
<1> QED
  BY Zenon, <1>1, <1>3, <1>4, <1>5, <1>6, <1>7 DEF BridgeInv

LEMMA AppendIn ==
  ASSUME NEW S, NEW q \in Seq(S), NEW e \in S
  PROVE  Append(q, e) \in Seq(S)
OBVIOUS

(* Steps that leave the requests, the cards and what the process knows of  *)
(* them alone.                                                             *)
LEMMA BridgeKept ==
    ASSUME BridgeInv, UNCHANGED <<cpVars, cards, origins, live, todo, listed>>,
           run' = "post" => run = "post", listen' = "sending" => Clicked(held'),
           decisions' \in Seq(Decision), \A k \in DOMAIN decisions' : Clicked(decisions'[k])
    PROVE  BridgeInv'
<1>1. UNCHANGED <<status, origin, approvedBy, cards, origins, live, todo, listed>>
  BY ZenonT(30) DEF cpVars
<1>2. ASSUME NEW i \in Ids PROVE Carded(i)' /\ Noted(i)'
  <2>1. Carded(i) /\ Noted(i)
    BY Zenon DEF BridgeInv
  <2> QED
    BY <1>1, <2>1 DEF Carded, Noted
<1>3. FourEyes'
  BY Zenon, <1>1 DEF BridgeInv, FourEyes
<1>4. /\ listen' = "sending" => Clicked(held)'
      /\ \A k \in DOMAIN decisions' : Clicked(decisions[k])'
  BY Zenon, <1>1 DEF Clicked
<1>5. ASSUME run' = "post" PROVE listed'
  <2>1. listed
    BY Zenon, <1>5 DEF BridgeInv
  <2>2. listed' = listed
    BY Zenon, <1>1
  <2> QED
    BY <2>1, <2>2
<1>6. /\ status' = [i \in Ids |-> status'[i]] /\ approvedBy' = [i \in Ids |-> approvedBy'[i]]
      /\ cards' = [i \in Ids |-> cards'[i]] /\ origins' = [i \in Ids |-> origins'[i]]
      /\ origin' \in [Ids -> Users \cup {""}] /\ todo' \subseteq live' /\ live' \subseteq Ids
  BY Zenon, <1>1 DEF BridgeInv
<1> QED
  BY Zenon, <1>2, <1>3, <1>4, <1>5, <1>6 DEF BridgeInv

LEMMA SlackInv ==
    ASSUME BridgeInv,
           \/ pollFailed \/ stop \/ (\E up \in BOOLEAN : handleLink(up))
           \/ (\E d \in Decision : handleClick(d)) \/ sendDecision \/ listenExit \/ UNCHANGED bridgeVars
    PROVE  BridgeInv'
<1> DEFINE Kept == UNCHANGED <<cpVars, cards, origins, live, todo, listed>>
           Moved == run' = "post" => run = "post"
           Sends == listen' = "sending" => Clicked(held')
           Queue == decisions' \in Seq(Decision) /\ \A k \in DOMAIN decisions' : Clicked(decisions'[k])
<1>1. Kept /\ Moved
  <2>1. "select" # "post" /\ "exited" # "post"
    OBVIOUS
  <2> QED
    BY Zenon, <2>1 DEF pollFailed, stop, handleLink, handleClick, sendDecision, listenExit, bridgeVars, runVars,
       slackVars, counters
<1>2. CASE UNCHANGED <<listen, held, decisions>>
  BY Zenon, <1>1, <1>2, BridgeKept DEF BridgeInv
<1>3. ASSUME NEW d \in Decision, handleClick(d) PROVE BridgeInv'
  <2>1. cards[d.id] > 0 /\ held' = d /\ decisions' = decisions
    BY ZenonT(30), <1>3 DEF handleClick
  <2>2. cards[d.id] # 0
    BY <2>1
  <2> QED
    BY Zenon, <1>1, <2>1, <2>2, BridgeKept DEF Clicked, BridgeInv
<1>4. CASE sendDecision
  <2>1. listen = "sending" /\ decisions' = Append(decisions, held) /\ listen' = "idle"
    BY Zenon, <1>4 DEF sendDecision
  <2>2. Clicked(held) /\ held \in Decision
    BY Zenon, <2>1 DEF BridgeInv, Clicked
  <2>3. decisions \in Seq(Decision) /\ \A k \in DOMAIN decisions : Clicked(decisions[k])
    BY Zenon DEF BridgeInv
  <2>4. decisions' \in Seq(Decision)
    BY ZenonT(30), <2>1, <2>2, <2>3, AppendIn
  <2>5. \A k \in DOMAIN decisions' : decisions'[k] = held \/ (k \in DOMAIN decisions /\ decisions'[k] = decisions[k])
    BY <2>1, <2>2, <2>3
  <2>6. listen' # "sending"
    BY <2>1
  <2> QED
    BY ZenonT(30), <1>1, <2>2, <2>3, <2>4, <2>5, <2>6, BridgeKept
<1>5. CASE listenExit
  <2>1. listen' # "sending" /\ decisions' = decisions
    BY <1>5 DEF listenExit
  <2> QED
    BY Zenon, <1>1, <2>1, BridgeKept DEF BridgeInv
<1> QED
  BY Zenon, <1>2, <1>3, <1>4, <1>5 DEF pollFailed, stop, handleLink, bridgeVars, slackVars

(* The control plane's own steps.                                          *)
LEMMA RequestsInv ==
    ASSUME BridgeInv, NEW i \in Ids, (\E u \in Users \cup {""} : request(i, u)) \/ settle(i) \/ purge(i)
    PROVE  BridgeInv'
<1>1. /\ UNCHANGED <<approvedBy, cards, run, posted, origins, live, todo, listed, listen, held, decisions>>
      /\ origin' = origin \/ (status[i] = "none" /\ \E u \in Users \cup {""} : origin' = [origin EXCEPT ![i] = u])
      /\ \E x : /\ status' = [status EXCEPT ![i] = x] /\ x # "none"
                /\ status[i] # "none" => x # "pending" /\ origin' = origin
  <2>1. "pending" # "none" /\ "settled" \notin {"none", "pending"} /\ "purged" \notin {"none", "pending"}
    OBVIOUS
  <2>2. UNCHANGED <<approvedBy, cards, run, posted, origins, live, todo, listed, listen, held, decisions>>
    BY Zenon DEF request, settle, purge, runVars, slackVars
  <2> QED
    BY Zenon, <2>1, <2>2 DEF request, settle, purge
<1>2. PICK x : /\ status' = [status EXCEPT ![i] = x] /\ x # "none"
               /\ status[i] # "none" => x # "pending" /\ origin' = origin
  BY Zenon, <1>1
<1>3. status = [j \in Ids |-> status[j]] /\ origin \in [Ids -> Users \cup {""}]
  BY Zenon DEF BridgeInv
<1>4. \A j \in Ids : status'[j] = IF j = i THEN x ELSE status[j]
  BY <1>2, <1>3
<1>5. /\ origin' \in [Ids -> Users \cup {""}]
      /\ \A j \in Ids : j # i \/ status[i] # "none" => origin'[j] = origin[j]
  BY Zenon, <1>1, <1>2, <1>3
<1>6. ASSUME NEW j \in Ids PROVE Carded(j)' /\ Noted(j)'
  <2>1. Carded(j) /\ Noted(j)
    BY Zenon DEF BridgeInv
  <2>2. CASE j = i
    BY ZenonT(30), <1>1, <1>2, <1>4, <1>5, <2>1, <2>2 DEF Carded, Noted
  <2>3. CASE j # i
    BY Zenon, <1>1, <1>4, <1>5, <2>1, <2>3 DEF Carded, Noted
  <2> QED
    BY Zenon, <2>2, <2>3
<1>7. FourEyes'
  <2> SUFFICES ASSUME NEW j \in Ids, approvedBy'[j] # NoOne, approvedBy'[j].known
               PROVE  identity[approvedBy'[j].by] = "" \/ identity[approvedBy'[j].by] # origin'[j]
    BY Zenon DEF FourEyes
  <2>1. status[j] # "none"
    BY Zenon, <1>1 DEF BridgeInv, Carded
  <2>2. origin'[j] = origin[j]
    BY Zenon, <1>5, <2>1
  <2> QED
    BY Zenon, <1>1, <2>2 DEF BridgeInv, FourEyes
<1>8. status' = [j \in Ids |-> status'[j]]
  BY <1>2, <1>3
<1>9. /\ listen' = "sending" => Clicked(held)'
      /\ decisions' \in Seq(Decision) /\ \A k \in DOMAIN decisions' : Clicked(decisions[k])'
  BY Zenon, <1>1 DEF BridgeInv, Clicked
<1>10. /\ approvedBy' = [j \in Ids |-> approvedBy'[j]] /\ cards' = [j \in Ids |-> cards'[j]]
       /\ origins' = [j \in Ids |-> origins'[j]] /\ (run' = "post" => listed')
       /\ todo' \subseteq live' /\ live' \subseteq Ids
  BY Zenon, <1>1 DEF BridgeInv
<1> QED
  BY Zenon, <1>5, <1>6, <1>7, <1>8, <1>9, <1>10 DEF BridgeInv

(* poll, up to the answer of List and at its end.                          *)
LEMMA PollAgainInvKept ==
    ASSUME BridgeInv, poll \/ pollEnd
    PROVE  BridgeInv'
<1>1. UNCHANGED <<status, origin, approvedBy, cards, listen, held, decisions>> /\ listed'
  <2>1. CASE poll
    BY Zenon, <2>1 DEF poll, cpVars, slackVars
  <2>2. CASE pollEnd
    BY Zenon, <2>2 DEF pollEnd, cpVars, slackVars, BridgeInv
  <2> QED
    BY Zenon, <2>1, <2>2
<1>2. /\ \A i \in Ids : Carded(i)' /\ Noted(i)'
      /\ origins' = [i \in Ids |-> origins'[i]] /\ todo' \subseteq live' /\ live' \subseteq Ids
  <2>1. CASE poll
    <3>1. /\ live' = Listed /\ todo' \subseteq Listed /\ Listed \subseteq Ids
          /\ \A i \in Ids : i \in Listed => origins'[i] = origin[i]
      BY Zenon, <2>1 DEF poll, Listed
    <3>2. origins' = [i \in Ids |-> origins'[i]]
      BY Zenon, <2>1 DEF poll
    <3>3. \A i \in Ids : (status[i] = "pending" => i \in Listed) /\ (i \in Listed => status[i] # "none")
      BY DEF Listed
    <3>4. \A i \in Ids : Carded(i)' /\ Noted(i)'
      BY Zenon, <1>1, <3>1, <3>3 DEF BridgeInv, Carded, Noted
    <3> QED
      BY Zenon, <3>1, <3>2, <3>4
  <2>2. CASE pollEnd
    <3>1. /\ run = "post" /\ run' # "post" /\ live' = {} /\ todo' = {} /\ listed
          /\ origins' = [i \in Ids |-> IF i \in live THEN origins[i] ELSE NoOne]
      BY <2>2 DEF pollEnd, BridgeInv
    <3>2. \A i \in Ids : i \in live => origins'[i] = origins[i]
      BY Zenon, <3>1
    <3>3. \A i \in Ids : Carded(i)' /\ Noted(i)'
      BY Zenon, <1>1, <3>1, <3>2 DEF BridgeInv, Carded, Noted
    <3>4. origins' = [i \in Ids |-> origins'[i]]
      BY Zenon, <3>1
    <3> QED
      BY ZenonT(30), <3>1, <3>3, <3>4
  <2> QED
    BY Zenon, <2>1, <2>2
<1>3. FourEyes'
  BY Zenon, <1>1 DEF BridgeInv, FourEyes
<1>4. /\ listen' = "sending" => Clicked(held)'
      /\ decisions' \in Seq(Decision) /\ \A k \in DOMAIN decisions' : Clicked(decisions[k])'
  BY Zenon, <1>1 DEF BridgeInv, Clicked
<1>5. /\ status' = [i \in Ids |-> status'[i]] /\ approvedBy' = [i \in Ids |-> approvedBy'[i]]
      /\ cards' = [i \in Ids |-> cards'[i]] /\ origin' \in [Ids -> Users \cup {""}]
  BY Zenon, <1>1 DEF BridgeInv
<1> QED
  BY Zenon, <1>1, <1>2, <1>3, <1>4, <1>5 DEF BridgeInv

LEMMA PostInv ==
    ASSUME BridgeInv, NEW i \in Ids, Post(i)
    PROVE  BridgeInv'
<1>1. /\ UNCHANGED <<status, origin, approvedBy, run, origins, live, listed, listen, held, decisions>>
      /\ i \in live /\ todo' \subseteq live
  BY Zenon DEF Post, cpVars, slackVars, BridgeInv
<1>2. cards = [j \in Ids |-> cards[j]] /\ \A j \in Ids : cards[j] \in Nat
  BY Zenon DEF BridgeInv, Carded
<1>3. cards' = cards \/ \E n \in {0, 1} : cards' = [cards EXCEPT ![i] = @ + n]
  BY Zenon DEF Post
<1>4. /\ cards' = [j \in Ids |-> cards'[j]]
      /\ \A j \in Ids : cards'[j] \in Nat /\ (j # i => cards'[j] = cards[j]) /\ (cards[j] # 0 => cards'[j] # 0)
  BY <1>2, <1>3
<1>5. ASSUME NEW j \in Ids PROVE Carded(j)' /\ Noted(j)'
  <2>1. Carded(j) /\ Noted(j)
    BY Zenon DEF BridgeInv
  <2>2. cards'[j] # 0 => j \in live \/ cards[j] # 0
    BY Zenon, <1>1, <1>4
  <2> QED
    BY Zenon, <1>1, <1>4, <2>1, <2>2 DEF Carded, Noted
<1>6. FourEyes'
  BY Zenon, <1>1 DEF BridgeInv, FourEyes
<1>7. \A d : Clicked(d) => Clicked(d)'
  BY Zenon, <1>4 DEF Clicked, Decision
<1>8. /\ listen' = "sending" => Clicked(held)'
      /\ decisions' \in Seq(Decision) /\ \A k \in DOMAIN decisions' : Clicked(decisions[k])'
  BY Zenon, <1>1, <1>4 DEF BridgeInv, Clicked, Decision
<1>9. /\ status' = [j \in Ids |-> status'[j]] /\ approvedBy' = [j \in Ids |-> approvedBy'[j]]
      /\ origins' = [j \in Ids |-> origins'[j]] /\ origin' \in [Ids -> Users \cup {""}]
      /\ (run' = "post" => listed') /\ todo' \subseteq live' /\ live' \subseteq Ids
  BY Zenon, <1>1 DEF BridgeInv
<1> QED
  BY Zenon, <1>4, <1>5, <1>6, <1>8, <1>9 DEF BridgeInv

(* One decision is taken from the channel.  d is its request's pending     *)
(* decision: there is a card, so the origin is noted.                      *)
LEMMA DecideBridge ==
    ASSUME BridgeInv, decide
    PROVE  BridgeInv'
<1>1. PICK d : d = Head(decisions)
  OBVIOUS
<1>2. /\ decisions # <<>> /\ decisions' = Tail(decisions) /\ run = "select"
      /\ UNCHANGED <<origin, cards, run, live, todo, listed, listen, held>>
      /\ IF d.approve /\ isSelfApproval(d)
         THEN UNCHANGED <<status, approvedBy, posted, origins, faults>> ELSE Decide(d)
  BY Zenon, <1>1 DEF decide
<1>3. /\ decisions \in Seq(Decision) /\ \A k \in DOMAIN decisions : Clicked(decisions[k])
      /\ approvedBy = [i \in Ids |-> approvedBy[i]] /\ status = [i \in Ids |-> status[i]]
      /\ origins = [i \in Ids |-> origins[i]]
  BY Zenon DEF BridgeInv
<1>4. /\ decisions' \in Seq(Decision) /\ Clicked(d)
      /\ \A k \in DOMAIN decisions' : Clicked(decisions'[k])
  <2>1. /\ decisions' \in Seq(Decision) /\ 1 \in DOMAIN decisions /\ d = decisions[1]
        /\ \A k \in DOMAIN decisions' : k + 1 \in DOMAIN decisions /\ decisions'[k] = decisions[k + 1]
    BY <1>1, <1>2, <1>3
  <2> QED
    BY Zenon, <1>3, <2>1
<1>5. /\ listen' = "sending" => Clicked(held)'
      /\ \A k \in DOMAIN decisions' : Clicked(decisions[k])'
  BY Zenon, <1>2, <1>4 DEF BridgeInv, Clicked
<1>6. d.id \in Ids /\ d.by \in Clickers /\ cards[d.id] # 0
  BY Zenon, <1>4 DEF Clicked, Decision
<1>7. /\ (run' = "post" => listed') /\ todo' \subseteq live' /\ live' \subseteq Ids
      /\ cards' = [i \in Ids |-> cards'[i]] /\ origin' \in [Ids -> Users \cup {""}]
  BY Zenon, <1>2 DEF BridgeInv
<1>8. CASE UNCHANGED <<status, approvedBy, origins>>
  <2>1. \A i \in Ids : Carded(i)' /\ Noted(i)'
    BY Zenon, <1>2, <1>8 DEF BridgeInv, Carded, Noted
  <2>2. FourEyes'
    BY Zenon, <1>2, <1>8 DEF BridgeInv, FourEyes
  <2>3. /\ status' = [i \in Ids |-> status'[i]] /\ approvedBy' = [i \in Ids |-> approvedBy'[i]]
        /\ origins' = [i \in Ids |-> origins'[i]]
    BY Zenon, <1>3, <1>8
  <2> QED
    BY Zenon, <1>4, <1>5, <1>7, <2>1, <2>2, <2>3 DEF BridgeInv
<1>9. ASSUME ~(d.approve /\ isSelfApproval(d)), status[d.id] = "pending",
             status' = [status EXCEPT ![d.id] = "settled"],
             approvedBy' = [approvedBy EXCEPT ![d.id] =
                              IF d.approve THEN [by |-> d.by, known |-> listed] ELSE @],
             origins' = [origins EXCEPT ![d.id] = NoOne] \/ origins' = origins
      PROVE  BridgeInv'
  <2>1. /\ status'[d.id] = "settled" /\ \A i \in Ids : i # d.id => status'[i] = status[i]
        /\ status' = [i \in Ids |-> status'[i]]
    BY Zenon, <1>3, <1>6, <1>9
  <2>2. /\ \A i \in Ids : i # d.id => approvedBy'[i] = approvedBy[i]
        /\ approvedBy'[d.id] = IF d.approve THEN [by |-> d.by, known |-> listed] ELSE approvedBy[d.id]
        /\ approvedBy' = [i \in Ids |-> approvedBy'[i]]
    BY Zenon, <1>3, <1>6, <1>9
  <2>3. /\ \A i \in Ids : i # d.id => origins'[i] = origins[i]
        /\ origins' = [i \in Ids |-> origins'[i]]
    BY Zenon, <1>3, <1>6, <1>9
  <2>4. "settled" # "none" /\ "settled" # "pending"
    OBVIOUS
  <2>5. ASSUME NEW i \in Ids PROVE Carded(i)' /\ Noted(i)'
    <3>1. Carded(i) /\ Noted(i)
      BY Zenon DEF BridgeInv
    <3>2. CASE i = d.id
      BY Zenon, <1>2, <2>1, <2>4, <3>1, <3>2 DEF Carded, Noted
    <3>3. CASE i # d.id
      BY Zenon, <1>2, <2>1, <2>2, <2>3, <3>1, <3>3 DEF Carded, Noted
    <3> QED
      BY Zenon, <3>2, <3>3
  <2>6. FourEyes'
    <3> SUFFICES ASSUME NEW i \in Ids, approvedBy'[i] # NoOne, approvedBy'[i].known
                 PROVE  identity[approvedBy'[i].by] = "" \/ identity[approvedBy'[i].by] # origin'[i]
      BY Zenon DEF FourEyes
    <3>1. CASE i = d.id /\ d.approve
      <4>1. approvedBy'[i].by = d.by /\ listed
        BY <2>2, <3>1
      <4>2. origins[i] = origin[i] /\ origin[i] \in Users \cup {""}
        BY Zenon, <1>6, <1>9, <3>1, <4>1 DEF BridgeInv, Noted
      <4>3. origins[i] # NoOne
        BY Zenon, <4>2, BridgeAssumption DEF BridgeAssumption
      <4>4. identity[d.by] = "" \/ identity[d.by] # origins[i]
        BY Zenon, <1>9, <3>1, <4>3 DEF isSelfApproval
      <4> QED
        BY ZenonT(30), <1>2, <4>1, <4>2, <4>4
    <3>2. CASE i # d.id \/ ~d.approve
      <4>1. approvedBy'[i] = approvedBy[i]
        BY Zenon, <2>2, <3>2
      <4> QED
        BY Zenon, <1>2, <4>1 DEF BridgeInv, FourEyes
    <3> QED
      BY Zenon, <3>1, <3>2
  <2> QED
    BY ZenonT(30), <1>4, <1>5, <1>7, <2>1, <2>2, <2>3, <2>5, <2>6 DEF BridgeInv
<1> QED
  BY Zenon, <1>2, <1>8, <1>9 DEF Decide

LEMMA RestartInv ==
    ASSUME BridgeInv, restart
    PROVE  BridgeInv'
<1>1. /\ UNCHANGED <<status, origin, approvedBy, cards>>
      /\ run' = "start" /\ live' = {} /\ todo' = {} /\ listed' = FALSE /\ listen' = "idle"
      /\ decisions' = <<>> /\ origins' = Unknown
  BY Zenon DEF restart, cpVars
<1>2. /\ run' # "post" /\ listen' # "sending" /\ decisions' \in Seq(Decision) /\ DOMAIN decisions' = {}
  BY <1>1
<1>3. \A i \in Ids : Carded(i)' /\ Noted(i)'
  BY Zenon, <1>1, <1>2 DEF BridgeInv, Carded, Noted
<1>4. FourEyes'
  BY Zenon, <1>1 DEF BridgeInv, FourEyes
<1>5. /\ status' = [i \in Ids |-> status'[i]] /\ approvedBy' = [i \in Ids |-> approvedBy'[i]]
      /\ cards' = [i \in Ids |-> cards'[i]] /\ origin' \in [Ids -> Users \cup {""}]
      /\ origins' = [i \in Ids |-> origins'[i]]
  BY Zenon, <1>1 DEF BridgeInv, Unknown
<1> QED
  BY ZenonT(30), <1>1, <1>2, <1>3, <1>4, <1>5 DEF BridgeInv

(* For any number of requests, members of the channel, clicks, restarts    *)
(* and failures, no request is approved by a member whom the identity map  *)
(* takes for its end user, once the process has listed (isSelfApproval,    *)
(* with the origins that poll notes).                                      *)
THEOREM BridgeFourEyes == BridgeSpec => []FourEyes
<1>1. BridgeInit => BridgeInv
  BY InitBridge
<1>2. BridgeInv /\ [BridgeNext]_bridgeVars => BridgeInv'
  BY Zenon, SlackInv, RequestsInv, PollAgainInvKept, PostInv, DecideBridge, RestartInv DEF BridgeNext, Running
<1>3. BridgeInv => FourEyes
  BY Zenon DEF BridgeInv
<1> QED
  BY <1>1, <1>2, <1>3, PTL DEF BridgeSpec
=============================================================================
