----------------------------- MODULE SealedExec -----------------------------
(***************************************************************************)
(* Sealed exec: the signer signs an envelope for one command on one host   *)
(* (internal/sealed/envelope.go) and the shim that sshd starts on the host *)
(* runs the command if the envelope verifies and its nonce can be claimed  *)
(* (cmd/infrabroker-shim/main.go).  A shim is a process of its own: it     *)
(* takes the time once, verifies, sweeps old nonces, claims its nonce with *)
(* an exclusive create and execs, and may fail or be killed at any of      *)
(* these steps; several run at once on a host, and the broker may present  *)
(* an envelope to any host, any number of times.                           *)
(*                                                                         *)
(* Clocks count seconds (in the instances, coarse ticks) and the clock of  *)
(* a host is the signer's plus a constant skew.  An envelope is named by   *)
(* its nonce; signatures are unforgeable.                                  *)
(*                                                                         *)
(* Definitions named Op_Variant are altered forms of Op used to show that  *)
(* the properties depend on what Op does.                                  *)
(***************************************************************************)
EXTENDS Integers, FiniteSets

CONSTANTS
  Nonces,      \* the envelopes that may be signed
  Hosts,       \* sealed hosts
  Keys,        \* envelope keys
  Procs,       \* shim processes: each is one exec channel
  Skews,       \* what the clock of a host may be ahead of the signer's
  EnvelopeTTL, \* validity the signer gives (DefaultTTL)
  MaxTTL,      \* longest validity a shim accepts
  MaxStall,    \* longest time a shim takes from its time.Now to its claim
  SealedTime,  \* bound on the signer's clock
  MaxChanges,  \* bound on changes of keys
  StoreFails,  \* how a claim may fail: "" not at all, "open" or "close"
  NoEnvelope, NoTime

ASSUME SealedAssumption ==
  /\ Nonces # {} /\ Hosts # {}
  /\ Skews \subseteq Int
  /\ EnvelopeTTL \in Nat \ {0} /\ MaxTTL \in Nat /\ EnvelopeTTL <= MaxTTL
  /\ MaxStall \in Nat /\ MaxStall <= MaxTTL
  /\ SealedTime \in Nat /\ MaxChanges \in Nat
  /\ "" \in StoreFails /\ StoreFails \subseteq {"", "open", "close"}
  /\ NoTime \notin Int /\ NoEnvelope \notin [host : Hosts, expiry : Int, key : Keys]

VARIABLES
  clock,      \* the signer's clock
  key,        \* the key the signer signs with
  pinned,     \* the keys in each host's envelope.pub
  envelope,   \* the envelopes signed so far
  nonces,     \* each host's nonce store: the mtime of every claimed nonce
  shim,       \* the shim processes
  took,       \* history: the shims that created the file of their nonce
  skew,       \* the clock of each host minus the signer's
  changes

sealedVars == <<clock, key, pinned, envelope, nonces, shim, took, skew, changes>>

Envelope == [host : Hosts, expiry : Int, key : Keys]

Shim ==
  [pc : {"new", "verify", "claim", "exec", "ran", "refused", "killed"},
   host : Hosts, nonce : Nonces, now : Int,
   why : {"", "signature", "host", "expired", "future", "replay", "store", "exec"}]

HostClock(h) == clock + skew[h]

NewShim ==
  [pc |-> "new", host |-> CHOOSE h \in Hosts : TRUE, nonce |-> CHOOSE n \in Nonces : TRUE,
   now |-> 0, why |-> ""]

SealedInit ==
  /\ clock = 0 /\ key \in Keys /\ pinned = [h \in Hosts |-> {key}]
  /\ envelope = [n \in Nonces |-> NoEnvelope]
  /\ nonces = [h \in Hosts |-> [n \in Nonces |-> NoTime]]
  /\ shim = [p \in Procs |-> NewShim] /\ took = {}
  /\ skew \in [Hosts -> Skews]
  /\ changes = 0

-----------------------------------------------------------------------------
(* The signer *)

\* sealed.Sign with a fresh nonce
Sign(n, h) ==
  /\ envelope[n] = NoEnvelope
  /\ envelope' = [envelope EXCEPT ![n] =
                    [host |-> h, expiry |-> clock + EnvelopeTTL, key |-> key]]
  /\ UNCHANGED <<clock, key, pinned, nonces, shim, took, changes, skew>>

-----------------------------------------------------------------------------
(* A shim *)

\* sshd starts a shim on h for an envelope; main takes the time
start(p, h, n) ==
  /\ shim[p].pc = "new" /\ envelope[n] # NoEnvelope
  /\ shim' = [shim EXCEPT ![p] = [pc |-> "verify", host |-> h, nonce |-> n,
                                  now |-> HostClock(h), why |-> ""]]
  /\ UNCHANGED <<clock, key, pinned, envelope, nonces, took, changes, skew>>

\* a bug that refuses at the bound
Refusal_AtBound(e, h, now) ==
  IF e.key \notin pinned[h] THEN "signature"
  ELSE IF e.host # h THEN "host"
  ELSE IF now > e.expiry THEN "expired"
  ELSE IF e.expiry - now >= MaxTTL THEN "future" ELSE ""

\* VerifyAny: why an envelope is refused, "" if it is not
Refusal(e, h, now) ==
  IF e.key \notin pinned[h] THEN "signature"
  ELSE IF e.host # h THEN "host"
  ELSE IF now > e.expiry THEN "expired"
  ELSE IF e.expiry - now > MaxTTL THEN "future" ELSE ""

\* authorize up to claimNonce
authorize(p) ==
  /\ shim[p].pc = "verify"
  /\ LET why == Refusal(envelope[shim[p].nonce], shim[p].host, shim[p].now)
     IN shim' = [shim EXCEPT ![p].pc = IF why = "" THEN "claim" ELSE "refused",
                             ![p].why = why]
  /\ UNCHANGED <<clock, key, pinned, envelope, nonces, took, changes, skew>>

\* a bug that keeps a nonce only as long as its envelope is valid
Old_Lifetime(h, n, now) == nonces[h][n] # NoTime /\ now - nonces[h][n] > EnvelopeTTL

\* a nonce that no envelope can still need
Old(h, n, now) == nonces[h][n] # NoTime /\ now - nonces[h][n] > 2 * MaxTTL

\* sweepNonces: best effort, so any of the old ones may stay
sweepNonces(p) ==
  LET h == shim[p].host
  IN /\ shim[p].pc = "claim"
     /\ \E gone \in SUBSET {n \in Nonces : Old(h, n, shim[p].now)} :
          nonces' = [nonces EXCEPT ![h] = [n \in Nonces |->
                       IF n \in gone THEN NoTime ELSE nonces[h][n]]]
     /\ UNCHANGED <<clock, key, pinned, envelope, shim, took, changes, skew>>

\* the exclusive create of claimNonce: it may find the store unusable or the
\* nonce taken, and the Close after it may fail, with the nonce taken
claimNonce(p, fails) ==
  LET h == shim[p].host
      n == shim[p].nonce
      takes == fails # "open" /\ nonces[h][n] = NoTime
      why == IF fails = "open" \/ (takes /\ fails = "close") THEN "store"
             ELSE IF takes THEN "" ELSE "replay"
  IN /\ shim[p].pc = "claim"
     /\ nonces' = IF takes THEN [nonces EXCEPT ![h][n] = HostClock(h)] ELSE nonces
     /\ took' = IF takes THEN took \cup {p} ELSE took
     /\ shim' = [shim EXCEPT ![p].pc = IF why = "" THEN "exec" ELSE "refused",
                             ![p].why = why]
     /\ UNCHANGED <<clock, key, pinned, envelope, changes, skew>>

\* syscall.Exec in main, which replaces the shim by the shell, or fails
exec(p, fails) ==
  /\ shim[p].pc = "exec"
  /\ shim' = [shim EXCEPT ![p].pc = IF fails THEN "refused" ELSE "ran",
                          ![p].why = IF fails THEN "exec" ELSE ""]
  /\ UNCHANGED <<clock, key, pinned, envelope, nonces, took, changes, skew>>

\* sshd, the system or its fall ends a shim
kill(p) ==
  /\ shim[p].pc \in {"verify", "claim", "exec"}
  /\ shim' = [shim EXCEPT ![p].pc = "killed"]
  /\ UNCHANGED <<clock, key, pinned, envelope, nonces, took, changes, skew>>

-----------------------------------------------------------------------------
(* The environment *)

Busy(p) == shim[p].pc \in {"verify", "claim"}

\* time passes; no shim stalls longer than MaxStall before its claim
SealedTick ==
  /\ clock < SealedTime
  /\ \A p \in Procs : Busy(p) => HostClock(shim[p].host) - shim[p].now < MaxStall
  /\ clock' = clock + 1
  /\ UNCHANGED <<key, pinned, envelope, nonces, shim, took, changes, skew>>

\* the operator pins a key on a host, or removes one
Pin(h, k) ==
  /\ changes < MaxChanges
  /\ pinned' = [pinned EXCEPT ![h] = IF k \in @ THEN @ \ {k} ELSE @ \cup {k}]
  /\ changes' = changes + 1
  /\ UNCHANGED <<clock, key, envelope, nonces, shim, took, skew>>

\* the signer is restarted with another envelope_key
Rotate(k) ==
  /\ changes < MaxChanges /\ k # key
  /\ key' = k /\ changes' = changes + 1
  /\ UNCHANGED <<clock, pinned, envelope, nonces, shim, took, skew>>

SealedNext ==
  \/ \E n \in Nonces, h \in Hosts : Sign(n, h)
  \/ \E p \in Procs, h \in Hosts, n \in Nonces : start(p, h, n)
  \/ \E p \in Procs : authorize(p)
  \/ \E p \in Procs : sweepNonces(p)
  \/ \E p \in Procs, fails \in StoreFails : claimNonce(p, fails)
  \/ \E p \in Procs, fails \in BOOLEAN : exec(p, fails)
  \/ \E p \in Procs : kill(p)
  \/ SealedTick
  \/ \E h \in Hosts, k \in Keys : Pin(h, k)
  \/ \E k \in Keys : Rotate(k)

SealedSpec == SealedInit /\ [][SealedNext]_sealedVars

-----------------------------------------------------------------------------
(* Properties *)

(* Every variable keeps its type, and a shim past its start was given an   *)
(* envelope the signer made.                                               *)
SealedTypeOK ==
  /\ clock \in 0..SealedTime /\ key \in Keys /\ pinned \in [Hosts -> SUBSET Keys]
  /\ envelope \in [Nonces -> Envelope \cup {NoEnvelope}]
  /\ nonces \in [Hosts -> [Nonces -> Int \cup {NoTime}]]
  /\ shim \in [Procs -> Shim] /\ took \in SUBSET Procs
  /\ \A p \in Procs : shim[p].pc # "new" => envelope[shim[p].nonce] # NoEnvelope
  /\ skew \in [Hosts -> Skews]
  /\ changes \in 0..MaxChanges

(* An envelope runs its command at most once in the whole fleet, however   *)
(* often and wherever it is presented, although every sealed host pins the *)
(* same keys and old nonces are deleted again (claimNonce, sweepNonces,    *)
(* the host binding of VerifyAny).                                         *)
RunOnce ==
  \A p, q \in Procs :
    shim[p].pc = "ran" /\ shim[q].pc = "ran" /\ shim[p].nonce = shim[q].nonce => p = q

(* No needless refusal: a first presentation to the right host fails only  *)
(* for a clock further behind than the slack between TTL and MaxTTL, or    *)
(* for coming later than the validity less the host's lead; a replay is    *)
(* reported only if another shim on this host took the nonce (VerifyAny,   *)
(* claimNonce).  That shim need not have run the command: if its Close or  *)
(* its Exec failed, or it was killed after the create, the envelope is     *)
(* burnt and nothing has run; at most once is promised, not exactly once.  *)
RefusedRightly ==
  \A p \in Procs :
    LET s == shim[p]
        e == envelope[s.nonce]
        age == s.now - skew[s.host] - (e.expiry - EnvelopeTTL)
    IN s.pc = "refused" =>
         /\ s.why = "future" => skew[s.host] < EnvelopeTTL - MaxTTL
         /\ s.why = "expired" => age > EnvelopeTTL - skew[s.host]
         /\ s.why = "replay" =>
              \E q \in took \ {p} : shim[q].host = s.host /\ shim[q].nonce = s.nonce
=============================================================================
