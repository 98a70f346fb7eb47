------------------------ MODULE SignerConfig_proofs -------------------------
(***************************************************************************)
(* Proofs about SignerConfig, for any number of administrators, patterns,  *)
(* issuers, sign requests, writes of the file and crashes.                 *)
(*                                                                         *)
(* What a thread inside writeMu carries is a version of the file that no   *)
(* write of the signer, and no write the watcher has seen, came after:     *)
(* that is what makes its swap safe, and what the three invariants need.   *)
(*                                                                         *)
(* The last part is about RateLimiter, whose limit a reload changes under  *)
(* the requests it applies to; the two share no state.                     *)
(***************************************************************************)
EXTENDS SignerConfig, RateLimiter, TLAPS

Pcs == {"idle", "lock", "read", "build", "write", "swap"}
Oidc == Issuers \cup {NoOidc}
Request == [pc : Pcs, op : Ops, cfg : Config \cup {NoConfig}, verifier : Oidc]
SignRequest ==
  [pc : {"idle", "verify", "issued", "denied"}, gated : BOOLEAN, asserted : BOOLEAN,
   token : Oidc, by : Oidc, grouped : BOOLEAN, seen : SUBSET Oidc]
File == [cfg : Config \cup {Torn, Absent}, mtime : Nat, by : {"operator", "signer"}]

\* TypeOK without the bounds on writes and crashes.
Typed ==
  /\ file \in File
  /\ state \in ServerState \cup {Down}
  /\ writeMu \subseteq Threads
  /\ req \in [Threads -> Request]
  /\ last \in Nat \cup {NoWatch} /\ missed \in BOOLEAN
  /\ ctl \in Config \cup {NoConfig}
  /\ sign \in [SignThreads -> SignRequest]
  /\ removed \subseteq Patterns

\* writeMu is held by the thread inside, and there is at most one.
Mutex ==
  /\ \A t \in Threads : t \in writeMu <=> req[t].pc \in {"read", "build", "write", "swap"}
  /\ \A t, u \in writeMu : t = u

Edits(t) == req[t].op.kind # "reload"

Refuses(c, r) == \A p \in r : ~Permits(c, p)

\* The watcher has seen the version in the file and is past its lock.
Seen == last = file.mtime /\ ~missed /\ req[Watcher].pc # "lock"

\* The configuration thread t carries is the file's, or was when it read it.
Carries(t) == req[t].pc = "swap" \/ (req[t].pc = "build" /\ ~Edits(t))

ReqInv(t) ==
  /\ req[t].pc \in {"build", "write", "swap"} => req[t].cfg \in Config
  /\ req[t].pc \in {"write", "swap"} => req[t].verifier = req[t].cfg.oidc
  /\ req[t].pc = "write" => Edits(t)
  /\ t = Watcher => ~Edits(t)
  /\ Carries(t) => /\ Refuses(req[t].cfg, removed)
                   /\ file.by = "signer" => req[t].cfg = file.cfg
                   /\ Seen => req[t].cfg = file.cfg

\* No mutation is between its write and its swap.
Settled == \A t \in Threads : ~(req[t].pc = "swap" /\ Edits(t))

FileInv ==
  /\ file.cfg \in Config => Refuses(file.cfg, removed)
  /\ last \in Nat => last <= file.mtime

\* What runs is one configuration whole, and the file's where RunsTheFile says so.
StateInv ==
  Up => /\ state.endUserVerifier = state.endUserOIDCCfg
        /\ Settled => /\ Refuses(state.policy, removed)
                      /\ file.by = "signer" => Matches
        /\ last = file.mtime /\ ~missed /\ req[Watcher].pc = "idle" /\ Loadable => Matches

SignInv(s) ==
  /\ sign[s].pc = "verify" => Up /\ state.endUserOIDCCfg \in sign[s].seen
  /\ sign[s].pc = "issued" /\ sign[s].gated =>
       /\ sign[s].by \in sign[s].seen \ {NoOidc}
       /\ sign[s].asserted => sign[s].grouped

ConfigInv ==
  /\ Typed /\ Mutex
  /\ \A t \in Threads : ReqInv(t)
  /\ FileInv /\ StateInv
  /\ \A s \in SignThreads : SignInv(s)

----------------------------------------------------------------------------
(* Operators.                                                              *)

LEMMA Constants ==
  /\ Torn \notin Config /\ Absent \notin Config /\ NoConfig \notin Config
  /\ Boots \subseteq Config /\ Saves \subseteq Config
  /\ NoWatch \notin Nat /\ Down \notin ServerState /\ Watcher \notin Admins
  /\ Watcher \in Threads /\ SigHup \in Threads /\ Watcher # SigHup /\ Admins \subseteq Threads
BY SignerConfigAssumption DEF Threads, Watcher, SigHup

LEMMA IdleReqFacts ==
  /\ IdleReq \in Request /\ IdleReq.pc = "idle" /\ IdleReq.op.kind = "reload"
  /\ [IdleReq EXCEPT !.pc = "lock"] \in Request
  /\ [IdleReq EXCEPT !.pc = "lock"].pc = "lock"
  /\ [IdleReq EXCEPT !.pc = "lock"].op.kind = "reload"
BY DEF IdleReq, Request, Pcs, Oidc, Ops

LEMMA EditingReq ==
    ASSUME NEW op \in Ops
    PROVE  /\ [IdleReq EXCEPT !.pc = "lock", !.op = op] \in Request
           /\ [IdleReq EXCEPT !.pc = "lock", !.op = op].pc = "lock"
BY Zenon DEF IdleReq, Request, Pcs, Oidc

LEMMA InstalledFacts ==
    ASSUME NEW c \in Config, NEW v \in Oidc
    PROVE  /\ Installed(c, v) \in ServerState
           /\ Installed(c, v).endUserVerifier = v /\ Installed(c, v).endUserOIDCCfg = c.oidc
           /\ Installed(c, v).policy = Policy(c)
BY DEF Installed, Policy, Config, ServerState, Oidc

LEMMA ConfigOidc == \A c \in Config : c.oidc \in Oidc
BY DEF Config, Oidc

(* Both name the same fields.                                              *)
LEMMA PolicyRefuses ==
    ASSUME NEW c \in Config, NEW r, Refuses(c, r)
    PROVE  Refuses(Policy(c), r)
BY DEF Refuses, Permits, Policy, Config

LEMMA RefusesFewer ==
    ASSUME NEW c, NEW r, NEW q \in SUBSET r, Refuses(c, r)
    PROVE  Refuses(c, q)
BY DEF Refuses

LEMMA EditStays ==
    ASSUME NEW c \in Config, NEW op \in Ops, op.kind # "reload"
    PROVE  editAllow(c, op) \in Config \cup {NoConfig}
<1>1. op.kind \in {"add", "remove"} /\ op.pattern \in Patterns
  BY DEF Ops
<1>2. [c EXCEPT !.allow = @ \cup {op.pattern}, !.mode = "allowlist"] \in Config
  BY Zenon, <1>1 DEF Config
<1>3. [c EXCEPT !.allow = @ \ {op.pattern}] \in Config
  BY <1>1 DEF Config
<1>4. CASE op.kind = "add"
  BY <1>2, <1>4 DEF editAllow
<1>5. CASE op.kind = "remove"
  BY <1>3, <1>5 DEF editAllow
<1> QED
  BY <1>1, <1>4, <1>5

(* An operator's write keeps only the removals its file respects.          *)
LEMMA StillRemovedFacts ==
    ASSUME NEW c
    PROVE  /\ StillRemoved(c) \subseteq removed
           /\ c \in Config => Refuses(c, StillRemoved(c))
           /\ c \notin Config => StillRemoved(c) = removed
BY DEF StillRemoved, Refuses

(* The verifier that goes with a configuration is its own, because the one *)
(* kept is that of the same issuer.                                        *)
LEMMA VerifierFits ==
    ASSUME Typed, StateInv, NEW c \in Config, NEW idpOk,
           endUserVerifierFor(c, idpOk) # "failed"
    PROVE  endUserVerifierFor(c, idpOk) = c.oidc
BY DEF endUserVerifierFor, StateInv

----------------------------------------------------------------------------
(* Steps of one thread that change neither the file nor the state.         *)

LEMMA ThreadInv ==
    ASSUME ConfigInv, NEW t \in Threads, NEW r \in Request,
           req' = [req EXCEPT ![t] = r],
           UNCHANGED <<file, state, last, ctl, sign, removed>>,
           missed' \in BOOLEAN, missed => missed',
           writeMu' \subseteq Threads, Mutex', ReqInv(t)',
           ~(req[t].pc = "swap" /\ Edits(t)),
           t = Watcher => req[t].pc # "lock" \/ \A u \in Threads : ~Carries(u),
           t = Watcher /\ r.pc = "idle" /\ Up /\ last = file.mtime /\ ~missed' /\ Loadable => Matches
    PROVE  ConfigInv'
<1>1. req'[t] = r /\ \A u \in Threads \ {t} : req'[u] = req[u]
  BY DEF ConfigInv, Typed
<1>2. Typed'
  BY DEF ConfigInv, Typed
<1>3. ASSUME NEW u \in Threads PROVE ReqInv(u)'
  <2>1. CASE u = t
    BY SMTT(20), <2>1
  <2>2. CASE u # t
    <3>1. req'[u] = req[u] /\ ReqInv(u)
      BY <1>1, <2>2 DEF ConfigInv
    <3>2. Carries(u) /\ Seen' => Seen
      BY <1>1, Constants DEF Seen, ConfigInv, Typed
    <3> QED
      BY <3>1, <3>2 DEF ReqInv, Carries, Edits
  <2> QED
    BY <2>1, <2>2
<1>4. FileInv'
  BY DEF ConfigInv, FileInv
<1>5. StateInv'
  <2>1. Settled' => Settled
    BY <1>1 DEF Settled, Edits
  <2>2. Up' = Up /\ Loadable' = Loadable /\ Matches' = Matches
    BY DEF Up, Loadable, Matches
  <2>3. req'[Watcher].pc = "idle" =>
          req[Watcher].pc = "idle" \/ (t = Watcher /\ r.pc = "idle")
    BY <1>1, Constants
  <2> QED
    BY <2>1, <2>2, <2>3 DEF ConfigInv, StateInv, Typed
<1>6. ASSUME NEW s \in SignThreads PROVE SignInv(s)'
  BY DEF ConfigInv, SignInv, Up
<1> QED
  BY <1>2, <1>3, <1>4, <1>5, <1>6 DEF ConfigInv

(* A request arrives.                                                      *)
LEMMA ArriveInv ==
    ASSUME ConfigInv, NEW t \in Threads, t # Watcher, req[t].pc = "idle",
           NEW r \in Request, r.pc = "lock", req' = [req EXCEPT ![t] = r],
           UNCHANGED <<file, state, writeMu, last, missed, ctl, sign, removed>>
    PROVE  ConfigInv'
<1>1. req'[t] = r /\ \A u \in Threads \ {t} : req'[u] = req[u]
  BY DEF ConfigInv, Typed
<1>2. Mutex'
  BY <1>1 DEF ConfigInv, Mutex
<1>3. ReqInv(t)'
  BY <1>1 DEF ReqInv, Carries
<1> QED
  BY Zenon, <1>2, <1>3, ThreadInv DEF ConfigInv, Typed

LEMMA RequestInv ==
    ASSUME ConfigInv, NEW t \in Admins, handleReload(t) \/ handlePolicyAllow(t)
    PROVE  ConfigInv'
<1>1. t \in Threads /\ t # Watcher
  BY Constants
<1>2. CASE handleReload(t)
  BY Zenon, <1>1, <1>2, IdleReqFacts, ArriveInv DEF handleReload
<1>3. CASE handlePolicyAllow(t)
  <2>1. PICK op \in Ops : req' = [req EXCEPT ![t] = [IdleReq EXCEPT !.pc = "lock", !.op = op]]
    BY Zenon, <1>3 DEF handlePolicyAllow
  <2> QED
    BY Zenon, <1>1, <1>3, <2>1, EditingReq, ArriveInv DEF handlePolicyAllow
<1> QED
  BY <1>2, <1>3

LEMMA SighupInv == ConfigInv /\ sighup => ConfigInv'
BY Zenon, Constants, IdleReqFacts, ArriveInv DEF sighup

LEMMA LockInv ==
    ASSUME ConfigInv, NEW t \in Threads, lock(t)
    PROVE  ConfigInv'
<1>1. PICK r : r = [req[t] EXCEPT !.pc = "read"]
  BY Zenon
<1>2. /\ r \in Request /\ r.pc = "read" /\ r.op = req[t].op
      /\ req' = [req EXCEPT ![t] = r]
  BY <1>1 DEF ConfigInv, Typed, Request, Pcs, lock
<1>3. req'[t] = r /\ \A u \in Threads \ {t} : req'[u] = req[u]
  BY <1>2 DEF ConfigInv, Typed
<1>4. writeMu = {} /\ writeMu' = {t} /\ req[t].pc = "lock"
  BY DEF lock, MayEnter
<1>5. Mutex'
  BY <1>2, <1>3, <1>4 DEF ConfigInv, Mutex
<1>6. \A u \in Threads : ~Carries(u)
  BY <1>4 DEF ConfigInv, Mutex, Carries
<1>7. ReqInv(t)'
  BY <1>2, <1>3 DEF ConfigInv, ReqInv, Carries, Edits
<1>8. UNCHANGED <<file, state, last, missed, ctl, sign, removed>>
  BY DEF lock
<1> QED
  BY Zenon, <1>2, <1>4, <1>5, <1>6, <1>7, <1>8, ThreadInv DEF ConfigInv, Typed

(* A thread gives up.                                                      *)
LEMMA LeaveInv ==
    ASSUME ConfigInv, NEW t \in Threads, req[t].pc \in {"read", "build", "write"}, Leave(t),
           UNCHANGED <<file, state, last, ctl, sign, removed>>,
           missed' \in BOOLEAN, missed => missed',
           t = Watcher /\ Loadable => missed'
    PROVE  ConfigInv'
<1>1. /\ req' = [req EXCEPT ![t] = IdleReq]
      /\ req'[t] = IdleReq /\ \A u \in Threads \ {t} : req'[u] = req[u]
  BY DEF ConfigInv, Typed, Leave
<1>2. Mutex'
  BY <1>1, IdleReqFacts DEF ConfigInv, Mutex, Leave
<1>3. ReqInv(t)'
  BY <1>1, IdleReqFacts DEF ReqInv, Carries, Edits
<1>4. writeMu' \subseteq Threads
  BY DEF ConfigInv, Typed, Leave
<1> QED
  BY Zenon, <1>1, <1>2, <1>3, <1>4, IdleReqFacts, ThreadInv

LEMMA ReadStays ==
    ASSUME Typed, NEW t \in Threads
    PROVE  Read(t) \in Config \cup {NoConfig}
<1>1. req[t].op \in Ops
  BY DEF Typed, Request
<1> QED
  BY <1>1, EditStays DEF Read, Parses

LEMMA ReadInv ==
    ASSUME ConfigInv, NEW t \in Threads, readConfig(t)
    PROVE  ConfigInv'
<1>1. UNCHANGED <<file, state, last, missed, ctl, sign, removed>> /\ req[t].pc = "read"
  BY DEF readConfig
<1>2. CASE Read(t) = NoConfig
  <2>1. Leave(t)
    BY <1>2 DEF readConfig
  <2>2. t = Watcher => ~Loadable
    <3>1. SUFFICES ASSUME t = Watcher, file.cfg \in Config PROVE FALSE
      BY DEF Loadable
    <3>2. ~Edits(t)
      BY <3>1 DEF ConfigInv, ReqInv
    <3> QED
      BY <1>2, <3>1, <3>2, Constants DEF Read, Parses, Edits
  <2> QED
    BY <1>1, <2>1, <2>2, LeaveInv DEF ConfigInv, Typed
<1>3. CASE Read(t) # NoConfig
  <2>1. PICK c \in Config : c = Read(t)
    BY <1>3, ReadStays DEF ConfigInv
  <2>2. PICK r : r = [req[t] EXCEPT !.pc = "build", !.cfg = c]
    OBVIOUS
  <2>3. /\ r \in Request /\ r.pc = "build" /\ r.op = req[t].op /\ r.cfg = c
        /\ req' = [req EXCEPT ![t] = r] /\ writeMu' = writeMu
    BY ZenonT(30), <1>3, <2>1, <2>2 DEF ConfigInv, Typed, Request, Pcs, readConfig
  <2>4. req'[t] = r /\ \A u \in Threads \ {t} : req'[u] = req[u]
    BY <2>3 DEF ConfigInv, Typed
  <2>5. Mutex'
    BY <1>1, <2>3, <2>4 DEF ConfigInv, Mutex
  <2>6. ~Edits(t) => c = file.cfg /\ file.cfg \in Config
    BY <1>3, <2>1 DEF Read, Parses, Edits
  <2>7. ~Edits(t) => Refuses(c, removed)
    BY <2>6 DEF ConfigInv, FileInv
  <2>8. ReqInv(t)'
    BY <1>1, <2>3, <2>4, <2>6, <2>7 DEF ConfigInv, ReqInv, Carries, Edits
  <2> QED
    BY Zenon, <1>1, <2>3, <2>5, <2>8, ThreadInv DEF ConfigInv, Typed
<1> QED
  BY <1>2, <1>3

LEMMA BuildInv ==
    ASSUME ConfigInv, NEW t \in Threads, build(t)
    PROVE  ConfigInv'
<1>1. UNCHANGED <<file, state, last, ctl, sign, removed>> /\ req[t].pc = "build"
  BY DEF build
<1>2. PICK idpOk, v :
        /\ idpOk \in BOOLEAN
        /\ v = endUserVerifierFor(req[t].cfg, idpOk)
        /\ \/ /\ v # "failed"
              /\ req' = [req EXCEPT ![t].verifier = v,
                            ![t].pc = IF req[t].op.kind = "reload" THEN "swap" ELSE "write"]
              /\ UNCHANGED <<writeMu, missed>>
           \/ Leave(t) /\ missed' = (missed \/ t = Watcher)
  BY DEF build
<1>3. CASE Leave(t) /\ missed' = (missed \/ t = Watcher)
  <2>1. missed' \in BOOLEAN /\ (missed => missed') /\ (t = Watcher => missed')
    BY Zenon, <1>3
  <2> QED
    BY <1>1, <1>3, <2>1, LeaveInv
<1>4. CASE /\ v # "failed"
           /\ req' = [req EXCEPT ![t].verifier = v,
                         ![t].pc = IF req[t].op.kind = "reload" THEN "swap" ELSE "write"]
           /\ UNCHANGED <<writeMu, missed>>
  <2>1. req[t].cfg \in Config
    BY <1>1 DEF ConfigInv, ReqInv
  <2>2. v = req[t].cfg.oidc /\ v \in Oidc
    BY <1>2, <1>4, <2>1, VerifierFits, ConfigOidc DEF ConfigInv
  <2>3. PICK r : r = [req[t] EXCEPT !.verifier = v,
                         !.pc = IF req[t].op.kind = "reload" THEN "swap" ELSE "write"]
    OBVIOUS
  <2>4. /\ r \in Request /\ r.op = req[t].op /\ r.cfg = req[t].cfg /\ r.verifier = v
        /\ r.pc = IF req[t].op.kind = "reload" THEN "swap" ELSE "write"
        /\ req' = [req EXCEPT ![t] = r]
    BY Zenon, <1>4, <2>2, <2>3 DEF ConfigInv, Typed, Request, Pcs
  <2>5. req'[t] = r /\ \A u \in Threads \ {t} : req'[u] = req[u]
    BY <2>4 DEF ConfigInv, Typed
  <2>6. Mutex'
    <3>1. r.pc \in {"swap", "write"}
      BY <2>4
    <3> QED
      BY Zenon, <1>1, <1>4, <2>5, <3>1 DEF ConfigInv, Mutex
  <2>7. Carries(t)' => Carries(t) /\ (Seen' => Seen)
    <3>1. Seen' => Seen
      BY <1>1, <1>4, <2>5, Constants DEF Seen
    <3>2. Carries(t)' => Carries(t)
      BY Zenon, <1>1, <2>4, <2>5 DEF Carries, Edits
    <3> QED
      BY <3>1, <3>2
  <2>8. ReqInv(t)'
    BY SMTT(20), <1>1, <2>1, <2>2, <2>4, <2>5, <2>7 DEF ConfigInv, ReqInv, Carries, Edits
  <2> QED
    BY Zenon, <1>1, <1>4, <2>4, <2>6, <2>8, ThreadInv DEF ConfigInv, Typed
<1> QED
  BY <1>2, <1>3, <1>4

(* The write of a mutation: the file and what the thread carries become    *)
(* one, and the watcher has not seen it.                                   *)
LEMMA RemovedByFacts ==
    ASSUME Typed, NEW t \in Threads
    PROVE  RemovedBy(t) \subseteq Patterns /\ Refuses(req[t].cfg, RemovedBy(t))
<1>1. req[t].op \in Ops
  BY DEF Typed, Request
<1>2. req[t].op.kind = "remove" => req[t].op.pattern \in Patterns
  BY <1>1 DEF Ops
<1> QED
  BY <1>2 DEF RemovedBy, Refuses, Typed

LEMMA WriteInv ==
    ASSUME ConfigInv, NEW t \in Threads, atomicWrite(t)
    PROVE  ConfigInv'
<1>1. UNCHANGED <<state, last, missed, ctl, sign>> /\ req[t].pc = "write"
  BY DEF atomicWrite
<1>2. req[t].cfg \in Config /\ Edits(t) /\ t # Watcher /\ req[t].verifier = req[t].cfg.oidc
  BY ZenonT(30), <1>1 DEF ConfigInv, ReqInv
<1>3. CASE Leave(t) /\ UNCHANGED <<file, removed>>
  BY <1>1, <1>2, <1>3, LeaveInv DEF ConfigInv, Typed
<1>4. CASE /\ Written(req[t].cfg, "signer") /\ req' = [req EXCEPT ![t].pc = "swap"]
           /\ removed' = RemovedBy(t) /\ UNCHANGED writeMu
  <2>1. /\ file' \in File /\ file'.cfg = req[t].cfg /\ file'.mtime = file.mtime + 1
        /\ file'.by = "signer" /\ file.mtime \in Nat
    BY <1>2, <1>4 DEF Written, File, ConfigInv, Typed
  <2>2. last # file'.mtime
    BY <2>1, Constants DEF ConfigInv, FileInv, Typed
  <2>3. PICK r : r = [req[t] EXCEPT !.pc = "swap"]
    BY Zenon
  <2>4. /\ r \in Request /\ r.op = req[t].op /\ r.cfg = req[t].cfg
        /\ r.verifier = req[t].verifier /\ r.pc = "swap"
        /\ req' = [req EXCEPT ![t] = r]
    BY <1>4, <2>3 DEF ConfigInv, Typed, Request, Pcs
  <2>5. req'[t] = r /\ \A u \in Threads \ {t} : req'[u] = req[u]
    BY <2>4 DEF ConfigInv, Typed
  <2>6. removed' \subseteq Patterns /\ Refuses(req[t].cfg, removed')
    BY <1>4, RemovedByFacts DEF ConfigInv
  <2>7. Typed'
    BY <1>1, <1>4, <2>1, <2>4, <2>6 DEF ConfigInv, Typed
  <2>8. Mutex'
    BY <1>1, <1>4, <2>4, <2>5 DEF ConfigInv, Mutex
  <2>9. ASSUME NEW u \in Threads PROVE ReqInv(u)'
    <3>1. CASE u = t
      BY Zenon, <1>1, <1>2, <2>1, <2>4, <2>5, <2>6, <3>1 DEF ReqInv, Carries, Edits
    <3>2. CASE u # t
      <4>1. req'[u] = req[u] /\ ~Carries(u) /\ ReqInv(u)
        BY Zenon, <1>1, <2>5, <3>2 DEF ConfigInv, Mutex, Carries
      <4> QED
        BY <4>1 DEF ReqInv, Carries, Edits
    <3> QED
      BY <3>1, <3>2
  <2>10. FileInv'
    BY <1>1, <2>1, <2>6 DEF ConfigInv, FileInv, Typed
  <2>11. ~Settled'
    BY Zenon, <1>2, <2>4, <2>5 DEF Settled, Edits
  <2>12. StateInv'
    BY <1>1, <2>2, <2>11 DEF ConfigInv, StateInv, Up
  <2>13. ASSUME NEW s \in SignThreads PROVE SignInv(s)'
    BY <1>1 DEF ConfigInv, SignInv, Up
  <2> QED
    BY <2>7, <2>8, <2>9, <2>10, <2>12, <2>13 DEF ConfigInv
<1> QED
  BY <1>3, <1>4 DEF atomicWrite

(* The swap: the state becomes what the thread carries.                    *)
LEMMA SwapSigns ==
    ASSUME ConfigInv, NEW c \in Config, NEW v \in Oidc, swapState(c, v), NEW s \in SignThreads
    PROVE  SignInv(s)' /\ sign'[s] \in SignRequest
<1>1. state' = Installed(c, v) /\ state' # Down /\ state'.endUserOIDCCfg = c.oidc
  BY InstalledFacts, Constants DEF swapState
<1>2. sign[s] \in SignRequest /\ SignInv(s) /\ c.oidc \in Oidc
  BY ConfigOidc DEF ConfigInv, Typed
<1>3. CASE sign[s].pc = "verify"
  <2>1. sign'[s] = [sign[s] EXCEPT !.seen = @ \cup {c.oidc}]
    BY <1>3 DEF swapState
  <2>2. /\ sign'[s] \in SignRequest /\ sign'[s].pc = "verify"
        /\ c.oidc \in sign'[s].seen
    BY SMTT(20), <1>2, <1>3, <2>1 DEF SignRequest
  <2> QED
    BY <1>1, <2>2 DEF SignInv, Up
<1>4. CASE sign[s].pc # "verify"
  <2>1. sign'[s] = sign[s]
    BY <1>4 DEF swapState
  <2> QED
    BY <1>2, <1>4, <2>1 DEF SignInv
<1> QED
  BY <1>3, <1>4

LEMMA SwapFunction ==
    ASSUME NEW c, NEW v, swapState(c, v)
    PROVE  sign' = [s \in SignThreads |-> sign'[s]]
BY DEF swapState

LEMMA InstallInv ==
    ASSUME ConfigInv, NEW t \in Threads, install(t)
    PROVE  ConfigInv'
<1>1. UNCHANGED <<file, last, missed, ctl, removed>> /\ req[t].pc = "swap"
  BY DEF install
<1>2. PICK c \in Config : c = req[t].cfg
  BY Zenon, <1>1 DEF ConfigInv, ReqInv
<1>3. req[t].verifier = c.oidc /\ c.oidc \in Oidc
  BY <1>1, <1>2, ConfigOidc DEF ConfigInv, ReqInv
<1>4. swapState(c, c.oidc)
  BY <1>2, <1>3 DEF install
<1>5. state' = Installed(c, c.oidc)
  BY <1>4 DEF swapState
<1>6. /\ state' \in ServerState /\ state'.policy = Policy(c)
      /\ state'.endUserVerifier = state'.endUserOIDCCfg
  BY <1>3, <1>5, InstalledFacts
<1>7. Carries(t) /\ ReqInv(t)
  BY SMTT(20), <1>1 DEF Carries, ConfigInv
<1>8. /\ Refuses(c, removed)
      /\ file.by = "signer" => c = file.cfg
      /\ Seen => c = file.cfg
  BY <1>2, <1>7 DEF ReqInv
<1>9. /\ req' = [req EXCEPT ![t] = IdleReq] /\ writeMu' = writeMu \ {t}
      /\ req'[t] = IdleReq /\ \A u \in Threads \ {t} : req'[u] = req[u]
  BY DEF ConfigInv, Typed, install, Leave
<1>10. Typed'
  <2>1. sign' \in [SignThreads -> SignRequest]
    <3>1. \A s \in SignThreads : sign'[s] \in SignRequest
      BY <1>3, <1>4, SwapSigns
    <3> QED
      BY <1>4, <3>1, SwapFunction
  <2> QED
    BY <1>1, <1>6, <1>9, <2>1, IdleReqFacts DEF ConfigInv, Typed
<1>11. Mutex'
  BY <1>1, <1>9, IdleReqFacts DEF ConfigInv, Mutex
<1>12. ASSUME NEW u \in Threads PROVE ReqInv(u)'
  <2>1. CASE u = t
    BY Zenon, <1>9, <2>1, IdleReqFacts DEF ReqInv, Carries, Edits
  <2>2. CASE u # t
    <3>1. req'[u] = req[u] /\ ~Carries(u) /\ ReqInv(u)
      BY <1>1, <1>9, <2>2 DEF ConfigInv, Mutex, Carries
    <3> QED
      BY <3>1 DEF ReqInv, Carries, Edits
  <2> QED
    BY <2>1, <2>2
<1>13. FileInv'
  BY Zenon, <1>1 DEF ConfigInv, FileInv
<1>14. StateInv'
  <2>1. Refuses(state'.policy, removed')
    BY Zenon, <1>1, <1>6, <1>8, PolicyRefuses
  <2>2. c = file.cfg => Matches'
    BY <1>1, <1>2, <1>5 DEF Matches
  <2>3. last' = file'.mtime /\ ~missed' /\ req'[Watcher].pc = "idle" => Seen
    BY <1>1, <1>9, Constants DEF Seen
  <2> QED
    BY Zenon, <1>1, <1>6, <1>8, <2>1, <2>2, <2>3 DEF StateInv
<1>15. ASSUME NEW s \in SignThreads PROVE SignInv(s)'
  BY <1>3, <1>4, SwapSigns
<1> QED
  BY <1>10, <1>11, <1>12, <1>13, <1>14, <1>15 DEF ConfigInv

LEMMA ThreadStepInv ==
    ASSUME ConfigInv, NEW t \in Threads, threadStep(t)
    PROVE  ConfigInv'
BY LockInv, ReadInv, BuildInv, WriteInv, InstallInv DEF threadStep

----------------------------------------------------------------------------
(* The watcher.                                                            *)

LEMMA ModTime ==
    ASSUME Typed
    PROVE  configModTime \in Nat /\ configModTime <= file.mtime
BY DEF Typed, configModTime, File

LEMMA WatchStartInv == ConfigInv /\ watchStart => ConfigInv'
<1> SUFFICES ASSUME ConfigInv, watchStart PROVE ConfigInv'
  OBVIOUS
<1>1. /\ UNCHANGED <<file, state, writeMu, req, ctl, sign, removed>>
      /\ last' = configModTime /\ missed' = TRUE
  BY DEF watchStart
<1>2. Typed'
  BY <1>1, ModTime DEF ConfigInv, Typed
<1>3. Mutex'
  BY Zenon, <1>1 DEF ConfigInv, Mutex
<1>4. ASSUME NEW u \in Threads PROVE ReqInv(u)'
  <2>1. ~Seen'
    BY <1>1 DEF Seen
  <2> QED
    BY <1>1, <2>1 DEF ConfigInv, ReqInv, Carries, Edits
<1>5. FileInv'
  BY Zenon, <1>1, ModTime DEF ConfigInv, FileInv
<1>6. StateInv'
  BY ZenonT(30), <1>1 DEF ConfigInv, StateInv, Settled, Edits, Up, Matches
<1>7. ASSUME NEW s \in SignThreads PROVE SignInv(s)'
  BY <1>1 DEF ConfigInv, SignInv, Up
<1> QED
  BY <1>2, <1>3, <1>4, <1>5, <1>6, <1>7 DEF ConfigInv

LEMMA WatchInv == ConfigInv /\ watchConfig => ConfigInv'
<1> SUFFICES ASSUME ConfigInv, watchConfig PROVE ConfigInv'
  OBVIOUS
<1>1. /\ UNCHANGED <<file, state, writeMu, ctl, sign, removed>>
      /\ last' = configModTime /\ missed' = FALSE /\ req[Watcher].pc = "idle"
  BY DEF watchConfig
<1>2. PICK r \in Request : /\ r.pc = "lock" /\ r.op.kind = "reload"
                           /\ req' = [req EXCEPT ![Watcher] = r]
  BY Zenon, IdleReqFacts DEF watchConfig
<1>3. req'[Watcher] = r /\ \A u \in Threads \ {Watcher} : req'[u] = req[u]
  BY <1>2, Constants DEF ConfigInv, Typed
<1>4. Typed'
  BY Zenon, <1>1, <1>2, ModTime DEF ConfigInv, Typed
<1>5. Mutex'
  BY <1>1, <1>2, <1>3 DEF ConfigInv, Mutex
<1>6. ASSUME NEW u \in Threads PROVE ReqInv(u)'
  <2>1. ~Seen'
    BY <1>2, <1>3 DEF Seen
  <2>2. CASE u = Watcher
    BY Zenon, <1>2, <1>3, <2>2 DEF ReqInv, Carries, Edits
  <2>3. CASE u # Watcher
    BY <1>1, <1>3, <2>1, <2>3 DEF ConfigInv, ReqInv, Carries, Edits
  <2> QED
    BY <2>2, <2>3
<1>7. FileInv'
  BY Zenon, <1>1, ModTime DEF ConfigInv, FileInv
<1>8. StateInv'
  <2>1. Settled' => Settled
    BY <1>1, <1>3 DEF Settled, Edits
  <2>2. Up' = Up /\ Matches' = Matches /\ req'[Watcher].pc # "idle"
    BY SMTT(20), <1>1, <1>2, <1>3 DEF Up, Matches
  <2> QED
    BY Zenon, <1>1, <2>1, <2>2 DEF ConfigInv, StateInv
<1>9. ASSUME NEW s \in SignThreads PROVE SignInv(s)'
  BY <1>1 DEF ConfigInv, SignInv, Up
<1> QED
  BY <1>4, <1>5, <1>6, <1>7, <1>8, <1>9 DEF ConfigInv

----------------------------------------------------------------------------
(* Writes from outside, the process and the sign requests.                 *)

LEMMA OutsideInv ==
    ASSUME ConfigInv, NEW c \in Config \cup {Torn, Absent}, Written(c, "operator"),
           removed' = StillRemoved(c), ctl' \in Config \cup {NoConfig},
           UNCHANGED <<state, writeMu, req, last, missed, sign>>
    PROVE  ConfigInv'
<1>1. /\ file' \in File /\ file'.cfg = c /\ file'.mtime = file.mtime + 1
      /\ file'.by = "operator" /\ file.mtime \in Nat
  BY SMTT(20) DEF Written, File, ConfigInv, Typed
<1>2. last # file'.mtime
  BY <1>1, Constants DEF ConfigInv, FileInv, Typed
<1>3. removed' \subseteq removed /\ (c \in Config => Refuses(c, removed'))
  BY StillRemovedFacts
<1>4. Typed'
  BY <1>1, <1>3 DEF ConfigInv, Typed
<1>5. Mutex'
  BY ZenonT(30) DEF ConfigInv, Mutex
<1>6. ASSUME NEW u \in Threads PROVE ReqInv(u)'
  <2>1. Refuses(req[u].cfg, removed) => Refuses(req[u].cfg, removed')
    BY Zenon, <1>3, RefusesFewer
  <2>2. ~Seen'
    BY <1>2 DEF Seen
  <2> QED
    BY <1>1, <2>1, <2>2 DEF ConfigInv, ReqInv, Carries, Edits
<1>7. FileInv'
  BY SMTT(20), <1>1, <1>3 DEF ConfigInv, FileInv, Typed
<1>8. StateInv'
  <2>1. Refuses(state.policy, removed) => Refuses(state.policy, removed')
    BY ZenonT(30), <1>3, RefusesFewer
  <2> QED
    BY Zenon, <1>1, <1>2, <2>1 DEF ConfigInv, StateInv, Settled, Edits, Up
<1>9. ASSUME NEW s \in SignThreads PROVE SignInv(s)'
  BY DEF ConfigInv, SignInv, Up
<1> QED
  BY SMTT(20), <1>4, <1>5, <1>6, <1>7, <1>8, <1>9 DEF ConfigInv

LEMMA SaveInv ==
    ASSUME ConfigInv,
           \/ \E c \in {Torn, Absent} : saveBegin(c)
           \/ \E c \in Saves : save(c)
           \/ writeConfigAtomic
    PROVE  ConfigInv'
<1>1. ASSUME NEW c \in {Torn, Absent}, saveBegin(c) PROVE ConfigInv'
  <2>1. StillRemoved(c) = removed
    BY SMTT(20), <1>1, Constants, StillRemovedFacts
  <2> QED
    BY <1>1, <2>1, OutsideInv DEF saveBegin, ConfigInv, Typed
<1>2. ASSUME NEW c \in Saves, save(c) PROVE ConfigInv'
  BY Zenon, <1>2, Constants, OutsideInv DEF save, ConfigInv, Typed
<1>3. CASE writeConfigAtomic
  <2>1. ctl \in Config
    BY <1>3 DEF writeConfigAtomic, ConfigInv, Typed
  <2> QED
    BY <1>3, <2>1, OutsideInv DEF writeConfigAtomic
<1> QED
  BY Zenon, <1>1, <1>2, <1>3

LEMMA KeepInv ==
    ASSUME ConfigInv, ctl' \in Config \cup {NoConfig},
           UNCHANGED <<file, state, writeMu, req, last, missed, sign, removed>>
    PROVE  ConfigInv'
<1>1. Typed' /\ Mutex'
  BY ZenonT(30) DEF ConfigInv, Typed, Mutex
<1>2. ASSUME NEW u \in Threads PROVE ReqInv(u)'
  BY DEF ConfigInv, ReqInv, Carries, Edits, Seen
<1>3. FileInv'
  BY Zenon DEF ConfigInv, FileInv
<1>4. StateInv'
  BY Zenon DEF ConfigInv, StateInv, Settled, Edits, Up, Matches, Loadable
<1>5. ASSUME NEW s \in SignThreads PROVE SignInv(s)'
  BY DEF ConfigInv, SignInv, Up
<1> QED
  BY Zenon, <1>1, <1>2, <1>3, <1>4, <1>5 DEF ConfigInv

LEMMA PatchInv == ConfigInv /\ patchConfigEntry => ConfigInv'
<1> SUFFICES ASSUME ConfigInv, patchConfigEntry PROVE ConfigInv'
  OBVIOUS
<1>1. ctl' \in Config
  BY Zenon DEF patchConfigEntry, Config
<1> QED
  BY <1>1, KeepInv DEF patchConfigEntry

LEMMA StartInv == ConfigInv /\ start => ConfigInv'
<1> SUFFICES ASSUME ConfigInv, start PROVE ConfigInv'
  OBVIOUS
<1>1. UNCHANGED <<file, writeMu, req, last, missed, ctl, sign, removed>> /\ ~Up
  BY DEF start, Up
<1>2. PICK c \in Config : c = file.cfg
  BY DEF start, Parses
<1>3. state' = Installed(c, c.oidc)
  <2>1. PICK idpOk \in BOOLEAN :
           /\ endUserVerifierFor(c, idpOk) # "failed"
           /\ state' = Installed(c, endUserVerifierFor(c, idpOk))
    BY <1>2 DEF start
  <2> QED
    BY <2>1, VerifierFits DEF ConfigInv
<1>4. /\ state' \in ServerState /\ state'.policy = Policy(c)
      /\ state'.endUserVerifier = state'.endUserOIDCCfg
  BY ZenonT(30), <1>3, InstalledFacts, ConfigOidc
<1>5. Typed' /\ Mutex'
  BY Zenon, <1>1, <1>4 DEF ConfigInv, Typed, Mutex
<1>6. ASSUME NEW u \in Threads PROVE ReqInv(u)'
  BY <1>1 DEF ConfigInv, ReqInv, Carries, Edits, Seen
<1>7. FileInv'
  BY Zenon, <1>1 DEF ConfigInv, FileInv
<1>8. StateInv'
  <2>1. Refuses(state'.policy, removed')
    BY <1>1, <1>2, <1>4, PolicyRefuses DEF ConfigInv, FileInv
  <2>2. Matches'
    BY Zenon, <1>1, <1>2, <1>3 DEF Matches
  <2> QED
    BY ZenonT(30), <1>4, <2>1, <2>2 DEF StateInv
<1>9. ASSUME NEW s \in SignThreads PROVE SignInv(s)'
  BY Zenon, <1>1 DEF ConfigInv, SignInv
<1> QED
  BY <1>5, <1>6, <1>7, <1>8, <1>9 DEF ConfigInv

LEMMA IdleSignFacts == IdleSign \in SignRequest /\ IdleSign.pc = "idle"
BY DEF IdleSign, SignRequest, Oidc

LEMMA CrashInv == ConfigInv /\ crash => ConfigInv'
<1> SUFFICES ASSUME ConfigInv, crash PROVE ConfigInv'
  OBVIOUS
<1>1. /\ UNCHANGED <<file, ctl, removed>> /\ state' = Down /\ writeMu' = {}
      /\ last' = NoWatch /\ missed' = FALSE
      /\ req' = [t \in Threads |-> IdleReq] /\ sign' = [s \in SignThreads |-> IdleSign]
  BY DEF crash
<1>2. Typed'
  BY Zenon, <1>1, IdleReqFacts, IdleSignFacts DEF ConfigInv, Typed
<1>3. Mutex'
  BY <1>1, IdleReqFacts DEF Mutex
<1>4. ASSUME NEW u \in Threads PROVE ReqInv(u)'
  BY <1>1, IdleReqFacts DEF ReqInv, Carries, Edits
<1>5. FileInv'
  BY Zenon, <1>1, Constants DEF ConfigInv, FileInv
<1>6. StateInv'
  BY Zenon, <1>1 DEF StateInv, Up
<1>7. ASSUME NEW s \in SignThreads PROVE SignInv(s)'
  BY <1>1, IdleSignFacts DEF SignInv
<1> QED
  BY <1>2, <1>3, <1>4, <1>5, <1>6, <1>7 DEF ConfigInv

(* A step of sign request s.                                               *)
LEMMA SignStep ==
    ASSUME ConfigInv, NEW s \in SignThreads, NEW q \in SignRequest,
           sign' = [sign EXCEPT ![s] = q], SignInv(s)',
           UNCHANGED <<file, state, writeMu, req, last, missed, ctl, removed>>
    PROVE  ConfigInv'
<1>1. Typed' /\ Mutex'
  BY ZenonT(30) DEF ConfigInv, Typed, Mutex
<1>2. ASSUME NEW u \in Threads PROVE ReqInv(u)'
  BY Zenon DEF ConfigInv, ReqInv, Carries, Edits, Seen
<1>3. FileInv'
  BY ZenonT(30) DEF ConfigInv, FileInv
<1>4. StateInv'
  BY DEF ConfigInv, StateInv, Settled, Edits, Up, Matches, Loadable
<1>5. ASSUME NEW o \in SignThreads PROVE SignInv(o)'
  <2>1. CASE o = s
    BY Zenon, <2>1
  <2>2. CASE o # s
    <3>1. sign'[o] = sign[o]
      BY <2>2 DEF ConfigInv, Typed
    <3> QED
      BY <3>1 DEF ConfigInv, SignInv, Up
  <2> QED
    BY <2>1, <2>2
<1> QED
  BY Zenon, <1>1, <1>2, <1>3, <1>4, <1>5 DEF ConfigInv

LEMMA SnapshotInv ==
    ASSUME ConfigInv, NEW s \in SignThreads, snapshot(s)
    PROVE  ConfigInv'
<1>1. UNCHANGED <<file, state, writeMu, req, last, missed, ctl, removed>> /\ Up
  BY DEF snapshot
<1>2. PICK tok \in Oidc, asserted \in BOOLEAN :
        sign' = [sign EXCEPT ![s] =
                  [IdleSign EXCEPT !.pc = "verify", !.gated = state.gated, !.asserted = asserted,
                                   !.token = tok, !.seen = {state.endUserOIDCCfg}]]
  BY Zenon DEF snapshot, Oidc
<1>3. state.gated \in BOOLEAN /\ state.endUserOIDCCfg \in Oidc
  BY <1>1 DEF ConfigInv, Typed, ServerState, Up, Oidc
<1>4. PICK q : q = [IdleSign EXCEPT !.pc = "verify", !.gated = state.gated,
                       !.asserted = asserted, !.token = tok, !.seen = {state.endUserOIDCCfg}]
  OBVIOUS
<1>5. q \in SignRequest /\ q.pc = "verify" /\ state.endUserOIDCCfg \in q.seen
  BY Zenon, <1>3, <1>4 DEF IdleSign, SignRequest, Oidc
<1>6. sign' = [sign EXCEPT ![s] = q] /\ sign'[s] = q
  BY <1>2, <1>4 DEF ConfigInv, Typed
<1>7. SignInv(s)'
  BY <1>1, <1>5, <1>6 DEF SignInv, Up
<1> QED
  BY Zenon, <1>1, <1>5, <1>6, <1>7, SignStep

LEMMA RederiveInv ==
    ASSUME ConfigInv, NEW s \in SignThreads, rederiveEndUser(s)
    PROVE  ConfigInv'
<1>1. /\ UNCHANGED <<file, state, writeMu, req, last, missed, ctl, removed>> /\ Up
      /\ sign[s].pc = "verify" /\ sign[s] \in SignRequest
  BY ZenonT(30) DEF rederiveEndUser, ConfigInv, Typed
<1>2. /\ state.endUserVerifier \in Oidc
      /\ state.endUserVerifier \in sign[s].seen
  BY <1>1 DEF ConfigInv, Typed, ServerState, Up, Oidc, StateInv, SignInv
<1>3. PICK q : q = [sign[s] EXCEPT
         !.pc = IF ~sign[s].gated \/ Rederived(s) THEN "issued" ELSE "denied",
         !.by = IF sign[s].gated THEN state.endUserVerifier ELSE NoOidc,
         !.grouped = IF sign[s].gated THEN state.endUserVerifier \in GroupsClaim
                     ELSE sign[s].asserted]
  BY ZenonT(30)
<1>4. /\ q \in SignRequest /\ q.pc # "verify"
      /\ q.pc = "issued" /\ q.gated =>
           /\ Rederived(s) /\ q.by = state.endUserVerifier
           /\ q.grouped = (state.endUserVerifier \in GroupsClaim)
      /\ q.seen = sign[s].seen /\ q.asserted = sign[s].asserted
  <2>1. q \in SignRequest
    <3>1. /\ (IF ~sign[s].gated \/ Rederived(s) THEN "issued" ELSE "denied")
               \in {"issued", "denied"}
          /\ (IF sign[s].gated THEN state.endUserVerifier ELSE NoOidc) \in Oidc
      BY <1>2 DEF Oidc
    <3>2. (IF sign[s].gated THEN state.endUserVerifier \in GroupsClaim
           ELSE sign[s].asserted) \in BOOLEAN
      <4>1. sign[s].asserted \in BOOLEAN
        BY <1>1 DEF SignRequest
      <4>2. (state.endUserVerifier \in GroupsClaim) \in BOOLEAN
        OBVIOUS
      <4> QED
        BY Zenon, <4>1, <4>2
    <3> QED
      BY Zenon, <1>1, <1>3, <3>1, <3>2 DEF SignRequest
  <2>2. /\ q.pc = (IF ~sign[s].gated \/ Rederived(s) THEN "issued" ELSE "denied")
        /\ q.by = (IF sign[s].gated THEN state.endUserVerifier ELSE NoOidc)
        /\ q.grouped = (IF sign[s].gated THEN state.endUserVerifier \in GroupsClaim
                        ELSE sign[s].asserted)
        /\ q.gated = sign[s].gated /\ q.seen = sign[s].seen /\ q.asserted = sign[s].asserted
    BY <1>1, <1>3 DEF SignRequest
  <2> QED
    BY <2>1, <2>2
<1>5. sign' = [sign EXCEPT ![s] = q] /\ sign'[s] = q
  BY Zenon, <1>3 DEF ConfigInv, Typed, rederiveEndUser
<1>6. SignInv(s)'
  BY Zenon, <1>1, <1>2, <1>4, <1>5 DEF SignInv, Rederived
<1> QED
  BY Zenon, <1>1, <1>4, <1>5, <1>6, SignStep

----------------------------------------------------------------------------
(* The theorems.                                                           *)

LEMMA InitConfigInv == Init => ConfigInv
<1> SUFFICES ASSUME Init PROVE ConfigInv
  OBVIOUS
<1>1. PICK c \in Config : file = [cfg |-> c, mtime |-> 1, by |-> "operator"]
  BY Constants DEF Init
<1>2. Typed
  BY Zenon, <1>1, IdleReqFacts, IdleSignFacts DEF Init, Typed, File
<1>3. Mutex
  BY IdleReqFacts DEF Init, Mutex
<1>4. ASSUME NEW u \in Threads PROVE ReqInv(u)
  BY Zenon, IdleReqFacts DEF Init, ReqInv, Carries, Edits
<1>5. FileInv
  BY Zenon, Constants DEF Init, FileInv, Refuses
<1>6. StateInv
  BY Zenon DEF Init, StateInv, Up
<1>7. ASSUME NEW s \in SignThreads PROVE SignInv(s)
  BY IdleSignFacts DEF Init, SignInv
<1> QED
  BY <1>2, <1>3, <1>4, <1>5, <1>6, <1>7 DEF ConfigInv

LEMMA NextConfigInv == ConfigInv /\ [Next]_vars => ConfigInv'
<1>1. ASSUME ConfigInv, UNCHANGED vars PROVE ConfigInv'
  BY <1>1, KeepInv DEF vars, ConfigInv, Typed
<1> QED
  BY Zenon, <1>1, RequestInv, SighupInv, WatchStartInv, WatchInv, ThreadStepInv, SaveInv, PatchInv,
     StartInv, CrashInv, SnapshotInv, RederiveInv DEF Next

LEMMA AlwaysConfigInv == Spec => []ConfigInv
BY InitConfigInv, NextConfigInv, PTL DEF Spec

(***************************************************************************)
(* A pattern removed through mutateAllow stays refused by the running      *)
(* policy until somebody puts it back: writeMu keeps a reload that read an *)
(* older file (reload, watchConfig, SIGHUP) from swapping it in again.     *)
(***************************************************************************)
THEOREM RemovalsStick == Spec => []NarrowingSticks
<1>1. ConfigInv => NarrowingSticks
  <2> SUFFICES ASSUME ConfigInv, Up, writeMu = {} PROVE Refuses(state.policy, removed)
    BY DEF NarrowingSticks, Refuses
  <2>1. Settled
    BY SMTT(20) DEF ConfigInv, Mutex, Settled
  <2> QED
    BY Zenon, <2>1 DEF ConfigInv, StateInv
<1> QED
  BY <1>1, AlwaysConfigInv, PTL

(***************************************************************************)
(* A gated request (handleSign, rederiveEndUser) is issued only with an    *)
(* identity verified by an issuer configured while it ran, and with the    *)
(* group restriction the broker asserted, whatever is swapped in between   *)
(* its two reads of the installed state.                                   *)
(***************************************************************************)
THEOREM GatedStaysVerified == Spec => []GatedVerified
<1>1. ConfigInv => GatedVerified
  BY DEF ConfigInv, SignInv, GatedVerified
<1> QED
  BY <1>1, AlwaysConfigInv, PTL

(***************************************************************************)
(* With no mutation in progress the running state (swapState) is the file  *)
(* whole, when the signer wrote the file last and when the watcher has     *)
(* seen its newest valid version, through failed writes, failed reloads,   *)
(* operators' saves and crashes.                                           *)
(***************************************************************************)
THEOREM StateIsTheFile == Spec => []RunsTheFile
<1>1. ConfigInv => RunsTheFile
  <2> SUFFICES ASSUME ConfigInv, Up, writeMu = {}
               PROVE  /\ file.by = "signer" => Matches
                      /\ last = file.mtime /\ ~missed /\ req[Watcher].pc = "idle" /\ Loadable
                           => Matches
    BY DEF RunsTheFile
  <2>1. Settled
    BY DEF ConfigInv, Mutex, Settled
  <2> QED
    BY <2>1 DEF ConfigInv, StateInv
<1> QED
  BY <1>1, AlwaysConfigInv, PTL

-----------------------------------------------------------------------------
(* The rate limiter.  What a key has had, from its i-th request on, is     *)
(* covered by what its bucket and the time since then can account for.     *)
Arrivals(h, t) == h \in Seq(Nat) /\ \A i \in DOMAIN h: h[i] <= t

Spaced(h) ==
    \A i, j \in DOMAIN h:
        i < j => (j - i + 1) * Minute <= TopLimit * (Minute + h[j] - h[i])

Spent(h, i) == (Len(h) - i + 1) * Minute

Backed(h, b) ==
    \A i \in DOMAIN h: Spent(h, i) + b.tokens <= TopLimit * (Minute + b.last - h[i])

(* A key without a bucket may be given a full one.                         *)
Repaid(h, t) == \A i \in DOMAIN h: Spent(h, i) <= TopLimit * (t - h[i])

(* Since a refusal the bucket has been refilled and nothing taken.         *)
Owed(r, b) ==
    r # NoRefusal =>
        /\ r.at \in Nat /\ r.limit \in Nat \ {0} /\ r.at <= b.last
        /\ b.tokens >= (b.last - r.at) * r.limit

InBucket(b, h, t) == b \in Bucket /\ b.last <= t /\ Backed(h, b)

KeyOK(k, bs, h, r, t) ==
    /\ Arrivals(h, t) /\ Spaced(h)
    /\ k \in DOMAIN bs => InBucket(bs[k], h, t) /\ Owed(r, bs[k])
    /\ k \notin DOMAIN bs => Repaid(h, t)

RateInv ==
    /\ buckets = [k \in DOMAIN buckets |-> buckets[k]] /\ DOMAIN buckets \subseteq Callers
    /\ admitted = [k \in Callers |-> admitted[k]] /\ refusal = [k \in Callers |-> refusal[k]]
    /\ limit \in Limits /\ asked \in [Callers -> Limits \cup {NoLimit}] /\ instant \in Nat
    /\ \A k \in Callers: KeyOK(k, buckets, admitted[k], refusal[k], instant)

LEMMA TopFacts == TopLimit \in Nat /\ Minute \in Nat \ {0} /\ \A l \in Limits: l \in Nat /\ l <= TopLimit
<1>1. \E l \in Limits: \A o \in Limits: o <= l
  BY Zenon, RateAssumption DEF RateAssumption
<1>2. TopLimit \in Limits /\ \A o \in Limits: o <= TopLimit
  BY Zenon, <1>1 DEF TopLimit
<1> QED
  BY Zenon, <1>2, RateAssumption DEF RateAssumption

LEMMA SpentInt ==
    ASSUME NEW h, NEW t, Arrivals(h, t), NEW i \in DOMAIN h
    PROVE  Spent(h, i) \in Int /\ h[i] \in Nat /\ h[i] <= t
<1>1. i \in Nat /\ Len(h) \in Nat /\ h[i] \in Nat /\ h[i] <= t
  BY DEF Arrivals
<1>2. Minute \in Nat
  BY TopFacts
<1> QED
  BY <1>1, <1>2 DEF Spent

LEMMA Scaled ==
    ASSUME NEW d \in Nat, NEW p \in Nat, NEW m \in Nat, p <= m
    PROVE  d * p <= m * d
<1>1. PICK e \in Nat: m = p + e
  OBVIOUS
<1>2. m * d = p * d + e * d
  BY <1>1
<1>3. e * d \in Nat
  OBVIOUS
<1> QED
  BY <1>2, <1>3

LEMMA Multiple ==
    ASSUME NEW p \in Nat \ {0}, NEW m \in Nat
    PROVE  p * m >= m /\ p * m \in Nat
<1>1. PICK q \in Nat: p = q + 1
  OBVIOUS
<1>2. p * m = q * m + m /\ q * m \in Nat
  BY SMTT(20), <1>1
<1> QED
  BY <1>2

(* The refill of a bucket.                                                 *)
LEMMA RefillFacts ==
    ASSUME NEW b \in Bucket, NEW t \in Nat, b.last <= t, NEW p \in Limits
    PROVE  /\ Refilled(b, p, t) \in Nat
           /\ Refilled(b, p, t) <= b.tokens + TopLimit * (t - b.last)
           /\ Refilled(b, p, t) <= TopLimit * Minute
<1>1. p \in Nat /\ p <= TopLimit /\ TopLimit \in Nat /\ Minute \in Nat
  BY TopFacts
<1>2. b.tokens \in Nat /\ b.last \in Nat /\ t - b.last \in Nat
  BY DEF Bucket
<1>3. (t - b.last) * p <= TopLimit * (t - b.last) /\ (t - b.last) * p \in Nat
  BY <1>1, <1>2, Scaled
<1>4. Minute * p <= TopLimit * Minute /\ p * Minute = Minute * p /\ p * Minute \in Nat
  BY <1>1, Scaled
<1>5. TopLimit * (t - b.last) \in Nat /\ TopLimit * Minute \in Nat
  BY SMTT(20), <1>1, <1>2
<1>6. \/ Refilled(b, p, t) = b.tokens + (t - b.last) * p /\ Refilled(b, p, t) <= p * Minute
      \/ Refilled(b, p, t) = p * Minute /\ Refilled(b, p, t) <= b.tokens + (t - b.last) * p
  BY SMTT(20), <1>2, <1>3, <1>4 DEF Refilled, Smaller
<1> QED
  BY <1>2, <1>3, <1>4, <1>5, <1>6

LEMMA BackedSoFar ==
    ASSUME NEW h, NEW t \in Nat, Arrivals(h, t), NEW b, InBucket(b, h, t), NEW p \in Limits,
           NEW i \in DOMAIN h
    PROVE  Spent(h, i) + Refilled(b, p, t) <= TopLimit * (Minute + t - h[i])
<1>1. b.tokens \in Nat /\ b.last \in Nat /\ b.last <= t /\ b \in Bucket
  BY DEF InBucket, Bucket
<1>2. TopLimit \in Nat /\ Minute \in Nat /\ h[i] \in Nat /\ i \in Nat /\ Len(h) \in Nat
  BY TopFacts DEF Arrivals
<1>3. Spent(h, i) \in Int
  BY <1>2 DEF Spent
<1>4. Spent(h, i) + b.tokens <= TopLimit * (Minute + b.last - h[i])
  BY DEF InBucket, Backed
<1>5. /\ Refilled(b, p, t) \in Nat
      /\ Refilled(b, p, t) <= b.tokens + TopLimit * (t - b.last)
  BY <1>1, RefillFacts
<1>6. TopLimit * (Minute + t - h[i]) = TopLimit * (Minute + b.last - h[i]) + TopLimit * (t - b.last)
  BY SMTT(20), <1>1, <1>2
<1>7. TopLimit * (Minute + b.last - h[i]) \in Int /\ TopLimit * (t - b.last) \in Int
  BY SMTT(20), <1>1, <1>2
<1> QED
  BY <1>1, <1>3, <1>4, <1>5, <1>6, <1>7

(* A refused request, and one let through.                                 *)
LEMMA RefusedBacked ==
    ASSUME NEW h, NEW t \in Nat, Arrivals(h, t), NEW b, InBucket(b, h, t), NEW p \in Limits
    PROVE  InBucket([tokens |-> Refilled(b, p, t), last |-> t], h, t)
<1> DEFINE c == [tokens |-> Refilled(b, p, t), last |-> t]
<1>1. c \in Bucket /\ c.last <= t
  BY RefillFacts DEF InBucket, Bucket
<1>2. Backed(h, c)
  BY SMTT(20), BackedSoFar DEF Backed
<1> QED
  BY <1>1, <1>2 DEF InBucket

LEMMA AdmittedBacked ==
    ASSUME NEW h, NEW t \in Nat, Arrivals(h, t), Spaced(h), NEW b, InBucket(b, h, t),
           NEW p \in Limits, Refilled(b, p, t) >= Minute
    PROVE  /\ Arrivals(Append(h, t), t) /\ Spaced(Append(h, t))
           /\ InBucket([tokens |-> Refilled(b, p, t) - Minute, last |-> t], Append(h, t), t)
<1> DEFINE a == Append(h, t)
           c == [tokens |-> Refilled(b, p, t) - Minute, last |-> t]
           n == Len(h) + 1
<1>1. /\ a \in Seq(Nat) /\ Len(a) = n /\ a[n] = t /\ n \in Nat /\ DOMAIN a = 1..n
      /\ \A i \in DOMAIN a: i # n => i \in DOMAIN h /\ a[i] = h[i]
      /\ \A i \in DOMAIN h: h[i] \in Nat /\ h[i] <= t
  BY DEF Arrivals
<1>2. /\ TopLimit \in Nat /\ Minute \in Nat /\ TopLimit * Minute \in Nat
      /\ \A i \in DOMAIN h: TopLimit * (Minute + t - h[i]) \in Int
  <2>1. TopLimit \in Nat /\ Minute \in Nat
    BY SMTT(20), TopFacts
  <2> QED
    BY <1>1, <2>1
<1>3. /\ Refilled(b, p, t) \in Nat /\ Refilled(b, p, t) <= TopLimit * Minute
      /\ c \in Bucket /\ c.last = t /\ c.tokens = Refilled(b, p, t) - Minute
  BY <1>2, RefillFacts DEF InBucket, Bucket
<1> HIDE DEF a, c
<1>4. ASSUME NEW i \in DOMAIN h PROVE Spent(a, i) = Spent(h, i) + Minute /\ Spent(h, i) \in Int
  <2>1. i \in Nat /\ Len(h) \in Nat
    BY DEF Arrivals
  <2>2. PICK x \in Int: x = Len(h) - i + 1 /\ Len(a) - i + 1 = x + 1
    BY SMTT(20), <1>1, <2>1
  <2>3. (x + 1) * Minute = x * Minute + Minute /\ x * Minute \in Int
    BY <1>2
  <2> QED
    BY <2>2, <2>3 DEF Spent
<1>5. ASSUME NEW i \in DOMAIN a PROVE Spent(a, i) + c.tokens <= TopLimit * (Minute + t - a[i])
  <2>1. CASE i = n
    <3>1. Spent(a, i) = Minute
      BY <1>1, <1>2, <2>1 DEF Spent
    <3>2. Minute + t - a[i] = Minute
      BY SMTT(20), <1>1, <1>2, <2>1
    <3> QED
      BY SMTT(20), <1>2, <1>3, <3>1, <3>2
  <2>2. CASE i # n
    <3>1. i \in DOMAIN h /\ a[i] = h[i]
      BY SMTT(20), <1>1, <2>2
    <3>2. Spent(h, i) + Refilled(b, p, t) <= TopLimit * (Minute + t - h[i])
      BY <3>1, BackedSoFar
    <3> QED
      BY SMTT(20), <1>2, <1>3, <1>4, <3>1, <3>2
  <2> QED
    BY <2>1, <2>2
<1>6. Spaced(a)
  <2> SUFFICES ASSUME NEW i \in DOMAIN a, NEW j \in DOMAIN a, i < j
               PROVE  (j - i + 1) * Minute <= TopLimit * (Minute + a[j] - a[i])
    BY DEF Spaced
  <2>1. CASE j = n
    <3>1. (j - i + 1) * Minute = Spent(a, i) /\ a[j] = t
      BY <1>1, <2>1 DEF Spent
    <3>2. c.tokens \in Nat /\ Spent(a, i) \in Int /\ TopLimit * (Minute + t - a[i]) \in Int
      <4>1. a[i] \in Nat /\ i \in Nat
        BY SMTT(20), <1>1
      <4>2. c.tokens \in Nat
        BY Zenon, <1>3 DEF Bucket
      <4>3. PICK x, y \in Int: x = Len(a) - i + 1 /\ y = Minute + t - a[i]
        BY SMTT(20), <1>1, <1>2, <4>1
      <4>4. x * Minute \in Int /\ TopLimit * y \in Int
        BY <1>2, <4>3
      <4> QED
        BY <4>2, <4>3, <4>4 DEF Spent
    <3> QED
      BY SMTT(20), <1>5, <3>1, <3>2
  <2>2. CASE j # n
    <3>1. j \in DOMAIN h /\ a[j] = h[j] /\ i \in DOMAIN h /\ a[i] = h[i]
      BY <1>1, <2>2
    <3> QED
      BY <3>1 DEF Spaced
  <2> QED
    BY <2>1, <2>2
<1>7. Arrivals(a, t)
  BY SMTT(20), <1>1 DEF Arrivals
<1>8. Backed(a, c)
  BY <1>3, <1>5 DEF Backed
<1> QED
  BY <1>3, <1>6, <1>7, <1>8 DEF InBucket, a, c

(* A full bucket for a key without one.                                    *)
LEMMA FullBacked ==
    ASSUME NEW h, NEW t \in Nat, Arrivals(h, t), Repaid(h, t), NEW p \in Limits
    PROVE  InBucket([tokens |-> p * Minute, last |-> t], h, t)
<1> DEFINE b == [tokens |-> p * Minute, last |-> t]
<1>1. /\ TopLimit \in Nat /\ Minute \in Nat /\ p \in Nat /\ p * Minute \in Nat
      /\ p * Minute <= TopLimit * Minute /\ TopLimit * Minute \in Nat
  <2>1. TopLimit \in Nat /\ Minute \in Nat /\ p \in Nat /\ p <= TopLimit
    BY TopFacts
  <2>2. Minute * p <= TopLimit * Minute
    BY <2>1, Scaled
  <2> QED
    BY <2>1, <2>2
<1>2. ASSUME NEW i \in DOMAIN h PROVE Spent(h, i) + p * Minute <= TopLimit * (Minute + t - h[i])
  <2>1. h[i] \in Nat /\ Spent(h, i) \in Int /\ Spent(h, i) <= TopLimit * (t - h[i])
    BY SpentInt DEF Repaid
  <2>2. /\ TopLimit * (Minute + t - h[i]) = TopLimit * Minute + TopLimit * (t - h[i])
        /\ TopLimit * (t - h[i]) \in Int
    BY <1>1, <2>1
  <2> QED
    BY <1>1, <2>1, <2>2
<1>3. Backed(h, b)
  BY <1>2 DEF Backed
<1> QED
  BY <1>1, <1>3 DEF InBucket, Bucket

(* A bucket that prune forgets leaves nothing to repay.                    *)
LEMMA PrunedRepaid ==
    ASSUME NEW h, NEW t \in Nat, Arrivals(h, t), NEW b, InBucket(b, h, t), t - b.last > Minute
    PROVE  Repaid(h, t)
<1> SUFFICES ASSUME NEW i \in DOMAIN h PROVE Spent(h, i) <= TopLimit * (t - h[i])
  BY DEF Repaid
<1>1. /\ TopLimit \in Nat /\ Minute \in Nat /\ h[i] \in Nat /\ b.tokens \in Nat /\ b.last \in Nat
      /\ Spent(h, i) \in Int
  BY TopFacts, SpentInt DEF InBucket, Bucket
<1>2. Spent(h, i) + b.tokens <= TopLimit * (Minute + b.last - h[i])
  BY DEF InBucket, Backed
<1> DEFINE e == t - b.last - Minute
<1>3. e \in Nat /\ t - h[i] = Minute + b.last - h[i] + e
  BY <1>1
<1> HIDE DEF e
<1>4. /\ TopLimit * (t - h[i]) = TopLimit * (Minute + b.last - h[i]) + TopLimit * e
      /\ TopLimit * e \in Nat /\ TopLimit * (Minute + b.last - h[i]) \in Int
  BY SMTT(20), <1>1, <1>3
<1> QED
  BY <1>1, <1>2, <1>4

(* Refills since a refusal.                                                *)
LEMMA OwedKept ==
    ASSUME NEW b \in Bucket, NEW t \in Nat, b.last <= t, NEW p \in Nat \ {0}, NEW r, Owed(r, b),
           Refilled(b, p, t) < Minute, NEW n,
           n = IF r # NoRefusal /\ r.limit = p THEN r ELSE [at |-> t, limit |-> p]
    PROVE  Owed(n, [tokens |-> Refilled(b, p, t), last |-> t])
<1>1. b.tokens \in Nat /\ b.last \in Nat /\ Minute \in Nat \ {0} /\ t - b.last \in Nat
  BY TopFacts DEF Bucket
<1>2. p * Minute >= Minute /\ p * Minute \in Nat /\ (t - b.last) * p \in Nat
  BY SMTT(20), <1>1, Multiple
<1>3. Refilled(b, p, t) = b.tokens + (t - b.last) * p
  BY SMTT(20), <1>1, <1>2 DEF Refilled, Smaller
<1>4. CASE r # NoRefusal /\ r.limit = p
  <2>1. n = r /\ r.at \in Nat /\ r.at <= b.last /\ b.tokens >= (b.last - r.at) * p
    BY SMTT(20), <1>4 DEF Owed
  <2>2. (t - r.at) * p = (b.last - r.at) * p + (t - b.last) * p /\ (b.last - r.at) * p \in Nat
    BY SMTT(20), <1>1, <2>1
  <2>3. Refilled(b, p, t) >= (t - r.at) * p
    BY SMTT(20), <1>1, <1>2, <1>3, <2>1, <2>2
  <2> QED
    BY SMTT(20), <1>1, <1>4, <2>1, <2>3 DEF Owed
<1>5. CASE ~(r # NoRefusal /\ r.limit = p)
  <2>1. n = [at |-> t, limit |-> p] /\ (t - t) * p = 0
    BY SMTT(20), <1>5
  <2>2. Refilled(b, p, t) >= 0
    BY <1>1, <1>2, <1>3
  <2> QED
    BY <2>1, <2>2 DEF Owed
<1> QED
  BY <1>4, <1>5

LEMMA RetryEnough ==
    ASSUME NEW l \in Nat \ {0}
    PROVE  RetryAfter(l) \in Nat /\ RetryAfter(l) * l >= Minute
<1>1. Minute \in Nat
  BY SMTT(20), TopFacts
<1> QED
  BY <1>1 DEF RetryAfter

LEMMA OwedFits ==
    ASSUME NEW b \in Bucket, NEW t \in Nat, b.last <= t, NEW r, r # NoRefusal, Owed(r, b),
           t >= r.at + RetryAfter(r.limit)
    PROVE  Refilled(b, r.limit, t) >= Minute
<1>1. /\ b.tokens \in Nat /\ b.last \in Nat /\ Minute \in Nat \ {0} /\ t - b.last \in Nat
      /\ r.at \in Nat /\ r.limit \in Nat \ {0} /\ r.at <= b.last
      /\ b.tokens >= (b.last - r.at) * r.limit
  BY TopFacts DEF Bucket, Owed
<1>2. PICK l \in Nat \ {0}: r.limit = l
  BY <1>1
<1>3. RetryAfter(l) \in Nat /\ RetryAfter(l) * l >= Minute
  BY SMTT(20), RetryEnough
<1> DEFINE e == t - r.at - RetryAfter(l)
<1>4. e \in Nat /\ t - r.at = RetryAfter(l) + e
  BY SMTT(20), <1>1, <1>2, <1>3
<1> HIDE DEF e
<1>5. (t - r.at) * l = RetryAfter(l) * l + e * l /\ e * l \in Nat /\ RetryAfter(l) * l \in Nat
  BY SMTT(20), <1>1, <1>3, <1>4
<1>6. (t - r.at) * l = (b.last - r.at) * l + (t - b.last) * l /\ (b.last - r.at) * l \in Nat
  BY SMTT(20), <1>1
<1>7. b.tokens + (t - b.last) * l >= Minute /\ (t - b.last) * l \in Nat
  BY SMTT(20), <1>1, <1>2, <1>3, <1>5, <1>6
<1>8. l * Minute >= Minute /\ l * Minute \in Nat
  BY <1>1, Multiple
<1> QED
  BY SMTT(20), <1>1, <1>2, <1>7, <1>8 DEF Refilled, Smaller

(* The passing of time.                                                    *)
LEMMA LaterOK ==
    ASSUME NEW k, NEW bs, NEW h, NEW r, NEW t \in Nat, KeyOK(k, bs, h, r, t)
    PROVE  KeyOK(k, bs, h, r, t + 1)
<1>1. Arrivals(h, t) /\ Spaced(h)
  BY Zenon DEF KeyOK
<1>2. Arrivals(h, t + 1)
  BY <1>1 DEF Arrivals
<1>3. ASSUME k \in DOMAIN bs PROVE InBucket(bs[k], h, t + 1) /\ Owed(r, bs[k])
  <2>1. InBucket(bs[k], h, t) /\ Owed(r, bs[k])
    BY Zenon, <1>3 DEF KeyOK
  <2>2. bs[k].last \in Nat /\ bs[k].last <= t
    BY Zenon, <2>1 DEF InBucket, Bucket
  <2>3. bs[k].last <= t + 1
    BY <2>2
  <2> QED
    BY Zenon, <2>1, <2>3 DEF InBucket
<1>4. ASSUME Repaid(h, t) PROVE Repaid(h, t + 1)
  <2> SUFFICES ASSUME NEW i \in DOMAIN h PROVE Spent(h, i) <= TopLimit * ((t + 1) - h[i])
    BY Zenon DEF Repaid
  <2>1. Spent(h, i) \in Int /\ h[i] \in Nat /\ TopLimit \in Nat
    BY <1>1, SpentInt, TopFacts
  <2>2. Spent(h, i) <= TopLimit * (t - h[i])
    BY <1>4 DEF Repaid
  <2>3. TopLimit * ((t + 1) - h[i]) = TopLimit * (t - h[i]) + TopLimit /\ TopLimit * (t - h[i]) \in Int
    BY <2>1
  <2> QED
    BY <2>1, <2>2, <2>3
<1> QED
  BY Zenon, <1>1, <1>2, <1>3, <1>4 DEF KeyOK

(* The end of Allow.                                                       *)
LEMMA TakeOK ==
    ASSUME NEW k \in Callers, NEW p \in Limits, p > 0, instant \in Nat, instant' = instant,
           NEW bs, bs = [o \in DOMAIN bs |-> bs[o]], DOMAIN bs \subseteq Callers, k \in DOMAIN bs,
           NEW log, log = [o \in Callers |-> log[o]], refusal = [o \in Callers |-> refusal[o]],
           InBucket(bs[k], log[k], instant), Arrivals(log[k], instant), Spaced(log[k]),
           Owed(refusal[k], bs[k]) \/ Refilled(bs[k], p, instant) >= Minute,
           \A o \in Callers: o # k => KeyOK(o, bs, log[o], refusal[o], instant),
           take(k, p, bs, log)
    PROVE  /\ buckets' = [o \in DOMAIN buckets' |-> buckets'[o]] /\ DOMAIN buckets' \subseteq Callers
           /\ admitted' = [o \in Callers |-> admitted'[o]]
           /\ refusal' = [o \in Callers |-> refusal'[o]]
           /\ \A o \in Callers: KeyOK(o, buckets', admitted'[o], refusal'[o], instant')
<1>1. PICK held: held = Refilled(bs[k], p, instant)
  OBVIOUS
<1>2. PICK b, h, r:
        /\ b = [tokens |-> IF held >= Minute THEN held - Minute ELSE held, last |-> instant]
        /\ h = IF held >= Minute THEN Append(log[k], instant) ELSE log[k]
        /\ r = IF held >= Minute THEN NoRefusal
               ELSE IF refusal[k] # NoRefusal /\ refusal[k].limit = p THEN refusal[k]
               ELSE [at |-> instant, limit |-> p]
        /\ buckets' = [bs EXCEPT ![k] = b]
        /\ admitted' = [log EXCEPT ![k] = h]
        /\ refusal' = [refusal EXCEPT ![k] = r]
  BY Zenon, <1>1 DEF take
<1>3. Arrivals(h, instant) /\ Spaced(h) /\ InBucket(b, h, instant) /\ Owed(r, b)
  <2>1. CASE held >= Minute
    <3>1. b = [tokens |-> held - Minute, last |-> instant] /\ h = Append(log[k], instant) /\ r = NoRefusal
      BY <1>2, <2>1
    <3> QED
      BY Zenon, <1>1, <2>1, <3>1, AdmittedBacked DEF Owed
  <2>2. CASE ~(held >= Minute)
    <3>1. /\ b = [tokens |-> held, last |-> instant] /\ h = log[k]
          /\ r = IF refusal[k] # NoRefusal /\ refusal[k].limit = p THEN refusal[k]
                 ELSE [at |-> instant, limit |-> p]
      BY <1>2, <2>2
    <3>2. InBucket(b, h, instant)
      BY Zenon, <1>1, <3>1, RefusedBacked
    <3>3. bs[k] \in Bucket /\ bs[k].last <= instant /\ Owed(refusal[k], bs[k])
      BY Zenon, <1>1, <2>2 DEF InBucket
    <3>4. p \in Nat \ {0} /\ Minute \in Nat
      BY SMTT(20), TopFacts
    <3>5. held \in Nat
      BY SMTT(20), <1>1, <3>3, RefillFacts
    <3>6. held < Minute
      BY <2>2, <3>4, <3>5
    <3>7. Owed(r, b)
      BY Zenon, <1>1, <3>1, <3>3, <3>4, <3>6, OwedKept
    <3> QED
      BY ZenonT(30), <3>1, <3>2, <3>7
  <2> QED
    BY <2>1, <2>2
<1>4. /\ DOMAIN buckets' = DOMAIN bs /\ buckets'[k] = b
      /\ \A o \in DOMAIN bs: o # k => buckets'[o] = bs[o]
      /\ buckets' = [o \in DOMAIN buckets' |-> buckets'[o]]
  BY ZenonT(30), <1>2
<1>5. /\ admitted' = [o \in Callers |-> admitted'[o]] /\ admitted'[k] = h
      /\ \A o \in Callers: o # k => admitted'[o] = log[o]
  BY Zenon, <1>2
<1>6. /\ refusal' = [o \in Callers |-> refusal'[o]] /\ refusal'[k] = r
      /\ \A o \in Callers: o # k => refusal'[o] = refusal[o]
  BY SMTT(20), <1>2
<1>7. ASSUME NEW o \in Callers PROVE KeyOK(o, buckets', admitted'[o], refusal'[o], instant')
  <2>1. CASE o = k
    BY Zenon, <1>3, <1>4, <1>5, <1>6, <2>1 DEF KeyOK
  <2>2. CASE o # k
    BY Zenon, <1>4, <1>5, <1>6, <2>2 DEF KeyOK
  <2> QED
    BY <2>1, <2>2
<1> QED
  BY Zenon, <1>4, <1>5, <1>6, <1>7

(* Buckets that are dropped because nothing is owed for them, or whose key *)
(* starts anew, and a full bucket for one more key.                        *)
LEMMA AddedOK ==
    ASSUME RateInv, NEW k \in Callers, k \notin DOMAIN buckets, NEW p \in Limits, p > 0,
           NEW kept, kept = [o \in DOMAIN kept |-> kept[o]], DOMAIN kept \subseteq DOMAIN buckets,
           \A o \in DOMAIN kept: kept[o] = buckets[o],
           NEW log, log = [o \in Callers |-> log[o]],
           \A o \in Callers: log[o] = admitted[o] \/ (log[o] = <<>> /\ o \notin DOMAIN kept),
           \A o \in DOMAIN buckets \ DOMAIN kept:
                log[o] = <<>> \/ instant - buckets[o].last > Minute,
           take(k, p, With(kept, k, Full(p)), log), instant' = instant
    PROVE  /\ buckets' = [o \in DOMAIN buckets' |-> buckets'[o]] /\ DOMAIN buckets' \subseteq Callers
           /\ admitted' = [o \in Callers |-> admitted'[o]]
           /\ refusal' = [o \in Callers |-> refusal'[o]]
           /\ \A o \in Callers: KeyOK(o, buckets', admitted'[o], refusal'[o], instant')
<1>1. PICK bs: bs = With(kept, k, Full(p))
  BY SMTT(20)
<1>2. /\ bs = [o \in DOMAIN bs |-> bs[o]] /\ DOMAIN bs = DOMAIN kept \cup {k}
      /\ bs[k] = Full(p) /\ \A o \in DOMAIN kept: bs[o] = kept[o]
  BY <1>1 DEF With
<1>3. /\ instant \in Nat /\ refusal = [o \in Callers |-> refusal[o]] /\ DOMAIN buckets \subseteq Callers
      /\ \A o \in Callers: KeyOK(o, buckets, admitted[o], refusal[o], instant)
  BY Zenon DEF RateInv
<1>4. ASSUME NEW o \in Callers
      PROVE  Arrivals(log[o], instant) /\ Spaced(log[o])
  <2>1. Arrivals(<<>>, instant) /\ Spaced(<<>>)
    BY SMTT(20) DEF Arrivals, Spaced
  <2> QED
    BY Zenon, <1>3, <2>1 DEF KeyOK
<1>5. ASSUME NEW o \in Callers, o \notin DOMAIN kept
      PROVE  Repaid(log[o], instant)
  <2>1. CASE log[o] = <<>>
    BY SMTT(20), <2>1 DEF Repaid
  <2>2. CASE log[o] # <<>> /\ o \in DOMAIN buckets
    <3>1. log[o] = admitted[o] /\ instant - buckets[o].last > Minute
      BY Zenon, <1>5, <2>2
    <3>2. InBucket(buckets[o], log[o], instant)
      BY Zenon, <1>3, <2>2, <3>1 DEF KeyOK
    <3> QED
      BY <1>3, <1>4, <3>1, <3>2, PrunedRepaid
  <2>3. CASE log[o] # <<>> /\ o \notin DOMAIN buckets
    BY Zenon, <1>3, <2>3 DEF KeyOK
  <2> QED
    BY SMTT(20), <2>1, <2>2, <2>3
<1>6. InBucket(bs[k], log[k], instant)
  <2>1. k \notin DOMAIN kept /\ bs[k] = [tokens |-> p * Minute, last |-> instant]
    BY SMTT(20), <1>2 DEF Full
  <2> QED
    BY SMTT(20), <1>3, <1>4, <1>5, <2>1, FullBacked
<1>7. Refilled(bs[k], p, instant) >= Minute
  <2>1. p \in Nat \ {0} /\ Minute \in Nat
    BY TopFacts
  <2>2. PICK m \in Nat: m = p * Minute /\ m >= Minute
    BY Zenon, <2>1, Multiple
  <2>3. bs[k].tokens = m /\ bs[k].last = instant
    BY SMTT(20), <1>2, <2>2 DEF Full
  <2>4. (instant - instant) * p = 0
    BY SMTT(20), <1>3, <2>1
  <2> QED
    BY SMTT(20), <2>1, <2>2, <2>3, <2>4 DEF Refilled, Smaller
<1>8. ASSUME NEW o \in Callers, o # k PROVE KeyOK(o, bs, log[o], refusal[o], instant)
  <2>1. CASE o \in DOMAIN kept
    <3>1. o \in DOMAIN bs /\ bs[o] = buckets[o] /\ log[o] = admitted[o] /\ o \in DOMAIN buckets
      BY Zenon, <1>2, <2>1
    <3> QED
      BY Zenon, <1>3, <3>1 DEF KeyOK
  <2>2. CASE o \notin DOMAIN kept
    <3>1. o \notin DOMAIN bs
      BY Zenon, <1>2, <1>8, <2>2
    <3> QED
      BY Zenon, <1>4, <1>5, <2>2, <3>1 DEF KeyOK
  <2> QED
    BY <2>1, <2>2
<1>9. take(k, p, bs, log) /\ DOMAIN bs \subseteq Callers /\ k \in DOMAIN bs
  BY Zenon, <1>1, <1>2, <1>3
<1> QED
  BY Zenon, <1>2, <1>3, <1>4, <1>6, <1>7, <1>8, <1>9, TakeOK

LEMMA PruneFacts ==
    ASSUME RateInv
    PROVE  /\ prune(buckets) = [o \in DOMAIN prune(buckets) |-> prune(buckets)[o]]
           /\ DOMAIN prune(buckets) \subseteq DOMAIN buckets
           /\ \A o \in DOMAIN prune(buckets): prune(buckets)[o] = buckets[o]
           /\ \A o \in DOMAIN buckets \ DOMAIN prune(buckets): instant - buckets[o].last > Minute
<1> DEFINE S == {o \in DOMAIN buckets: instant - buckets[o].last <= Minute}
<1>1. prune(buckets) = [o \in S |-> buckets[o]]
  BY DEF prune, Restrict
<1>2. ASSUME NEW o \in DOMAIN buckets, o \notin S PROVE instant - buckets[o].last > Minute
  <2>1. o \in Callers /\ instant \in Nat
    BY Zenon DEF RateInv
  <2>2. buckets[o] \in Bucket
    BY Zenon, <2>1 DEF RateInv, KeyOK, InBucket
  <2>3. instant - buckets[o].last \in Int /\ Minute \in Int
    BY SMTT(20), <2>1, <2>2, TopFacts DEF Bucket
  <2> QED
    BY <1>2, <2>3
<1> HIDE DEF S
<1>3. S \subseteq DOMAIN buckets
  BY DEF S
<1> QED
  BY Zenon, <1>1, <1>2, <1>3

LEMMA AllowInv ==
    ASSUME RateInv, NEW k \in Callers, Allow(k)
    PROVE  RateInv'
<1>1. PICK p \in Limits: asked[k] = p /\ p > 0
  BY Zenon DEF RateInv, Allow
<1>2. instant' = instant /\ limit' = limit /\ asked' = [asked EXCEPT ![k] = NoLimit]
  BY Zenon DEF Allow, Replied
<1>3. limit' \in Limits /\ asked' \in [Callers -> Limits \cup {NoLimit}] /\ instant' \in Nat
  BY <1>2 DEF RateInv
<1> DEFINE After == /\ buckets' = [o \in DOMAIN buckets' |-> buckets'[o]] /\ DOMAIN buckets' \subseteq Callers
                    /\ admitted' = [o \in Callers |-> admitted'[o]]
                    /\ refusal' = [o \in Callers |-> refusal'[o]]
                    /\ \A o \in Callers: KeyOK(o, buckets', admitted'[o], refusal'[o], instant')
<1>4. ASSUME AllowKnown(k, p) PROVE After
  <2>1. k \in DOMAIN buckets /\ take(k, p, buckets, admitted)
    BY Zenon, <1>4 DEF AllowKnown
  <2>2. /\ instant \in Nat /\ buckets = [o \in DOMAIN buckets |-> buckets[o]]
        /\ DOMAIN buckets \subseteq Callers /\ admitted = [o \in Callers |-> admitted[o]]
        /\ refusal = [o \in Callers |-> refusal[o]]
        /\ \A o \in Callers: KeyOK(o, buckets, admitted[o], refusal[o], instant)
    BY Zenon DEF RateInv
  <2>3. /\ InBucket(buckets[k], admitted[k], instant) /\ Arrivals(admitted[k], instant)
        /\ Spaced(admitted[k]) /\ Owed(refusal[k], buckets[k])
    BY Zenon, <2>1, <2>2 DEF KeyOK
  <2> QED
    BY Zenon, <1>1, <1>2, <2>1, <2>2, <2>3, TakeOK
<1>5. ASSUME AllowFresh(k, p) PROVE After
  <2>1. PICK kept: /\ kept = buckets \/ kept = prune(buckets)
                   /\ k \notin DOMAIN buckets /\ take(k, p, With(kept, k, Full(p)), admitted)
    BY Zenon, <1>5 DEF AllowFresh
  <2>2. admitted = [o \in Callers |-> admitted[o]] /\ buckets = [o \in DOMAIN buckets |-> buckets[o]]
    BY Zenon DEF RateInv
  <2>3. /\ kept = [o \in DOMAIN kept |-> kept[o]] /\ DOMAIN kept \subseteq DOMAIN buckets
        /\ \A o \in DOMAIN kept: kept[o] = buckets[o]
        /\ \A o \in DOMAIN buckets \ DOMAIN kept: instant - buckets[o].last > Minute
    BY Zenon, <2>1, <2>2, PruneFacts
  <2> QED
    BY Zenon, <1>1, <1>2, <2>1, <2>2, <2>3, AddedOK
<1>6. ASSUME AllowEvicting(k, p) PROVE After
  <2>1. PICK pruned, e: /\ pruned = prune(buckets) /\ k \notin DOMAIN buckets
                        /\ take(k, p, With(Without(pruned, e), k, Full(p)),
                                [o \in Callers |-> IF o = e THEN <<>> ELSE admitted[o]])
    BY Zenon, <1>6 DEF AllowEvicting
  <2>2. PICK kept, log: /\ kept = Without(pruned, e)
                        /\ log = [o \in Callers |-> IF o = e THEN <<>> ELSE admitted[o]]
    BY Zenon
  <2>3. /\ pruned = [o \in DOMAIN pruned |-> pruned[o]] /\ DOMAIN pruned \subseteq DOMAIN buckets
        /\ \A o \in DOMAIN pruned: pruned[o] = buckets[o]
        /\ \A o \in DOMAIN buckets \ DOMAIN pruned: instant - buckets[o].last > Minute
    BY Zenon, <2>1, PruneFacts
  <2>4. /\ kept = [o \in DOMAIN kept |-> kept[o]] /\ DOMAIN kept = DOMAIN pruned \ {e}
        /\ \A o \in DOMAIN kept: kept[o] = pruned[o]
    BY Zenon, <2>2 DEF Without, Restrict
  <2>5. /\ log = [o \in Callers |-> log[o]]
        /\ \A o \in Callers: log[o] = IF o = e THEN <<>> ELSE admitted[o]
    BY <2>2
  <2>6. DOMAIN buckets \subseteq Callers
    BY Zenon DEF RateInv
  <2>7. \A o \in DOMAIN buckets \ DOMAIN kept: log[o] = <<>> \/ instant - buckets[o].last > Minute
    BY Zenon, <2>3, <2>4, <2>5, <2>6
  <2>8. /\ DOMAIN kept \subseteq DOMAIN buckets /\ \A o \in DOMAIN kept: kept[o] = buckets[o]
        /\ \A o \in Callers: log[o] = admitted[o] \/ (log[o] = <<>> /\ o \notin DOMAIN kept)
    BY Zenon, <2>3, <2>4, <2>5
  <2>9. k \notin DOMAIN buckets /\ take(k, p, With(kept, k, Full(p)), log)
    BY Zenon, <2>1, <2>2
  <2> QED
    BY ZenonT(30), <1>1, <1>2, <2>4, <2>5, <2>7, <2>8, <2>9, AddedOK
<1>7. After
  BY Zenon, <1>1, <1>4, <1>5, <1>6 DEF Allow
<1> QED
  BY Zenon, <1>3, <1>7 DEF RateInv

LEMMA RateInitInv == RateInit => RateInv
<1> SUFFICES ASSUME RateInit PROVE RateInv
  OBVIOUS
<1>1. Arrivals(<<>>, 0) /\ Spaced(<<>>) /\ Repaid(<<>>, 0)
  BY DEF Arrivals, Spaced, Repaid
<1>2. \A k: KeyOK(k, <<>>, <<>>, NoRefusal, 0)
  BY <1>1 DEF KeyOK
<1>3. buckets = [k \in DOMAIN buckets |-> buckets[k]] /\ DOMAIN buckets = {}
  BY DEF RateInit
<1>4. \A k \in Callers: admitted[k] = <<>> /\ refusal[k] = NoRefusal
  BY DEF RateInit
<1>5. \A k \in Callers: KeyOK(k, buckets, admitted[k], refusal[k], instant)
  BY Zenon, <1>2, <1>4 DEF RateInit
<1> QED
  BY <1>3, <1>5 DEF RateInit, RateInv

LEMMA RateNextInv == RateInv /\ [RateNext]_rateVars => RateInv'
<1> SUFFICES ASSUME RateInv, [RateNext]_rateVars PROVE RateInv'
  OBVIOUS
<1>1. ASSUME NEW k \in Callers, signRate(k) PROVE RateInv'
  <2>1. asked' \in [Callers -> Limits \cup {NoLimit}]
    BY <1>1 DEF signRate, RateInv
  <2> QED
    BY Zenon, <1>1, <2>1 DEF signRate, RateInv
<1>2. ASSUME NEW k \in Callers, Unlimited(k) PROVE RateInv'
  <2>1. asked' \in [Callers -> Limits \cup {NoLimit}]
    BY <1>2 DEF Unlimited, Replied, RateInv
  <2> QED
    BY Zenon, <1>2, <2>1 DEF Unlimited, RateInv
<1>3. ASSUME NEW k \in Callers, Allow(k) PROVE RateInv'
  BY Zenon, <1>3, AllowInv
<1>4. CASE Reload
  BY Zenon, <1>4 DEF Reload, RateInv
<1>5. CASE RateTick
  <2>1. instant \in Nat /\ instant' = instant + 1 /\ instant' \in Nat
    BY <1>5 DEF RateTick, RateInv
  <2>2. \A k \in Callers: KeyOK(k, buckets, admitted[k], refusal[k], instant')
    BY Zenon, <2>1, LaterOK DEF RateInv
  <2> QED
    BY Zenon, <1>5, <2>1, <2>2 DEF RateTick, RateInv
<1>6. CASE UNCHANGED rateVars
  BY Zenon, <1>6 DEF rateVars, RateInv
<1> QED
  BY Zenon, <1>1, <1>2, <1>3, <1>4, <1>5, <1>6 DEF RateNext

LEMMA BudgetKept == RateInv => Budget
<1> SUFFICES ASSUME RateInv, NEW k \in Callers PROVE NoMore(k) /\ NoLess(k)
  BY Zenon DEF Budget
<1>1. KeyOK(k, buckets, admitted[k], refusal[k], instant) /\ instant \in Nat
  BY Zenon DEF RateInv
<1>2. NoMore(k)
  BY Zenon, <1>1 DEF NoMore, KeyOK, Spaced
<1>3. NoLess(k)
  <2> SUFFICES ASSUME k \in DOMAIN buckets, refusal[k] # NoRefusal,
                      instant >= refusal[k].at + RetryAfter(refusal[k].limit)
               PROVE  Refilled(buckets[k], refusal[k].limit, instant) >= Minute
    BY Zenon DEF NoLess
  <2>1. buckets[k] \in Bucket /\ buckets[k].last <= instant /\ Owed(refusal[k], buckets[k])
    BY Zenon, <1>1 DEF KeyOK, InBucket
  <2> QED
    BY Zenon, <1>1, <2>1, OwedFits
<1> QED
  BY <1>2, <1>3

(* However requests interleave with reloads, prunes and evictions, for any *)
(* limits, a caller is let through no more often than one minute's budget  *)
(* and the refill allow, and gets through again once the Retry-After of a  *)
(* refusal has passed (RateLimiter.Allow).                                 *)
THEOREM BudgetHolds == RateSpec => []Budget
<1>1. RateInit => RateInv
  BY RateInitInv
<1>2. RateInv /\ [RateNext]_rateVars => RateInv'
  BY RateNextInv
<1>3. RateInv => Budget
  BY BudgetKept
<1> QED
  BY <1>1, <1>2, <1>3, PTL DEF RateSpec

=============================================================================
