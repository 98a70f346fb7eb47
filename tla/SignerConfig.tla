---------------------------- MODULE SignerConfig ----------------------------
(***************************************************************************)
(* The signer's configuration file and the state hot-reloaded from it      *)
(* (cmd/signer/main.go, cmd/signer/policy.go).  Four parties touch the     *)
(* file: reload (SIGHUP, POST /v1/reload and the mtime watcher), the       *)
(* policy API that rewrites it (mutateAllow), an operator saving it by     *)
(* hand, and broker-ctl patching it (cmd/broker-ctl/main.go).  Sign        *)
(* requests read the installed state twice: the caller table, and later    *)
(* the end-user verifier.                                                  *)
(*                                                                         *)
(* A configuration is what these paths tell apart: the command policy of   *)
(* one host, the presence of a second one, the gated flag of a caller      *)
(* (require_verified_end_user), the end_user_oidc issuer, reload_callers,  *)
(* and whether the policy compiles.  While a save is in progress the file  *)
(* holds Torn, or is Absent.  Every write has an mtime of its own: writes  *)
(* are assumed further apart than the file system's timestamps.            *)
(*                                                                         *)
(* Definitions named Op_Variant are altered forms of Op used to show that  *)
(* the properties depend on what Op does.                                  *)
(***************************************************************************)
EXTENDS Naturals, FiniteSets

CONSTANTS
  Patterns,      \* allow regexes of the host's command_policy
  Admins,        \* client CNs that may call the administration endpoints
  Issuers,       \* end_user_oidc blocks
  GroupsClaim,   \* the issuers configured with a groups_claim
  SignThreads,   \* sign requests in flight
  Boots,         \* configurations the file may hold at first
  Saves,         \* configurations the operator may save
  Faults,        \* what may fail: subset of {"ca", "idp", "write"}
  Watching,      \* auto_reload_seconds > 0
  MaxWrites,     \* bound on writes of the file
  MaxCrashes,    \* bound on crashes of the signer
  NoOidc, Torn, Absent, Down, NoConfig, NoWatch

SigHup == "SIGHUP"
Watcher == "auto-reload"
Threads == Admins \cup {SigHup, Watcher}

Config ==
  [allow : SUBSET Patterns, mode : {"off", "allowlist"}, other : BOOLEAN,
   gated : BOOLEAN, oidc : Issuers \cup {NoOidc}, admins : SUBSET Admins,
   compiles : BOOLEAN]

\* The hot-reloadable fields of server, tables and verifier.
ServerState ==
  [policy : [allow : SUBSET Patterns, mode : {"off", "allowlist"}, other : BOOLEAN],
   gated : BOOLEAN, reloadCN : SUBSET Admins,
   endUserVerifier : Issuers \cup {NoOidc}, endUserOIDCCfg : Issuers \cup {NoOidc}]

ASSUME SignerConfigAssumption ==
  /\ Boots \subseteq Config /\ Saves \subseteq Config
  /\ GroupsClaim \subseteq Issuers
  /\ Faults \subseteq {"ca", "idp", "write"}
  /\ Watching \in BOOLEAN
  /\ MaxWrites \in Nat /\ MaxCrashes \in Nat
  /\ NoOidc \notin Issuers
  /\ {Torn, Absent, NoConfig} \cap Config = {}
  /\ NoWatch \notin Nat
  /\ Down \notin ServerState
  /\ Watcher \notin Admins

VARIABLES
  file,      \* signer.json: its content, its mtime and who wrote it last
  state,     \* the hot-reloadable fields of server, Down when the process is
  writeMu,   \* holders of server.writeMu
  req,       \* where each reload or policy request is
  last,      \* watchConfig's last mtime (0: no file), NoWatch before its goroutine ran
  missed,    \* history: the version at mtime last was not the watcher's to load, or failed to
  ctl,       \* broker-ctl: the configuration it is about to write
  sign,      \* where each sign request is
  removed,   \* patterns removed through the API and not put back since
  crashes

vars == <<file, state, writeMu, req, last, missed, ctl, sign, removed, crashes>>

Ops == {[kind |-> "reload", pattern |-> "none"]}
         \cup [kind : {"add", "remove"}, pattern : Patterns]

Policy(c) == [allow |-> c.allow, mode |-> c.mode, other |-> c.other]

\* What swapState installs for configuration c and verifier v.
Installed(c, v) ==
  [policy |-> Policy(c), gated |-> c.gated, reloadCN |-> c.admins,
   endUserVerifier |-> v, endUserOIDCCfg |-> c.oidc]

Permits(policy, p) == policy.mode = "off" \/ p \in policy.allow

TypeOK ==
  /\ file \in [cfg : Config \cup {Torn, Absent}, mtime : 1 .. MaxWrites + 1,
               by : {"operator", "signer"}]
  /\ state = Down \/ state \in ServerState
  /\ writeMu \subseteq Threads
  /\ req \in [Threads -> [pc : {"idle", "lock", "read", "build", "write", "swap"},
                          op : Ops, cfg : Config \cup {NoConfig},
                          verifier : Issuers \cup {NoOidc}]]
  /\ last \in (0 .. MaxWrites + 1) \cup {NoWatch} /\ missed \in BOOLEAN
  /\ ctl \in Config \cup {NoConfig}
  /\ sign \in [SignThreads ->
       [pc : {"idle", "verify", "issued", "denied"}, gated : BOOLEAN, asserted : BOOLEAN,
        token : Issuers \cup {NoOidc}, by : Issuers \cup {NoOidc}, grouped : BOOLEAN,
        seen : SUBSET (Issuers \cup {NoOidc})]]
  /\ removed \subseteq Patterns
  /\ crashes \in 0 .. MaxCrashes

IdleReq == [pc |-> "idle", op |-> [kind |-> "reload", pattern |-> "none"], cfg |-> NoConfig,
            verifier |-> NoOidc]
IdleSign == [pc |-> "idle", gated |-> FALSE, asserted |-> FALSE, token |-> NoOidc,
             by |-> NoOidc, grouped |-> FALSE, seen |-> {}]

Init ==
  /\ \E c \in Boots :
       /\ file = [cfg |-> c, mtime |-> 1, by |-> "operator"]
  /\ state = Down
  /\ writeMu = {}
  /\ req = [t \in Threads |-> IdleReq]
  /\ last = NoWatch /\ missed = FALSE
  /\ ctl = NoConfig
  /\ sign = [s \in SignThreads |-> IdleSign]
  /\ removed = {}
  /\ crashes = 0

Up == state # Down

----------------------------------------------------------------------------
(* The operations of reload and mutateAllow.                               *)

\* parseConfig of the file's bytes; a read error is a rejected configuration.
Parses(c) == c \in Config

\* editAllow: the edited configuration, NoConfig when there is no change to make.
editAllow(c, op) ==
  CASE op.kind = "add" ->
         IF op.pattern \in c.allow THEN NoConfig
         ELSE [c EXCEPT !.allow = @ \cup {op.pattern}, !.mode = "allowlist"]
    [] op.kind = "remove" ->
         IF op.pattern \notin c.allow THEN NoConfig
         ELSE [c EXCEPT !.allow = @ \ {op.pattern}]

\* buildState compiles the policies and loads the CA keys.
buildState(c, caOk) == c.compiles /\ (caOk \/ "ca" \notin Faults)

\* endUserVerifierFor: the verifier to install, or "failed".  The current one is
\* kept when the configured issuer has not changed, so that only a change needs
\* the issuer's discovery document.
endUserVerifierFor(c, idpOk) ==
  IF Up /\ c.oidc = state.endUserOIDCCfg THEN state.endUserVerifier
  ELSE IF c.oidc = NoOidc \/ idpOk \/ "idp" \notin Faults THEN c.oidc
  ELSE "failed"

\* swapState replaces every hot-reloadable field under server.mu.  A sign request
\* in flight sees the new verifier from here on.
swapState_TablesOnly(c, v) ==
  /\ state' = [state EXCEPT !.policy = Policy(c), !.reloadCN = c.admins, !.gated = c.gated]
  /\ sign' = sign
swapState(c, v) ==
  /\ state' = Installed(c, v)
  /\ sign' = [s \in SignThreads |->
                IF sign[s].pc = "verify" THEN [sign[s] EXCEPT !.seen = @ \cup {c.oidc}]
                ELSE sign[s]]

\* Whether one more write is within the bound, counting those of the mutations that
\* are under way.
MayWrite ==
  file.mtime + Cardinality({t \in Threads : req[t].op.kind # "reload"}) <= MaxWrites

\* A write of the file by the signer or by an operator.
Written(c, who) ==
  /\ file' = [cfg |-> c, mtime |-> file.mtime + 1, by |-> who]

\* What an operator's write leaves of the removals made before it.
StillRemoved(c) ==
  IF c \in Config THEN {p \in removed : ~Permits(c, p)} ELSE removed

----------------------------------------------------------------------------
(* Threads: handleReload, handlePolicyAllow, the SIGHUP goroutine and      *)
(* watchConfig.                                                            *)

\* requireReloadCN's check, made before the mutex is taken.
handleReload(t) ==
  /\ t \in Admins /\ Up /\ req[t].pc = "idle"
  /\ t \in state.reloadCN
  /\ req' = [req EXCEPT ![t] = [IdleReq EXCEPT !.pc = "lock"]]
  /\ UNCHANGED <<file, state, writeMu, last, missed, ctl, sign, removed, crashes>>

handlePolicyAllow(t) ==
  /\ t \in Admins /\ Up /\ req[t].pc = "idle"
  /\ t \in state.reloadCN
  /\ MayWrite
  /\ \E op \in Ops : /\ op.kind # "reload"
                     /\ req' = [req EXCEPT ![t] = [IdleReq EXCEPT !.pc = "lock", !.op = op]]
  /\ UNCHANGED <<file, state, writeMu, last, missed, ctl, sign, removed, crashes>>

sighup ==
  /\ Up /\ req[SigHup].pc = "idle"
  /\ req' = [req EXCEPT ![SigHup] = [IdleReq EXCEPT !.pc = "lock"]]
  /\ UNCHANGED <<file, state, writeMu, last, missed, ctl, sign, removed, crashes>>

\* configModTime; zero while the file is missing.
configModTime == IF file.cfg = Absent THEN 0 ELSE file.mtime

\* The watcher's goroutine starts some time after main loaded the file.
watchStart ==
  /\ Watching /\ Up /\ last = NoWatch
  /\ last' = configModTime /\ missed' = TRUE
  /\ UNCHANGED <<file, state, writeMu, req, ctl, sign, removed, crashes>>

watchConfig ==
  /\ Up /\ last # NoWatch /\ req[Watcher].pc = "idle"
  /\ configModTime # 0
  /\ configModTime # last
  /\ last' = configModTime /\ missed' = FALSE
  /\ req' = [req EXCEPT ![Watcher] = [IdleReq EXCEPT !.pc = "lock"]]
  /\ UNCHANGED <<file, state, writeMu, ctl, sign, removed, crashes>>

\* writeMu covers read, build, write and swap.
MayEnter_Reload(t) == writeMu = {} \/ req[t].op.kind = "reload"
MayEnter(t) == writeMu = {}
lock(t) ==
  /\ req[t].pc = "lock" /\ MayEnter(t)
  /\ writeMu' = writeMu \cup {t}
  /\ req' = [req EXCEPT ![t].pc = "read"]
  /\ UNCHANGED <<file, state, last, missed, ctl, sign, removed, crashes>>

\* Return with the mutex released.
Leave(t) ==
  /\ writeMu' = writeMu \ {t}
  /\ req' = [req EXCEPT ![t] = IdleReq]

\* The configuration thread t works on: the file's, or the file's with its edit.
Read(t) ==
  IF ~Parses(file.cfg) THEN NoConfig
  ELSE IF req[t].op.kind = "reload" THEN file.cfg
  ELSE editAllow(file.cfg, req[t].op)

readConfig(t) ==
  /\ req[t].pc = "read"
  /\ IF Read(t) = NoConfig
     THEN Leave(t)
     ELSE /\ req' = [req EXCEPT ![t].pc = "build", ![t].cfg = Read(t)]
          /\ UNCHANGED writeMu
  /\ UNCHANGED <<file, state, last, missed, ctl, sign, removed, crashes>>

\* buildState and endUserVerifierFor: nothing is written or installed if either
\* fails.  A reload then swaps; a mutation persists first.
build(t) ==
  /\ req[t].pc = "build"
  /\ \E caOk, idpOk \in BOOLEAN :
       LET v == endUserVerifierFor(req[t].cfg, idpOk) IN
       IF buildState(req[t].cfg, caOk) /\ v # "failed"
       THEN /\ req' = [req EXCEPT ![t].verifier = v,
                          ![t].pc = IF req[t].op.kind = "reload" THEN "swap" ELSE "write"]
            /\ UNCHANGED <<writeMu, missed>>
       ELSE Leave(t) /\ missed' = (missed \/ t = Watcher)
  /\ UNCHANGED <<file, state, last, ctl, sign, removed, crashes>>

\* The removals in force once thread t's edit is in the file.
RemovedBy(t) ==
  LET op == req[t].op IN
  {p \in removed \cup (IF op.kind = "remove" THEN {op.pattern} ELSE {}) :
     ~Permits(req[t].cfg, p)}

\* atomicWrite: temporary file, fsync, rename.
atomicWrite(t) ==
  /\ req[t].pc = "write"
  /\ \/ /\ Written(req[t].cfg, "signer")
        /\ req' = [req EXCEPT ![t].pc = "swap"]
        /\ removed' = RemovedBy(t)
        /\ UNCHANGED writeMu
     \/ /\ "write" \in Faults
        /\ Leave(t)
        /\ UNCHANGED <<file, removed>>
  /\ UNCHANGED <<state, last, missed, ctl, sign, crashes>>

\* swapState, the deferred unlock and the answer.
install_Restat(t) ==
  /\ req[t].pc = "swap"
  /\ swapState(req[t].cfg, req[t].verifier)
  /\ Leave(t)
  /\ last' = IF t = Watcher THEN configModTime ELSE last
  /\ UNCHANGED <<file, missed, ctl, removed, crashes>>
install(t) ==
  /\ req[t].pc = "swap"
  /\ swapState(req[t].cfg, req[t].verifier)
  /\ Leave(t)
  /\ UNCHANGED <<file, last, missed, ctl, removed, crashes>>

----------------------------------------------------------------------------
(* Those who edit the file from outside the process.                       *)

\* An editor truncates or unlinks the file and then writes it, or replaces it.
saveBegin(c) ==
  /\ c \in {Torn, Absent} /\ file.cfg \in Config
  /\ Saves # {}
  /\ MayWrite
  /\ Written(c, "operator")
  /\ UNCHANGED <<state, writeMu, req, last, missed, ctl, sign, removed, crashes>>

save(c) ==
  /\ c \in Saves /\ c # file.cfg
  /\ MayWrite
  /\ Written(c, "operator")
  /\ removed' = StillRemoved(c)
  /\ UNCHANGED <<state, writeMu, req, last, missed, ctl, sign, crashes>>

\* broker-ctl host add or remove: patchConfigEntry reads the file, patches it,
\* validates the result and, in a later step, renames the new file into place.
patchConfigEntry ==
  /\ ctl = NoConfig
  /\ file.cfg \in Config /\ file.cfg.compiles
  /\ ctl' = [file.cfg EXCEPT !.other = ~@]
  /\ UNCHANGED <<file, state, writeMu, req, last, missed, sign, removed, crashes>>

writeConfigAtomic ==
  /\ ctl # NoConfig
  /\ MayWrite
  /\ Written(ctl, "operator")
  /\ removed' = StillRemoved(ctl)
  /\ ctl' = NoConfig
  /\ UNCHANGED <<state, writeMu, req, last, missed, sign, crashes>>

----------------------------------------------------------------------------
(* The process.                                                            *)

\* main: an unreadable or invalid configuration is fatal and leaves it down.
start ==
  /\ state = Down
  /\ Parses(file.cfg)
  /\ \E caOk, idpOk \in BOOLEAN :
       /\ buildState(file.cfg, caOk)
       /\ endUserVerifierFor(file.cfg, idpOk) # "failed"
       /\ state' = Installed(file.cfg, endUserVerifierFor(file.cfg, idpOk))
  /\ UNCHANGED <<file, writeMu, req, last, missed, ctl, sign, removed, crashes>>

\* The file is replaced by a rename, so a crash leaves the old or the new one.
crash ==
  /\ Up /\ crashes < MaxCrashes
  /\ state' = Down
  /\ writeMu' = {}
  /\ req' = [t \in Threads |-> IdleReq]
  /\ sign' = [s \in SignThreads |-> IdleSign]
  /\ last' = NoWatch /\ missed' = FALSE
  /\ crashes' = crashes + 1
  /\ UNCHANGED <<file, ctl, removed>>

----------------------------------------------------------------------------
(* handleSign's reads of the installed state.                              *)

\* snapshot: the caller table.  The request carries a token of some issuer or none,
\* and either asserts groups of the end user or not.
snapshot(s) ==
  /\ Up /\ sign[s].pc \in {"idle", "issued", "denied"}
  /\ \E tok \in Issuers \cup {NoOidc}, asserted \in BOOLEAN :
       sign' = [sign EXCEPT ![s] =
                 [IdleSign EXCEPT !.pc = "verify", !.gated = state.gated, !.asserted = asserted,
                                  !.token = tok, !.seen = {state.endUserOIDCCfg}]]
  /\ UNCHANGED <<file, state, writeMu, req, last, missed, ctl, removed, crashes>>

\* rederiveEndUser: the verifier is read after the snapshot.
Rederived(s) ==
  LET v == state.endUserVerifier IN
  /\ v # NoOidc
  /\ sign[s].token = v
  /\ sign[s].asserted => v \in GroupsClaim

rederiveEndUser_Late(s) ==
  /\ Up /\ sign[s].pc = "verify"
  /\ sign' = [sign EXCEPT ![s].pc = IF ~state.gated \/ Rederived(s) THEN "issued" ELSE "denied",
                          ![s].by = IF state.gated THEN state.endUserVerifier ELSE NoOidc,
                          ![s].grouped = IF state.gated THEN state.endUserVerifier \in GroupsClaim
                                         ELSE sign[s].asserted]
  /\ UNCHANGED <<file, state, writeMu, req, last, missed, ctl, removed, crashes>>
rederiveEndUser(s) ==
  /\ Up /\ sign[s].pc = "verify"
  /\ sign' = [sign EXCEPT ![s].pc = IF ~sign[s].gated \/ Rederived(s) THEN "issued" ELSE "denied",
                          ![s].by = IF sign[s].gated THEN state.endUserVerifier ELSE NoOidc,
                          ![s].grouped = IF sign[s].gated THEN state.endUserVerifier \in GroupsClaim
                                         ELSE sign[s].asserted]
  /\ UNCHANGED <<file, state, writeMu, req, last, missed, ctl, removed, crashes>>

----------------------------------------------------------------------------
threadStep(t) == lock(t) \/ readConfig(t) \/ build(t) \/ atomicWrite(t) \/ install(t)

Next ==
  \/ \E t \in Admins : handleReload(t) \/ handlePolicyAllow(t)
  \/ sighup \/ watchStart \/ watchConfig
  \/ \E t \in Threads : threadStep(t)
  \/ \E c \in {Torn, Absent} : saveBegin(c)
  \/ \E c \in Saves : save(c)
  \/ patchConfigEntry \/ writeConfigAtomic
  \/ start \/ crash
  \/ \E s \in SignThreads : snapshot(s) \/ rederiveEndUser(s)

Spec == Init /\ [][Next]_vars

----------------------------------------------------------------------------
(* Properties.                                                             *)

\* A pattern removed through the API stays refused, once the request is done, until
\* an administrator or an operator puts it back: no reload that read an older file
\* swaps it in again (#378).
NarrowingSticks ==
  Up /\ writeMu = {} => \A p \in removed : ~Permits(state.policy, p)

\* A request of a caller that was gated when the request took its snapshot is issued
\* only with an identity verified by an issuer that was configured while the request
\* ran, and never loses a group restriction the broker asserted (#143).
GatedVerified ==
  \A s \in SignThreads : sign[s].pc = "issued" /\ sign[s].gated =>
    /\ sign[s].by \in sign[s].seen \ {NoOidc}
    /\ sign[s].asserted => sign[s].grouped

Loadable == file.cfg \in Config /\ file.cfg.compiles
Matches == file.cfg \in Config /\ state = Installed(file.cfg, file.cfg.oidc)

\* With no mutation in progress the running state is what the file says, whole:
\* tables, administrators and verifier together (#466).  It is so when the signer
\* itself wrote the file last (handlePolicyAllow: disk and the running state stay
\* consistent), also after failed writes, failed reloads and crashes; and when the
\* watcher has seen the newest version of the file and is idle, if that version is
\* valid, whoever wrote it while the watcher was reloading an older one
\* (watchConfig takes the mtime before it reads).  Two versions are excepted there:
\* the one the watcher found when its goroutine started, and one whose reload
\* failed.
RunsTheFile ==
  Up /\ writeMu = {} =>
    /\ file.by = "signer" => Matches
    /\ last = file.mtime /\ ~missed /\ req[Watcher].pc = "idle" /\ Loadable => Matches
=============================================================================
