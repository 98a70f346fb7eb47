---------------------------- MODULE SignerState -----------------------------
(***************************************************************************)
(* The signer's handlers over its grants and freezes: /v1/sign with        *)
(* approve-and-learn, /v1/freeze, /v1/unfreeze, the grant API, the purge   *)
(* sweep, and a restart (cmd/signer/main.go, cmd/signer/grants.go).        *)
(*                                                                         *)
(* handleSign runs without writeMu: each of its looks at a store is a step *)
(* of its own.  The other handlers that touch both stores hold writeMu     *)
(* from their first store operation to their last, but the sign path, the  *)
(* revocation of a grant, the sweep and a crash may come between the two.  *)
(* The policy tables are constants here: SignerConfig models reloads.      *)
(***************************************************************************)
EXTENDS SignerStores

CONSTANTS Signs,        \* requests in /v1/sign at once
          Admins,       \* administrative requests at once
          Requests,     \* what a sign request may say
          Scopes,       \* what a grant request may say
          Subjects,     \* what a freeze request may say
          Forwarders, SelfApprovers,  \* trusted_forwarders; callers that may self-approve
          AllowedCmds,  \* commands the host policy allows by itself
          GatedCmds,    \* commands the host policy gates on an approval
          FailClosed,   \* audit_fail_mode = closed
          AuditOutcomes,  \* whether an append to the audit log may succeed, and fail
          TTL, MaxTime, MaxRestarts,  \* a grant's lifetime, and bounds
          Free, None

Request == [peer : Callers, onBehalfOf : Callers \cup {""}, endUser : EndUsers \cup {""},
            host : Hosts, cmd : Cmds, sudo : BOOLEAN, sudoUser : SudoUsers \cup {""},
            approved : BOOLEAN, learn : BOOLEAN, dryRun : BOOLEAN]
Scope == [host : Hosts, cmd : Cmds, caller : Callers \cup {""}, endUser : EndUsers \cup {""}]

ASSUME SignerAssumption ==
    /\ Requests \subseteq Request /\ Scopes \subseteq Scope /\ Subjects \subseteq FreezeSubject
    /\ Forwarders \subseteq Callers /\ SelfApprovers \subseteq Callers
    /\ FailClosed \in BOOLEAN /\ AuditOutcomes \subseteq BOOLEAN
    /\ TTL \in Nat \ {0} /\ MaxTime \in Nat /\ MaxRestarts \in Nat
    /\ Free \notin Signs \cup Admins /\ Signs \cap Admins = {}
    /\ None \notin Requests \cup Scopes \cup Subjects

VARIABLES store,     \* the two stores and the database
          writeMu,   \* the holder of server.writeMu, or Free
          sign,      \* the requests in handleSign
          admin,     \* the requests in an administrative handler
          up, now,   \* whether the process runs; the clock
          ack,       \* history: what an operator was told of a subject's freeze
          clean,     \* history: subjects whose grants were reported revoked, none added since
          used,      \* history: grant ids handed out
          gone,      \* history: grants reported revoked or swept
          restarts   \* history: restarts so far

vars == <<store, writeMu, sign, admin, up, now, ack, clean, used, gone, restarts>>
history == <<ack, clean, used, gone>>

(* A sign request: where it is, whether its decision requires approval,    *)
(* whether its issued record is in the log, and barred, a history field:   *)
(* the subjects frozen when it came in and not released since.             *)
IdleSign == [pc |-> "idle", req |-> None, gated |-> FALSE, recorded |-> FALSE, barred |-> {}]
IdleAdmin == [pc |-> "idle", subj |-> None, res |-> "ok"]

TypeOK ==
    /\ store \in [grants : [GrantIds -> Grant \cup {NoGrant}], frozen : SUBSET Subjects,
                  wal : Seq([grants : [GrantIds -> Grant \cup {NoGrant}], freezes : SUBSET Subjects])]
    /\ Len(store.wal) \in 1..MaxWal
    /\ \A i \in Live(store) : store.grants[i].sudo = (store.grants[i].sudoUser # "")
    /\ writeMu \in Signs \cup Admins \cup {Free}
    /\ sign \in [Signs -> [pc : {"idle", "frozen", "peer", "decide", "waiver", "respond", "learn", "mint"},
                           req : Requests \cup {None}, gated : BOOLEAN, recorded : BOOLEAN,
                           barred : SUBSET Subjects]]
    /\ admin \in [Admins -> [pc : {"idle", "revoke", "sweep", "grant"},
                             subj : Subjects \cup Scopes \cup {None}, res : {"ok", "notdurable"}]]
    /\ up \in BOOLEAN /\ now \in 0..MaxTime /\ restarts \in 0..MaxRestarts
    /\ ack \in [Subjects -> {"no", "enforced", "durable"}]
    /\ clean \subseteq Subjects /\ used \subseteq GrantIds /\ gone \subseteq GrantIds

Init ==
    /\ store = EmptyStore
    /\ writeMu = Free
    /\ sign = [s \in Signs |-> IdleSign]
    /\ admin = [a \in Admins |-> IdleAdmin]
    /\ up = TRUE /\ now = 0 /\ restarts = 0
    /\ ack = [s \in Subjects |-> "no"]
    /\ clean = {} /\ used = {} /\ gone = {}
-----------------------------------------------------------------------------
(* handleSign.  The effective caller of a request is on_behalf_of when the *)
(* peer is a trusted forwarder; any other on_behalf_of is refused.         *)
resolveCaller(r) == IF r.onBehalfOf = "" THEN r.peer ELSE r.onBehalfOf
Resolvable(r) == r.onBehalfOf = "" \/ r.peer \in Forwarders
Intent(r) == [caller |-> resolveCaller(r), endUser |-> r.endUser, host |-> r.host, cmd |-> r.cmd,
              sudo |-> r.sudo, sudoUser |-> r.sudoUser]
effectiveApproved(r) == r.approved /\ (r.peer \in Forwarders \/ r.peer \in SelfApprovers)

SubjectsOf(r) == {s \in Subjects :
                    \/ s.kind = "caller" /\ s.value \in {r.peer, resolveCaller(r)}
                    \/ s.kind = "end_user" /\ s.value = r.endUser}

Goto(s, pc) == sign' = [sign EXCEPT ![s].pc = pc]
Reply(s) == sign' = [sign EXCEPT ![s] = IdleSign]

handleSign(s, r) ==
    /\ up /\ sign[s].pc = "idle" /\ Resolvable(r)
    /\ sign' = [sign EXCEPT ![s] = [IdleSign EXCEPT !.pc = "frozen", !.req = r,
                                    !.barred = {x \in Subjects : ack[x] # "no"}]]
    /\ UNCHANGED <<store, writeMu, admin, up, now, history, restarts>>

(* frozenSubject: the resolved caller and end user first, then the peer.   *)
PeerLookup_Never(r) == FALSE
PeerLookup(r) == r.peer # resolveCaller(r)
frozenSubject(s) ==
    /\ sign[s].pc = "frozen"
    /\ LET r == sign[s].req IN
       IF Frozen(store, resolveCaller(r), r.endUser) THEN Reply(s)
       ELSE Goto(s, IF PeerLookup(r) THEN "peer" ELSE "decide")
    /\ UNCHANGED <<store, writeMu, admin, up, now, history, restarts>>

frozenPeer(s) ==
    /\ sign[s].pc = "peer"
    /\ IF Frozen(store, sign[s].req.peer, "") THEN Reply(s) ELSE Goto(s, "decide")
    /\ UNCHANGED <<store, writeMu, admin, up, now, history, restarts>>

(* resolveCommandPolicy: live grants widen the allowlist; a command still  *)
(* not allowed is denied.                                                  *)
resolveCommandPolicy(s) ==
    /\ sign[s].pc = "decide"
    /\ LET r == sign[s].req IN
       IF r.cmd \notin AllowedCmds /\ ~GrantsFor(store, Intent(r), now) THEN Reply(s)
       ELSE Goto(s, IF r.cmd \in GatedCmds THEN "waiver" ELSE "respond")
    /\ UNCHANGED <<store, writeMu, admin, up, now, history, restarts>>

(* A live waiver lifts the gate.  A gated command without an approval gets *)
(* the decision and no certificate.                                        *)
waiverCheck(s) ==
    /\ sign[s].pc = "waiver"
    /\ LET waived == WaiverMatches(store, Intent(sign[s].req), now) IN
       IF ~waived /\ ~effectiveApproved(sign[s].req) THEN Reply(s)
       ELSE sign' = [sign EXCEPT ![s].pc = "respond", ![s].gated = ~waived]
    /\ UNCHANGED <<store, writeMu, admin, up, now, history, restarts>>

(* appendAudit: in fail-closed mode a failed append refuses the action.    *)
appendAudit_Open(ok) == FALSE
appendAudit(ok) == FailClosed /\ ~ok

(* The CA signs or fails; respondSignResult commits the issued record      *)
(* before the certificate leaves; a learn request goes on.                 *)
respondSignResult(s) ==
    /\ sign[s].pc = "respond"
    /\ LET r == sign[s].req IN
       \/ Reply(s)
       \/ \E ok \in AuditOutcomes :
            IF \/ appendAudit(ok) \/ r.dryRun
               \/ ~(r.peer \in Forwarders /\ r.learn /\ sign[s].gated)
            THEN Reply(s)
            ELSE sign' = [sign EXCEPT ![s].pc = "learn", ![s].recorded = ok]
    /\ UNCHANGED <<store, writeMu, admin, up, now, history, restarts>>

(* maybeLearnWaiver takes writeMu, mints nothing for a frozen subject, and *)
(* replaces the waivers it refreshes by a new one.                         *)
MayMint_Always(caller, endUser) == TRUE
MayMint(caller, endUser) == ~Frozen(store, caller, endUser)

NewWaiver(s) ==
    LET in == Intent(sign[s].req)
    IN  [kind |-> "waive", host |-> in.host, cmd |-> in.cmd, caller |-> in.caller,
         endUser |-> in.endUser, sudo |-> in.sudo, sudoUser |-> in.sudoUser,
         expiresAt |-> now + TTL, recorded |-> sign[s].recorded]

(* GrantStore.Add with a fresh id.  When GrantIds is used up, the bound on *)
(* the number of grants, the insert fails.                                 *)
Mint(g) ==
    \/ /\ \E id \in GrantIds \ used : store' \in AddGrant(store, id, g) /\ used' = used \cup {id}
       /\ clean' = {x \in clean : x \in store.frozen \/ ~Scoped(g, x)}
    \/ used = GrantIds /\ UNCHANGED <<store, used, clean>>

maybeLearnWaiver(s) ==
    /\ sign[s].pc = "learn" /\ writeMu = Free
    /\ LET r == sign[s].req IN
       IF ~MayMint(resolveCaller(r), r.endUser)
       THEN Reply(s) /\ UNCHANGED <<store, writeMu>>
       ELSE /\ store' \in SupersedeWaiver(store, NewWaiver(s))
            /\ writeMu' = s
            /\ Goto(s, "mint")
    /\ UNCHANGED <<admin, up, now, history, restarts>>

mintWaiver(s) ==
    /\ sign[s].pc = "mint"
    /\ Mint(NewWaiver(s))
    /\ writeMu' = Free
    /\ Reply(s)
    /\ UNCHANGED <<admin, up, now, ack, gone, restarts>>
-----------------------------------------------------------------------------
(* handleFreeze: the freeze, then, in a second step, the revocation of the *)
(* subject's grants and the reply.                                         *)
Told(subj, res) == IF (res = "ok" /\ StateDB) \/ ack[subj] = "durable" THEN "durable" ELSE "enforced"

handleFreeze(a, subj) ==
    /\ up /\ admin[a].pc = "idle" /\ writeMu = Free
    /\ \E o \in AddFreeze(store, subj) :
        /\ store' = o.store
        /\ writeMu' = IF o.res = "error" THEN Free ELSE a
        /\ admin' = IF o.res = "error" THEN admin
                    ELSE [admin EXCEPT ![a] = [pc |-> "revoke", subj |-> subj, res |-> o.res]]
    /\ UNCHANGED <<sign, up, now, history, restarts>>

freezeRevoke(a) ==
    /\ admin[a].pc = "revoke"
    /\ LET subj == admin[a].subj IN
       \E o \in RevokeForSubject(store, subj) :
        /\ store' = o.store
        /\ ack' = [ack EXCEPT ![subj] = Told(subj, admin[a].res)]
        /\ clean' = IF o.res = "ok" THEN clean \cup {subj} ELSE clean
        /\ gone' = IF o.res = "ok" THEN gone \cup ScopedTo(store, subj) ELSE gone
    /\ writeMu' = Free
    /\ admin' = [admin EXCEPT ![a] = IdleAdmin]
    /\ UNCHANGED <<sign, up, now, used, restarts>>

(* handleUnfreeze: remove the freeze, then sweep what grants it left.  A   *)
(* subject that is not frozen is swept too.                                *)
handleUnfreeze(a, subj) ==
    /\ up /\ admin[a].pc = "idle" /\ writeMu = Free
    /\ \E o \in RemoveFreeze(store, subj) :
        /\ store' = o.store
        /\ writeMu' = IF o.res = "error" THEN Free ELSE a
        /\ admin' = IF o.res = "error" THEN admin
                    ELSE [admin EXCEPT ![a] = [pc |-> "sweep", subj |-> subj, res |-> "ok"]]
    /\ ack' = [ack EXCEPT ![subj] = "no"]
    /\ sign' = [s \in Signs |-> [sign[s] EXCEPT !.barred = @ \ {subj}]]
    /\ UNCHANGED <<up, now, clean, used, gone, restarts>>

unfreezeSweep(a) ==
    /\ admin[a].pc = "sweep"
    /\ LET subj == admin[a].subj IN
       \E o \in RevokeForSubject(store, subj) :
        /\ store' = o.store
        /\ clean' = IF o.res = "ok" THEN clean \cup {subj} ELSE clean
        /\ gone' = IF o.res = "ok" THEN gone \cup ScopedTo(store, subj) ELSE gone
    /\ writeMu' = Free
    /\ admin' = [admin EXCEPT ![a] = IdleAdmin]
    /\ UNCHANGED <<sign, up, now, ack, used, restarts>>

(* handleGrantCreate: the snapshot and HostAllowlistActive come before     *)
(* writeMu; under it, a frozen subject is refused.                         *)
handleGrantCreate(a, g) ==
    /\ up /\ admin[a].pc = "idle"
    /\ admin' = [admin EXCEPT ![a] = [IdleAdmin EXCEPT !.pc = "grant", !.subj = g]]
    /\ UNCHANGED <<store, writeMu, sign, up, now, history, restarts>>

grantAdd(a) ==
    /\ admin[a].pc = "grant" /\ writeMu = Free
    /\ LET g == admin[a].subj IN
       IF ~MayMint(g.caller, g.endUser) THEN UNCHANGED <<store, used, clean>>
       ELSE Mint([kind |-> "allow", host |-> g.host, cmd |-> g.cmd, caller |-> g.caller,
                  endUser |-> g.endUser, sudo |-> FALSE, sudoUser |-> "",
                  expiresAt |-> now + TTL, recorded |-> FALSE])
    /\ admin' = [admin EXCEPT ![a] = IdleAdmin]
    /\ UNCHANGED <<writeMu, sign, up, now, ack, gone, restarts>>

(* handleGrantRevoke does not take writeMu.                                *)
handleGrantRevoke(id) ==
    /\ up
    /\ \E o \in Revoke(store, id) :
        /\ store' = o.store
        /\ gone' = IF o.res = "ok" THEN gone \cup {id} ELSE gone
    /\ UNCHANGED <<writeMu, sign, admin, up, now, ack, clean, used, restarts>>

handleGrantList ==
    /\ up /\ Expired(store.grants, now) # {}
    /\ store' = ListGrants(store, now)
    /\ UNCHANGED <<writeMu, sign, admin, up, now, history, restarts>>

purgeSweep ==
    /\ up /\ Expired(store.grants, now) \cup Expired(Db(store).grants, now) # {}
    /\ store' \in Purge(store, now)
    /\ UNCHANGED <<writeMu, sign, admin, up, now, history, restarts>>
-----------------------------------------------------------------------------
(* A crash ends every request; a power loss also drops commits.  An        *)
(* operator told only of an enforced freeze was told that it may be lost,  *)
(* and what was reported of grants is not promised across a power loss:    *)
(* only a freeze is checkpointed.                                          *)
Crash ==
    /\ up /\ restarts < MaxRestarts
    /\ up' = FALSE
    /\ restarts' = restarts + 1
    /\ \/ UNCHANGED <<store, clean, gone>>
       \/ /\ \E k \in 1..Len(store.wal) : store' = [store EXCEPT !.wal = <<@[k]>>]
          /\ clean' = {} /\ gone' = {}
    /\ writeMu' = Free
    /\ sign' = [s \in Signs |-> IdleSign]
    /\ admin' = [a \in Admins |-> IdleAdmin]
    /\ ack' = [x \in Subjects |-> IF ack[x] = "durable" THEN "durable" ELSE "no"]
    /\ UNCHANGED <<now, used>>

(* main: both stores are loaded before the listener starts.                *)
Start ==
    /\ ~up
    /\ up' = TRUE
    /\ store' = Loaded(store.wal, now)
    /\ UNCHANGED <<writeMu, sign, admin, now, history, restarts>>

Tick ==
    /\ now < MaxTime
    /\ now' = now + 1
    /\ UNCHANGED <<store, writeMu, sign, admin, up, history, restarts>>

SignStep(s) ==
    \/ frozenSubject(s) \/ frozenPeer(s) \/ resolveCommandPolicy(s) \/ waiverCheck(s)
    \/ respondSignResult(s) \/ maybeLearnWaiver(s) \/ mintWaiver(s)
AdminStep(a) == freezeRevoke(a) \/ unfreezeSweep(a) \/ grantAdd(a)

Next ==
    \/ \E s \in Signs : (\E r \in Requests : handleSign(s, r)) \/ SignStep(s)
    \/ \E a \in Admins :
        \/ \E subj \in Subjects : handleFreeze(a, subj) \/ handleUnfreeze(a, subj)
        \/ \E g \in Scopes : handleGrantCreate(a, g)
        \/ AdminStep(a)
    \/ \E id \in GrantIds : handleGrantRevoke(id)
    \/ handleGrantList \/ purgeSweep \/ Crash \/ Start \/ Tick

Spec == Init /\ [][Next]_vars
-----------------------------------------------------------------------------
(* A freeze the operator was told is in force is enforced by the running   *)
(* process, and one reported durable is in every state a power loss can    *)
(* leave, until an unfreeze is asked for (FreezeStore.Add, #210, #353).    *)
FreezeDurable ==
    \A x \in Subjects :
        /\ ack[x] = "durable" => \A k \in DOMAIN store.wal : x \in store.wal[k].freezes
        /\ up /\ ack[x] # "no" => x \in store.frozen

(* handleSign goes past its freeze checks only for a request none of whose *)
(* identities, the forwarding peer's included, was frozen when the request *)
(* came in and has stayed frozen (#117, #203).                             *)
IssuedUnfrozen ==
    \A s \in Signs : sign[s].pc \notin {"idle", "frozen", "peer"} =>
        SubjectsOf(sign[s].req) \cap sign[s].barred = {}

(* Once a freeze or an unfreeze reports a subject's grants revoked, no     *)
(* grant scoped to it is live until one is created while the subject is    *)
(* not frozen: not by a request that raced the freeze, not after the       *)
(* unfreeze, not after a restart (#224, #330, #354).  A grant reported     *)
(* revoked, by Revoke or by the sweep, never comes back, in memory or from *)
(* the database at a restart.                                              *)
SweptStays ==
    /\ \A x \in clean : up => ScopedTo(store, x) = {}
    /\ \A i \in gone : Db(store).grants[i] = NoGrant /\ (up => store.grants[i] = NoGrant)

(* In fail-closed mode every waiver, in memory or on disk, was learned     *)
(* from an issuance whose record was committed first (#222).               *)
LearnAudited ==
    FailClosed => \A i \in GrantIds : \A g \in {store.grants[i], Db(store).grants[i]} :
        g # NoGrant => g.kind = "allow" \/ g.recorded
=============================================================================
