---------------------------- MODULE ControlPlane ----------------------------
(***************************************************************************)
(* The control plane's handlers (cmd/control-plane/main.go) over the       *)
(* approval registry, its state db, the behaviour tracker and the audit    *)
(* log.  A broker asks to sign; a request that needs a human is registered *)
(* and polled; an approver decides it; one poll forwards the approved      *)
(* request to the signer and hands out the credential.                     *)
(*                                                                         *)
(* Every poll (handleResult) is a thread with a program counter, because   *)
(* it takes the registry's mutex several times and calls the signer with   *)
(* the mutex free.  The state db and the audit log may refuse a write, the *)
(* answer of the signer may be lost, and the process may crash and restart *)
(* between any two steps.                                                  *)
(***************************************************************************)
EXTENDS ApprovalRegistry, Behavior

CONSTANTS Ids,            \* approval ids (newID is random: never reused)
          Signers,        \* sign requests that may be in flight at once
          Pollers,        \* polls that may be in flight at once
          Approvers,      \* approval.callers
          SignCallers,    \* sign_callers; empty is every CN but the approvers
          Forwarders,     \* trusted_forwarders
          Gated,          \* brokers whose end users the signer re-validates
          FailClosed,     \* audit_fail_mode = closed
          StateDB,        \* a state db is configured
          DbOutcomes,     \* whether a best-effort db write may succeed, fail
          AuditOutcomes,  \* whether an audit append may succeed, fail
          NoId,           \* no approval id
          NoRequest,      \* no sign request
          MaxTime,        \* bound on the clock
          MaxSignTime,    \* bound on when a request may arrive or be registered
          MaxIssued,      \* bound on the credentials issued for one id
          MaxRestarts,    \* bound on restarts
          MaxBurst        \* bound on the requests of a subject in the rate window

(* A sign request that waits for the signer: who asks for what, and the    *)
(* rule its approval would carry.                                          *)
SignRequest == [caller : CNs, endUser : EndUsers \cup {""}, host : Hosts, cmd : Cmds,
                rule : Rules]

ASSUME ControlPlaneAssumption ==
    /\ Approvers \subseteq CNs /\ SignCallers \subseteq CNs
    /\ Forwarders \subseteq CNs /\ Gated \subseteq CNs
    /\ FailClosed \in BOOLEAN /\ StateDB \in BOOLEAN
    /\ DbOutcomes \subseteq BOOLEAN /\ AuditOutcomes \subseteq BOOLEAN
    /\ MaxTime \in Nat /\ MaxSignTime \in Nat /\ MaxIssued \in Nat
    /\ MaxRestarts \in Nat /\ MaxBurst \in Nat
    /\ NoId \notin Ids /\ NoRequest \notin SignRequest

VARIABLES items,      \* Registry.items
          db,         \* the approvals table
          tracker,    \* BehaviorTracker.subjects
          now,        \* the clock
          signing,    \* the sign requests in flight
          poll,       \* the polls in flight
          gating,     \* the allow decisions whose audit record is still due
          origin,     \* history: the entry first registered under each id
          issued,     \* history: credentials the signer issued for each id
          delivered,  \* history: credentials handed out for each id (this life)
          told,       \* history: ids whose broker got a final answer (this life)
          reports,    \* history: denied/expired records appended for each id (this life)
          allowed,    \* durable approval-decision-allow records: ids
          granted,    \* durable approval-granted records: <<id, approver>>
          restarts    \* history: restarts so far

vars == <<items, db, tracker, now, signing, poll, gating, origin, issued, delivered,
          told, reports, allowed, granted, restarts>>
registryVars == <<items, db, tracker, signing, gating, origin, allowed>>
outcomeVars == <<issued, delivered, told, reports, granted>>

(* A poll: its program counter, the id in its path, what it keeps of the   *)
(* snapshot Get returned, and consumeOK.                                   *)
PollStates == {"idle", "report", "claim", "forward", "gate", "finish"}
Poll == [pc : PollStates, id : Ids \cup {NoId}, by : CNs \cup {NoCN},
         ok : BOOLEAN]
IdlePoll == [pc |-> "idle", id |-> NoId, by |-> NoCN, ok |-> FALSE]

(* The poll holds the claim of BeginConsume on its id.                     *)
Holds(p, id) == poll[p].pc \in {"forward", "gate", "finish"} /\ poll[p].id = id

TypeOK ==
    /\ items \in [Ids -> Approval \cup {NoApproval}]
    /\ db \in [Ids -> Approval \cup {NoApproval}]
    /\ now \in Nat
    /\ signing \in [Signers -> SignRequest \cup {NoRequest}]
    /\ poll \in [Pollers -> Poll]
    /\ gating \in [Approvers -> Ids \cup {NoId}]
    /\ origin \in [Ids -> Approval \cup {NoApproval}]
    /\ issued \in [Ids -> Nat] /\ delivered \in [Ids -> Nat] /\ reports \in [Ids -> Nat]
    /\ told \subseteq Ids /\ allowed \subseteq Ids
    /\ granted \subseteq Ids \X (CNs \cup {NoCN})
    /\ restarts \in Nat

Init ==
    /\ items = [i \in Ids |-> NoApproval]
    /\ db = [i \in Ids |-> NoApproval]
    /\ tracker = [s \in {} |-> {}]
    /\ now = 0
    /\ signing = [s \in Signers |-> NoRequest]
    /\ poll = [p \in Pollers |-> IdlePoll]
    /\ gating = [a \in Approvers |-> NoId]
    /\ origin = [i \in Ids |-> NoApproval]
    /\ issued = [i \in Ids |-> 0] /\ delivered = [i \in Ids |-> 0]
    /\ reports = [i \in Ids |-> 0]
    /\ told = {} /\ allowed = {} /\ granted = {}
    /\ restarts = 0
-----------------------------------------------------------------------------
isSignCaller(cn) ==
    IF SignCallers # {} THEN cn \in SignCallers ELSE cn \notin Approvers

(* The db after a best-effort write that would make it new.                *)
BestEffort(new, ok) == IF StateDB /\ ok THEN new ELSE db

(* requireApproval and CreateWith: an end user asserted by a broker that   *)
(* is not a trusted forwarder is dropped, aged entries are purged, and the *)
(* row is inserted before the entry; an insert that fails creates nothing. *)
requireApproval(id, cn, endUser, host, cmd, rule) ==
    \E ok, purgeOk \in DbOutcomes :
        LET trusted == cn \in Forwarders
            a == NewApproval(cn, IF trusted THEN endUser ELSE "", ~trusted /\ endUser # "",
                             host, cmd, rule, cn \in Gated, now)
            kept == [i \in Ids |-> PurgedEntry(items[i], now)]
            rows == BestEffort([i \in Ids |-> PurgedRow(db[i], now)], purgeOk)
            fails == StateDB /\ ~ok
        IN /\ items' = IF fails THEN kept ELSE [kept EXCEPT ![id] = a]
           /\ db' = IF StateDB /\ ok THEN [rows EXCEPT ![id] = Row(a)] ELSE rows
           /\ origin' = IF fails THEN origin ELSE [origin EXCEPT ![id] = a]

(* handleSign up to the call of the signer: the guardrails' verdict.  A    *)
(* pure dry-run changes nothing and is not an action.  In enforce mode a   *)
(* request over the rate limit is refused, and an anomalous one goes to    *)
(* the signer's dry-run, to be escalated when that accepts it; any other   *)
(* goes to the signer as it is.  The three guards on the clock, the ids    *)
(* and the events are bounds.                                              *)
handleSign(s, cn, endUser, host, cmd) ==
    /\ now <= MaxSignTime
    /\ signing[s] = NoRequest
    /\ isSignCaller(cn)
    /\ \E id \in Ids : origin[id] = NoApproval
    /\ \A t \in DOMAIN tracker : Len(tracker[t].events) < MaxBurst
    /\ \E r \in Check(tracker, guardrailSubject(Forwarders, cn, endUser), host, cmd, now) :
          /\ tracker' = r.tracker
          /\ signing' = IF Enforcing /\ r.exceeded THEN signing
                        ELSE [signing EXCEPT ![s] =
                                [caller |-> cn, endUser |-> endUser, host |-> host, cmd |-> cmd,
                                 rule |-> IF Enforcing /\ r.novel THEN "behavior" ELSE "policy"]]
    /\ UNCHANGED <<items, db, origin, now, poll, gating, allowed, restarts, outcomeVars>>

(* The signer's answer, with the registry's mutex free until it comes: a   *)
(* credential, a refusal, a rate limit or an outage leave the registry     *)
(* alone; otherwise the command needs approval, by the signer's policy     *)
(* (forwardSignResult) or by the guardrails.                               *)
SignAnswer(s) ==
    LET q == signing[s]
    IN /\ q # NoRequest
       /\ \/ UNCHANGED <<items, db, origin>>
          \/ /\ now <= MaxSignTime
             /\ \E id \in Ids :
                   /\ origin[id] = NoApproval
                   /\ requireApproval(id, q.caller, q.endUser, q.host, q.cmd, q.rule)
       /\ signing' = [signing EXCEPT ![s] = NoRequest]
       /\ UNCHANGED <<tracker, now, poll, gating, allowed, restarts, outcomeVars>>
-----------------------------------------------------------------------------
(* handleResult, first step: Get, with its lazy expiry, and what the       *)
(* status alone answers.                                                   *)
PollGet(p, cn, id) ==
    LET a == expireLocked(items[id], now)
    IN /\ poll[p].pc = "idle"
       /\ isSignCaller(cn)
       /\ a # NoApproval
       /\ items' = [items EXCEPT ![id] = a]
       /\ poll' = IF a.caller # cn \/ a.status = "pending" THEN poll
                  ELSE [poll EXCEPT ![p] =
                          [pc |-> IF a.status = "approved" THEN "claim" ELSE "report",
                           id |-> id, by |-> a.decidedBy, ok |-> FALSE]]
       /\ UNCHANGED <<db, tracker, now, signing, gating, origin, allowed, restarts,
                      outcomeVars>>

(* ReportResultOnce, and the denied or expired answer.                     *)
PollReport(p) ==
    LET id == poll[p].id
        a == expireLocked(items[id], now)
    IN /\ poll[p].pc = "report"
       /\ items' = [items EXCEPT ![id] = ReportResultOnce(a)]
       /\ \E ok \in AuditOutcomes :
             reports' = IF Reports(a) /\ ok THEN [reports EXCEPT ![id] = @ + 1] ELSE reports
       /\ told' = told \cup {id}
       /\ poll' = [poll EXCEPT ![p] = IdlePoll]
       /\ UNCHANGED <<db, tracker, now, signing, gating, origin, issued, delivered,
                      allowed, granted, restarts>>

(* BeginConsume: the first poll proceeds, another is told to poll again,   *)
(* and one that finds the approval used, expired or purged since Get gets  *)
(* the final answer 410, approval already used.                            *)
PollClaim(p) ==
    LET id == poll[p].id
        a == expireLocked(items[id], now)
    IN /\ poll[p].pc = "claim"
       /\ items' = [items EXCEPT ![id] = BeginConsume(a)]
       /\ poll' = [poll EXCEPT ![p] = IF Startable(a) THEN [@ EXCEPT !.pc = "forward"]
                                      ELSE IdlePoll]
       /\ told' = IF Startable(a) \/ Retriable(a) THEN told ELSE told \cup {id}
       /\ UNCHANGED <<db, tracker, now, signing, gating, origin, issued, delivered,
                      reports, allowed, granted, restarts>>

(* Request, intentFrom and Remote.SignIntent, with the mutex free.  The    *)
(* request is gone when the entry was purged, and the empty one has no     *)
(* public key.  The signer may issue and its answer be lost; without the   *)
(* bearer token it refuses a gated broker.                                 *)
PollForward(p) ==
    LET id == poll[p].id
        a == items[id]
        fail == [poll EXCEPT ![p].pc = "finish"]
        mayIssue == /\ a # NoApproval
                    /\ a.caller \in Gated => a.bearer
                    /\ issued[id] < MaxIssued
    IN /\ poll[p].pc = "forward"
       /\ \/ /\ poll' = fail
             /\ UNCHANGED issued
          \/ /\ mayIssue
             /\ issued' = [issued EXCEPT ![id] = @ + 1]
             /\ \/ poll' = fail
                \/ poll' = [poll EXCEPT ![p].pc = "gate"]
       /\ UNCHANGED <<registryVars, now, delivered, told, reports, granted, restarts>>

(* learnBehaviorApproval: reads the request kept at PollForward, whose     *)
(* subject, host and command never change.                                 *)
learnBehaviorApproval(id) ==
    LET a == origin[id]
    IN IF a.rule # "behavior" \/ ~Enabled THEN UNCHANGED tracker
       ELSE tracker' \in Learn(tracker, guardrailSubject(Forwarders, a.caller, a.endUser),
                               a.host, a.cmd, now)

(* auditGate: in fail-closed mode a record that cannot be appended rejects *)
(* the request.                                                            *)
auditGate(ok) == ok \/ ~FailClosed

(* The approval-granted gate, then the answer with the credential.  In     *)
(* fail-closed mode a failed append withholds it and does not burn the     *)
(* approval.                                                               *)
PollGate(p) ==
    LET id == poll[p].id
    IN /\ poll[p].pc = "gate"
       /\ learnBehaviorApproval(id)
       /\ \E ok \in AuditOutcomes :
             /\ granted' = IF ok THEN granted \cup {<<id, poll[p].by>>} ELSE granted
             /\ IF auditGate(ok)
                THEN /\ delivered' = [delivered EXCEPT ![id] = @ + 1]
                     /\ poll' = [poll EXCEPT ![p].pc = "finish", ![p].ok = TRUE]
                ELSE /\ poll' = [poll EXCEPT ![p].pc = "finish"]
                     /\ UNCHANGED delivered
       /\ UNCHANGED <<items, db, now, signing, gating, origin, issued, told, reports,
                      allowed, restarts>>

(* The deferred FinishConsume(id, consumeOK), after the answer is written. *)
PollFinish(p) ==
    LET id == poll[p].id
        consume == poll[p].ok /\ items[id] # NoApproval
    IN /\ poll[p].pc = "finish"
       /\ items' = [items EXCEPT ![id] = FinishConsume(@, poll[p].ok)]
       /\ \E ok \in DbOutcomes :
             db' = IF consume /\ db[id] # NoApproval
                   THEN BestEffort([db EXCEPT ![id].consumed = TRUE], ok) ELSE db
       /\ poll' = [poll EXCEPT ![p] = IdlePoll]
       /\ UNCHANGED <<tracker, now, signing, gating, origin, allowed, restarts, outcomeVars>>
-----------------------------------------------------------------------------
(* The originator of a request must not decide it.                         *)
SelfApproval_Allowed(cn, a) == FALSE
SelfApproval(cn, a) == a.caller = cn

(* handleApprovalDecide up to Decide: the originator may not decide.  An   *)
(* allow still has its audit record to write.                              *)
handleApprovalDecide(cn, id, approve, learn) ==
    LET a == expireLocked(items[id], now)
        d == Decided(a, approve, cn, learn, now)
    IN /\ gating[cn] = NoId
       /\ a # NoApproval
       /\ IF SelfApproval(cn, a) \/ ~MayDecide(a, approve, learn)
          THEN items' = [items EXCEPT ![id] = a] /\ UNCHANGED <<db, gating>>
          ELSE /\ items' = [items EXCEPT ![id] = d]
               /\ \E ok \in DbOutcomes :
                     db' = IF db[id] = NoApproval THEN db
                           ELSE BestEffort([db EXCEPT ![id].status = d.status,
                                                      ![id].learn = d.learn,
                                                      ![id].decidedBy = d.decidedBy,
                                                      ![id].decidedAt = d.decidedAt], ok)
               /\ gating' = IF approve THEN [gating EXCEPT ![cn] = id] ELSE gating
       /\ UNCHANGED <<tracker, now, signing, poll, origin, allowed, restarts, outcomeVars>>

(* The rest of handleApprovalDecide: the gate on the allow record, which   *)
(* answers 503 when it fails and leaves the decision as it is.             *)
DecideGate(cn) ==
    /\ gating[cn] # NoId
    /\ \E ok \in AuditOutcomes :
          allowed' = IF ok THEN allowed \cup {gating[cn]} ELSE allowed
    /\ gating' = [gating EXCEPT ![cn] = NoId]
    /\ UNCHANGED <<items, db, tracker, now, signing, poll, origin, restarts, outcomeVars>>

(* handleApprovalsList, the approvals UI and the pending gauge.            *)
List ==
    /\ items' = [i \in Ids |-> expireLocked(PurgedEntry(items[i], now), now)]
    /\ \E ok \in DbOutcomes : db' = BestEffort([i \in Ids |-> PurgedRow(db[i], now)], ok)
    /\ UNCHANGED <<tracker, now, signing, poll, gating, origin, allowed, restarts, outcomeVars>>

Tick ==
    /\ now < MaxTime
    /\ now' = now + 1
    /\ UNCHANGED <<registryVars, poll, restarts, outcomeVars>>

(* A crash at any point and the next start: everything in memory is lost   *)
(* and main reloads the registry from the state db and lists it.           *)
Restart ==
    /\ restarts < MaxRestarts
    /\ restarts' = restarts + 1
    /\ items' = [i \in Ids |-> IF StateDB THEN expireLocked(Loaded(db[i], now), now)
                               ELSE NoApproval]
    /\ \E ok \in DbOutcomes : db' = BestEffort([i \in Ids |-> PurgedRow(db[i], now)], ok)
    /\ tracker' = [s \in {} |-> {}]
    /\ signing' = [s \in Signers |-> NoRequest]
    /\ poll' = [p \in Pollers |-> IdlePoll]
    /\ gating' = [a \in Approvers |-> NoId]
    /\ told' = {}
    /\ delivered' = [i \in Ids |-> 0] /\ reports' = [i \in Ids |-> 0]
    /\ UNCHANGED <<now, origin, issued, allowed, granted>>

PollStep(p) == PollReport(p) \/ PollClaim(p) \/ PollForward(p) \/ PollGate(p) \/ PollFinish(p)

Next ==
    \/ \E s \in Signers, cn \in CNs, u \in EndUsers \cup {""}, h \in Hosts, c \in Cmds :
          handleSign(s, cn, u, h, c)
    \/ \E s \in Signers : SignAnswer(s)
    \/ \E p \in Pollers, cn \in CNs, id \in Ids : PollGet(p, cn, id)
    \/ \E p \in Pollers : PollStep(p)
    \/ \E cn \in Approvers, id \in Ids, approve, learn \in BOOLEAN :
          handleApprovalDecide(cn, id, approve, learn)
    \/ \E cn \in Approvers : DecideGate(cn)
    \/ List
    \/ Tick
    \/ Restart

Spec == Init /\ [][Next]_vars
-----------------------------------------------------------------------------
(* A request has one outcome in a life of the process: one credential      *)
(* (Approval.consumed, approval.go:70) or one denied or expired record     *)
(* (ReportResultOnce, #746), never both, however many polls race for it    *)
(* and whatever the signer, the db and the audit log answer.  Once a       *)
(* refusal is on record, or a broker was told that the request is denied,  *)
(* expired or used, no poll carries it to the signer; only an entry purged *)
(* under a poll that holds it is an exception (purgeLocked spares no       *)
(* claim): a second poll is then told 410 while the first may still        *)
(* deliver.  A restart may expose the approval once more, because issuing  *)
(* is not persisted and consumed is written after the answer.              *)
SingleUse ==
    \A id \in Ids : /\ delivered[id] + reports[id] <= 1
                    /\ reports[id] > 0 \/ (id \in told /\ items[id] # NoApproval) =>
                          \A p \in Pollers : ~Holds(p, id)

(* The claim of BeginConsume excludes every other poll from the approval   *)
(* until FinishConsume, and while it is held the approval stays approved   *)
(* and unconsumed however late the signer answers (expireLocked skips an   *)
(* approval that is being forwarded).                                      *)
ClaimExclusive ==
    \A p \in Pollers, id \in Ids : Holds(p, id) =>
        /\ \A q \in Pollers : Holds(q, id) => q = p
        /\ items[id] # NoApproval =>
              items[id].issuing /\ items[id].status = "approved" /\ ~items[id].consumed

(* An approval marked as being forwarded is held by a poll, so a claim is  *)
(* never left behind (the deferred FinishConsume of handleResult).         *)
NoOrphanClaim ==
    \A id \in Ids : items[id] # NoApproval /\ items[id].issuing => \E p \in Pollers : Holds(p, id)

(* Four eyes: in fail-closed mode a credential that left the control plane *)
(* has a durable approval-granted record, and every such record names an   *)
(* approver who is not the broker that asked (handleApprovalDecide's       *)
(* self-approval guard, auditGate).  An approval carries approve-and-learn *)
(* only for a request whose end user was not dropped, because the waiver   *)
(* would match every end user of the broker (#451, ErrLearnUnattributable).*)
FourEyes ==
    /\ FailClosed => \A id \in Ids : delivered[id] > 0 => \E r \in granted : r[1] = id
    /\ \A r \in granted : r[2] \in Approvers /\ r[2] # origin[r[1]].caller
    /\ \A id \in Ids : items[id] # NoApproval /\ items[id].learn => ~origin[id].stripped

(* In enforce mode what a subject does for the first time enters its       *)
(* baseline only through an approval that the signer honoured, apart from  *)
(* the one request that established the baseline (Check, Learn,            *)
(* learnBehaviorApproval).                                                 *)
Approved(s) ==
    {id \in Ids : /\ origin[id] # NoApproval /\ origin[id].rule = "behavior" /\ issued[id] > 0
                  /\ s = guardrailSubject(Forwarders, origin[id].caller, origin[id].endUser)}

NoveltyApproved ==
    Enforcing => \A s \in DOMAIN tracker :
        /\ Cardinality(tracker[s].hosts \ {origin[id].host : id \in Approved(s)}) <= 1
        /\ Cardinality(tracker[s].cmds \ {origin[id].cmd : id \in Approved(s)}) <= 1

(* An approval is claimed only inside its usable window: TTL from the      *)
(* decision, so 2 TTL from the request (expireLocked in BeginConsume),     *)
(* whatever the poll saw when it took its snapshot.                        *)
Claims(id) ==
    /\ items[id] # NoApproval /\ items'[id] # NoApproval
    /\ ~items[id].issuing /\ items'[id].issuing

RedeemWindow ==
    [][\A id \in Ids : Claims(id) => /\ now - items[id].decidedAt <= TTL
                                     /\ now - items[id].createdAt <= 2 * TTL]_vars

(* The registry keeps the promise of ApprovalLifecycle, failing db writes  *)
(* and restarts included.  A claim counts from BeginConsume to the answer, *)
(* and a second credential would be a state the promise does not have.     *)
lifecycle ==
    [id \in Ids |->
        CASE delivered[id] > 1 -> "overused"
          [] delivered[id] = 1 -> "redeemed"
          [] delivered[id] = 0 /\ (\E p \in Pollers : Holds(p, id)) -> "claimed"
          [] OTHER -> IF items[id] # NoApproval
                      THEN IF items[id].consumed THEN "redeemed" ELSE items[id].status
                      ELSE IF origin[id] = NoApproval THEN "none" ELSE "gone"]

Lifecycle == INSTANCE ApprovalLifecycle WITH state <- lifecycle, life <- restarts

RefinesLifecycle == Lifecycle!Spec
=============================================================================
