------------------------------ MODULE K8sAccess ------------------------------
(***************************************************************************)
(* One Kubernetes cluster behind the broker: Engine.K8sExecute             *)
(* (internal/broker/k8s.go) asks the signer for a bound token              *)
(* (cmd/signer/k8s.go, internal/signer/k8spolicy.go) and calls the API     *)
(* server with it (internal/k8s).  Broker and signer each resolve the      *)
(* action against a resource table of their own: the broker a copy it      *)
(* fetched, which a reload of the signer makes stale.  Calls of several    *)
(* users, refreshes, reloads, human decisions, abandoned requests, lost    *)
(* answers, failed mints, failed API calls and failed audit writes         *)
(* interleave.                                                             *)
(*                                                                         *)
(* The command policy is one effect per verb and namespace; the gates of   *)
(* handleSign before the k8s branch are modelled in SignerState, of them   *)
(* only the rate limit is here, for it answers without a record.  The      *)
(* control plane, where there is one, forwards each request once and each  *)
(* poll of an approved one again (cmd/control-plane/main.go); its          *)
(* registry and its behaviour guardrails are modelled in ControlPlane, and *)
(* a forward that timed out is taken to be over before the next poll.      *)
(*                                                                         *)
(* An operator Op_Variant is Op with one mistake; no action uses it.       *)
(***************************************************************************)
EXTENDS Naturals, FiniteSets

CONSTANTS Calls,        \* the calls of K8sExecute
          Actions,      \* the actions users ask for
          Policies,     \* the cluster policies a reload may load
          FailClosed,   \* audit_fail_closed, of both processes
          AuditOk,      \* the outcomes an audit append may have
          Setups,       \* the broker asks the signer, or a control plane,
                        \* where it waits for a human or not
          MaxReloads,   \* bound on the reloads
          None

Verbs == {"get", "list", "logs", "apply", "delete"}

Action == [verb: Verbs, resource: STRING, group: STRING, ns: STRING, name: STRING]

ASSUME K8sAssumption ==
    /\ Actions \subseteq Action
    /\ FailClosed \in BOOLEAN /\ AuditOk \subseteq BOOLEAN
    /\ Setups \subseteq {"signer", "noWait", "wait"}
    /\ MaxReloads \in Nat
    /\ None # "executed"

VARIABLES policy,   \* signer: the cluster policy in force, or None
          waivers,  \* signer: the canonical actions approve-and-learn un-gates
          srv,      \* signer: the handler of each call
          cache,    \* broker: the policy /v1/clusters told of, or None
          call,     \* broker: the state of each call
          slog,     \* what the signer's log holds for each call: the outcome
                    \* of the last record, and whether one is an issuance
          blog,     \* the outcome the broker's log holds for each call
          ran,      \* history: what the API server did for each call
          decided,  \* history: the last decision of the signer on each call
          reloads

vars == <<policy, waivers, srv, cache, call, slog, blog, ran, decided, reloads>>

-----------------------------------------------------------------------------
(* Actions, tables and canonical forms. *)

Validate_LogsAny(a) ==
    /\ a.verb = "list" <=> a.name = ""
    /\ a.verb = "logs" => a.ns # ""

\* The demands of each verb; logs is pinned to core pods.
Validate(a) ==
    /\ a.verb = "list" <=> a.name = ""
    /\ a.verb = "logs" => a.resource = "pods" /\ a.group = "" /\ a.ns # ""

\* The table has the resource, and a group the client gave is the table's.
Resolves(table, a) ==
    /\ a.resource \in DOMAIN table
    /\ a.group \in {"", table[a.resource].group}

\* The group of the table, and no namespace for a cluster-scoped resource.
Normal(table, a) ==
    [a EXCEPT !.group = table[a.resource].group,
              !.ns = IF table[a.resource].namespaced THEN @ ELSE ""]

Dash(s) == IF s = "" THEN "-" ELSE s

\* The canonical string; its parts have no separator in them, so the tuple
\* tells apart what the string does.
Canonical(a) == <<a.verb, a.resource, a.group, Dash(a.ns), Dash(a.name)>>

\* What an API server reads from the method and the path of a request.
resourcePath(def, a) ==
    <<a.verb, a.resource, def.group,
      IF def.namespaced THEN Dash(a.ns) ELSE "-", Dash(a.name)>>

runK8sAction(def, a) ==
    IF a.verb = "logs" THEN <<"logs", "pods", "", Dash(a.ns), Dash(a.name)>>
                       ELSE resourcePath(def, a)

-----------------------------------------------------------------------------
(* The decision of the signer. *)

\* The effect of the command policy, after the waivers.
Effect(p, cmd) ==
    LET e == p.effect[<<cmd[1], cmd[4]>>]
    IN IF e = "approval" /\ cmd \in waivers THEN "allow" ELSE e

\* The gates of handleSignK8s and resolveK8s before the command policy; cmd is
\* the canonical form the broker sent.
Admits(p, a, cmd) ==
    /\ p # None /\ p.visible /\ p.user
    /\ Validate(a)
    /\ Resolves(p.table, a)
    /\ Canonical(Normal(p.table, a)) = cmd

\* signK8s: the outcome of the request, which is also the one audited.  That a
\* binding names a ServiceAccount for the user (bindingFor) is looked at before
\* anything is offered.
Verdict(p, a, cmd, dry, approved, minted) ==
    LET denied == ~Admits(p, a, cmd) \/ Effect(p, cmd) = "deny"
        gated  == Effect(p, cmd) = "approval" /\ ~approved
    IN IF dry THEN IF denied \/ ~p.bound THEN "dry_run_denied"
                                         ELSE "dry_run_allowed"
       ELSE IF denied THEN "denied"
       ELSE IF ~p.bound THEN "error"
       ELSE IF gated THEN "approval-required"
       ELSE IF minted THEN "issued" ELSE "error"

-----------------------------------------------------------------------------
Idle == [pc |-> "idle", action |-> None, dry |-> FALSE, cmd |-> None,
         def |-> None, result |-> None, lost |-> FALSE]

Unasked == [st |-> "none", approved |-> FALSE, learn |-> FALSE, out |-> None,
            recorded |-> FALSE]

NoRecord == [last |-> None, issued |-> FALSE]

Init ==
    /\ policy \in Policies
    /\ cache = IF policy.visible THEN policy ELSE None
    /\ waivers = {}
    /\ srv = [c \in Calls |-> Unasked]
    /\ call = [c \in Calls |-> Idle]
    /\ slog = [c \in Calls |-> NoRecord]
    /\ blog = [c \in Calls |-> None]
    /\ ran = [c \in Calls |-> None]
    /\ decided = [c \in Calls |-> None]
    /\ reloads = 0

\* The broker's auditK8s where the append is best effort: nothing ran.
BestEffort(c, outcome) ==
    \E ok \in AuditOk: blog' = [blog EXCEPT ![c] = IF ok THEN outcome ELSE @]

Done(c, result) == call' = [call EXCEPT ![c].pc = "done", ![c].result = result]

\* K8sExecute up to the request, where a check fails: k8sPreflightDenied.
k8sPreflightDenied(c) ==
    /\ call[c].pc = "idle"
    /\ \E a \in Actions, dry, manifest \in BOOLEAN:
          /\ \/ cache = None
             \/ cache # None /\ ~(Validate(a) /\ Resolves(cache.table, a))
             \/ a.verb = "apply" /\ ~dry /\ ~manifest
          /\ BestEffort(c, "denied")
          /\ Done(c, None)
    /\ UNCHANGED <<policy, waivers, srv, cache, slog, ran, decided, reloads>>

\* K8sExecute up to the request: the action is normalised by the cached table.
K8sExecute(c) ==
    /\ call[c].pc = "idle"
    /\ cache # None
    /\ \E a \in Actions, dry \in BOOLEAN:
          /\ Validate(a)
          /\ Resolves(cache.table, a)
          /\ LET normal == Normal(cache.table, a)
             IN call' = [call EXCEPT ![c] =
                           [@ EXCEPT !.pc = "signing", !.action = normal,
                                     !.dry = dry, !.cmd = Canonical(normal),
                                     !.def = cache.table[a.resource]]]
    /\ srv' = [srv EXCEPT ![c].st = "asked"]
    /\ UNCHANGED <<policy, waivers, cache, slog, blog, ran, decided, reloads>>

\* The rate limit of handleSign answers 429 and writes no record.
rateLimited(c) ==
    /\ srv[c].st = "asked"
    /\ srv' = [srv EXCEPT ![c].st = "answered", ![c].out = "limited",
                          ![c].recorded = FALSE]
    /\ UNCHANGED <<policy, waivers, cache, call, slog, blog, ran, decided, reloads>>

\* handleSignK8s up to the audit record: the decision on the tables of the
\* moment and, if it comes to that, the TokenRequest to the cluster.
handleSignK8s(c) ==
    LET a == call[c].action
        cmd == call[c].cmd
        dry == call[c].dry
    IN /\ srv[c].st = "asked"
       /\ \E minted \in BOOLEAN:
             srv' = [srv EXCEPT ![c].st = "decided",
                        ![c].out = Verdict(policy, a, cmd, dry,
                                            srv[c].approved, minted)]
       /\ decided' = [decided EXCEPT ![c] =
             [effect |-> IF Admits(policy, a, cmd) THEN Effect(policy, cmd)
                                                  ELSE "deny",
              cmd |-> IF Admits(policy, a, cmd)
                      THEN Canonical(Normal(policy.table, a)) ELSE None]]
       /\ UNCHANGED <<policy, waivers, cache, call, slog, blog, ran, reloads>>

\* The signer's auditK8s: a record more.
WithRecord(log, outcome) ==
    [last |-> outcome, issued |-> log.issued \/ outcome = "issued"]

respondSignK8s_Ungated(c) ==
    /\ srv[c].st = "decided"
    /\ \E ok \in AuditOk:
          /\ slog' = [slog EXCEPT ![c] = IF ok THEN WithRecord(@, srv[c].out) ELSE @]
          /\ srv' = [srv EXCEPT ![c].st = "answered", ![c].recorded = ok]
    /\ UNCHANGED <<policy, waivers, cache, call, blog, ran, decided, reloads>>

respondSignK8s_MintDenied(c) ==
    /\ srv[c].st = "decided"
    /\ slog' = [slog EXCEPT ![c] =
                  WithRecord(@, IF srv[c].out = "error" THEN "denied" ELSE srv[c].out)]
    /\ srv' = [srv EXCEPT ![c].st = "answered", ![c].recorded = TRUE]
    /\ UNCHANGED <<policy, waivers, cache, call, blog, ran, decided, reloads>>

\* The rest of handleSignK8s: the record, the answer, and the waiver of
\* approve-and-learn, which comes last.
respondSignK8s(c) ==
    /\ srv[c].st = "decided"
    /\ \E ok \in AuditOk:
          LET goesOn == ok \/ ~FailClosed
          IN /\ slog' = [slog EXCEPT ![c] = IF ok THEN WithRecord(@, srv[c].out) ELSE @]
             /\ srv' = [srv EXCEPT ![c].st = "answered", ![c].recorded = ok,
                                   ![c].out = IF goesOn THEN @ ELSE "unavailable"]
             /\ waivers' = IF /\ goesOn /\ srv[c].out = "issued" /\ srv[c].learn
                              /\ decided[c].effect = "approval"
                           THEN waivers \cup {call[c].cmd} ELSE waivers
    /\ UNCHANGED <<policy, cache, call, blog, ran, decided, reloads>>

\* The answer of the signer reaches K8sExecute at pc.
Answered(c, pc, outs) ==
    call[c].pc = pc /\ srv[c].st = "answered" /\ srv[c].out \in outs

\* A refusal: 403 or 429 is a denial, 502 or 503 an upstream failure.  To a
\* poll, of these only 403 is an end.
signRefused(c) ==
    /\ \/ Answered(c, "signing", {"denied", "limited", "error", "unavailable"})
       \/ Answered(c, "polling", {"denied"})
    /\ BestEffort(c, IF srv[c].out \in {"denied", "limited"} THEN "denied"
                                                             ELSE "error")
    /\ Done(c, None)
    /\ UNCHANGED <<policy, waivers, srv, cache, slog, ran, decided, reloads>>

dryRunAnswered(c) ==
    /\ Answered(c, "signing", {"dry_run_allowed", "dry_run_denied"})
    /\ BestEffort(c, srv[c].out)
    /\ Done(c, srv[c].out)
    /\ UNCHANGED <<policy, waivers, srv, cache, slog, ran, decided, reloads>>

\* The action needs a human, and there is no control plane to ask one.
approvalError(c) ==
    /\ "signer" \in Setups
    /\ Answered(c, "signing", {"approval-required"})
    /\ BestEffort(c, "approval_required")
    /\ Done(c, None)
    /\ UNCHANGED <<policy, waivers, srv, cache, slog, ran, decided, reloads>>

\* There is one, but it cannot create the request (500, an upstream failure),
\* or the client is not configured to wait for it (an error of its own).
noApproval(c) ==
    /\ Answered(c, "signing", {"approval-required"})
    /\ \/ Setups # {"signer"} /\ BestEffort(c, "error")
       \/ "noWait" \in Setups /\ BestEffort(c, "denied")
    /\ Done(c, None)
    /\ UNCHANGED <<policy, waivers, srv, cache, slog, ran, decided, reloads>>

\* It is: pollApproval asks the control plane again and again.
waitApproval(c) ==
    /\ "wait" \in Setups
    /\ Answered(c, "signing", {"approval-required"})
    /\ call' = [call EXCEPT ![c].pc = "waiting"]
    /\ UNCHANGED <<policy, waivers, srv, cache, slog, blog, ran, decided, reloads>>

\* A human approves, perhaps with learning, and the next poll is forwarded.
approve(c) ==
    /\ call[c].pc = "waiting"
    /\ \E learn \in BOOLEAN:
          srv' = [srv EXCEPT ![c] = [Unasked EXCEPT !.st = "asked",
                                       !.approved = TRUE, !.learn = learn]]
    /\ call' = [call EXCEPT ![c].pc = "polling"]
    /\ UNCHANGED <<policy, waivers, cache, slog, blog, ran, decided, reloads>>

\* A human declines, or the wait is over.
decline(c) ==
    /\ call[c].pc = "waiting"
    /\ BestEffort(c, "denied")
    /\ Done(c, None)
    /\ UNCHANGED <<policy, waivers, srv, cache, slog, ran, decided, reloads>>

\* The forward of a poll came to nothing for now (429, 502 or 503): the signer
\* was too busy or failed, or the control plane did not get its answer or could
\* not record the grant and withheld the token.
Transient(c) ==
    Answered(c, "polling", {"limited", "error", "unavailable", "issued"})

\* The approval stays claimable, and the next poll is another forward.
pollAgain(c) ==
    /\ Transient(c)
    /\ srv' = [srv EXCEPT ![c] = [Unasked EXCEPT !.st = "asked",
                                    !.approved = TRUE, !.learn = srv[c].learn]]
    /\ UNCHANGED <<policy, waivers, cache, call, slog, blog, ran, decided, reloads>>

\* Too many such answers in a row, or the deadline: an error that is not an
\* upstream failure for classifySignErr.
giveUp(c) ==
    /\ Transient(c)
    /\ BestEffort(c, "denied")
    /\ Done(c, None)
    /\ UNCHANGED <<policy, waivers, srv, cache, slog, ran, decided, reloads>>

\* The signer cannot be reached, or the answer is lost or too late; a handler
\* that has the request goes on.  An answer cut off in its body, and any
\* failure of a poll, is not an upstream failure for classifySignErr, and is
\* recorded as a denial.
signerUnavailable(c) ==
    /\ \/ call[c].pc = "signing" /\ BestEffort(c, "error")
       \/ /\ call[c].pc = "polling" \/ Answered(c, "signing", {srv[c].out})
          /\ BestEffort(c, "denied")
    /\ call' = [call EXCEPT ![c].pc = "done", ![c].lost = TRUE]
    /\ UNCHANGED <<policy, waivers, srv, cache, slog, ran, decided, reloads>>

\* The call to the API server with the token: it is done or not, and the
\* broker sees it succeed or fail; a failure may hide that it was done.
callServer(c) ==
    /\ Answered(c, "signing", {"issued"}) \/ Answered(c, "polling", {"issued"})
    /\ \E did, seen \in BOOLEAN:
          /\ seen => did
          /\ ran' = [ran EXCEPT ![c] =
                       IF did THEN runK8sAction(call[c].def, call[c].action) ELSE @]
          /\ call' = [call EXCEPT ![c].pc = "recording",
                         ![c].result = IF seen THEN "executed" ELSE "error"]
    /\ UNCHANGED <<policy, waivers, srv, cache, slog, blog, decided, reloads>>

\* The completion record, and the result only if it was written.
finish(c) ==
    /\ call[c].pc = "recording"
    /\ \E ok \in AuditOk:
          /\ blog' = [blog EXCEPT ![c] = IF ok THEN call[c].result ELSE @]
          /\ Done(c, IF ok \/ ~FailClosed THEN call[c].result ELSE None)
    /\ UNCHANGED <<policy, waivers, srv, cache, slog, ran, decided, reloads>>

\* startHostRefresh fetches what handleClusters shows this broker.
refreshClusters ==
    /\ cache' = IF policy # None /\ policy.visible THEN policy ELSE None
    /\ UNCHANGED <<policy, waivers, srv, call, slog, blog, ran, decided, reloads>>

\* A reload of the signer changes the cluster, adds it or removes it.
reload ==
    /\ reloads < MaxReloads
    /\ reloads' = reloads + 1
    /\ policy' \in (Policies \cup {None}) \ {policy}
    /\ UNCHANGED <<waivers, srv, cache, call, slog, blog, ran, decided>>

\* A waiver expires or is revoked.
expireWaiver ==
    /\ \E w \in waivers: waivers' = waivers \ {w}
    /\ UNCHANGED <<policy, srv, cache, call, slog, blog, ran, decided, reloads>>

Step(c) ==
    \/ k8sPreflightDenied(c) \/ K8sExecute(c)
    \/ rateLimited(c) \/ handleSignK8s(c) \/ respondSignK8s(c)
    \/ signRefused(c) \/ dryRunAnswered(c) \/ approvalError(c)
    \/ noApproval(c) \/ waitApproval(c) \/ approve(c) \/ decline(c)
    \/ pollAgain(c) \/ giveUp(c) \/ signerUnavailable(c)
    \/ callServer(c) \/ finish(c)

Next ==
    \/ \E c \in Calls: Step(c)
    \/ refreshClusters \/ reload \/ expireWaiver

Spec == Init /\ [][Next]_vars

-----------------------------------------------------------------------------
Outcomes == {"denied", "error", "issued", "approval-required",
             "dry_run_allowed", "dry_run_denied"}

TypeOK ==
    /\ policy \in Policies \cup {None} /\ cache \in Policies \cup {None}
    /\ \A c \in Calls:
          /\ srv[c].st \in {"none", "asked", "decided", "answered"}
          /\ srv[c].out \in Outcomes \cup {None, "limited", "unavailable"}
          /\ call[c].pc \in {"idle", "signing", "waiting", "polling", "recording", "done"}
          /\ slog[c] \in [last: Outcomes \cup {None}, issued: BOOLEAN]
          /\ blog[c] \in (Outcomes \ {"issued", "approval-required"})
                            \cup {None, "executed", "approval_required"}
    /\ reloads \in 0..MaxReloads

(***************************************************************************)
(* What the API server does is the action the signer decided on, allowed   *)
(* or approved by a human, in the group and in the namespace it decided    *)
(* on, though the broker built the path from a table of its own            *)
(* (resolveK8s compares the canonical forms, K8sAction.Validate pins       *)
(* logs to pods).                                                          *)
(***************************************************************************)
RanAsDecided ==
    \A c \in Calls: ran[c] # None =>
        /\ ran[c] = decided[c].cmd
        /\ decided[c].effect # "deny"
        /\ decided[c].effect = "approval" => srv[c].approved

(***************************************************************************)
(* Under fail-closed auditing nothing happens in the cluster without an    *)
(* issuance record of the signer, no result of it is shown without a       *)
(* completion record of the broker, and a waiver has an approved request   *)
(* with an issuance record behind it: a record that failed leaves none     *)
(* (respondSignK8s before the learning, the end of K8sExecute).            *)
(***************************************************************************)
Traced ==
    FailClosed =>
        /\ \A c \in Calls:
              /\ ran[c] # None => slog[c].issued
              /\ call[c].pc = "done" /\ call[c].result = "executed"
                    => blog[c] = "executed"
        /\ \A w \in waivers: \E c \in Calls:
              srv[c].approved /\ call[c].cmd = w /\ slog[c].issued

\* The outcomes that tell the same story in the two logs, of a request that no
\* human had to approve or has not approved yet, and of an approved one.
SameStory(approved) ==
    {<<"issued", "executed">>, <<"issued", "error">>, <<"denied", "denied">>}
    \cup IF approved THEN {<<"error", "denied">>, <<"issued", "denied">>}
         ELSE {<<"error", "error">>,
               <<"approval-required", "approval_required">>,
               <<"approval-required", "denied">>, <<"approval-required", "error">>,
               <<"dry_run_allowed", "dry_run_allowed">>,
               <<"dry_run_denied", "dry_run_denied">>}

(***************************************************************************)
(* The logs of signer and broker agree on a call whose answer arrived,     *)
(* whatever happened in between.  Without an approval a refusal by policy  *)
(* is a denial in both, a failed mint or a missing binding an error in     *)
(* both (handleSignK8s, K8sExecute).  After an approval the broker polls,  *)
(* and all that ends the polling without a token is a denial in its log    *)
(* (pollApproval, classifySignErr): also a mint that kept failing, for     *)
(* which the comment in K8sExecute promises "error", and a token that the  *)
(* control plane withheld.  Still only an issuance is told as executed or  *)
(* failed, and a refusal only as a denial.                                 *)
(***************************************************************************)
LogsAgree ==
    \A c \in Calls:
        (blog[c] # None /\ srv[c].recorded /\ ~call[c].lost)
           => <<slog[c].last, blog[c]>> \in SameStory(srv[c].approved)
=============================================================================
