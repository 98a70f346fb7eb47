--------------------------- MODULE PolicyDecision ---------------------------
(***************************************************************************)
(* What the signer decides and what it signs (internal/signer/signer.go,   *)
(* grants.go; handleSign, handleHosts, handleGrantCreate and               *)
(* maybeLearnWaiver of cmd/signer): the policy table compiled from the     *)
(* configuration, the runtime grants laid over it, and the certificate,    *)
(* envelope, demand for approval or refusal that a sign request gets.      *)
(*                                                                         *)
(* Stores, locks, freezes, verified identities and the audit gate have     *)
(* modules of their own (SignerState, SignerConfig, AuditLog); here a      *)
(* request is one step and a reload may fall between any two of them.      *)
(* The kubernetes branch of SignIntent is not modelled.                    *)
(*                                                                         *)
(* Definitions named Op_Variant are altered forms of Op used to show that  *)
(* the properties depend on what Op does.                                  *)
(***************************************************************************)
EXTENDS CommandPolicy, FiniteSets

CONSTANTS
  Hosts, Callers, EndUsers, Groups, SudoUsers,
  PolicyNames,    \* keys of command_policies
  Newlined,       \* the commands that contain a newline
  Configs,        \* configurations that may be loaded
  Requests,       \* sign requests
  Grants,         \* allow grants an administrator may create
  Forwarders,     \* trusted_forwarders
  DefaultTTL,     \* the signer's default certificate lifetime
  MaxGrants,      \* bound on the grants alive at a time
  Shim,           \* the force-command of a sealed host
  NoCmd,          \* the empty command, and the absence of a force-command
  NoGroups,       \* end_user_groups absent
  NoDecision      \* no request decided under the present configuration and grants

Root == "root"
AnyOne == ""          \* an unscoped caller or end_user of a grant
DefaultGroup == "_default"
DefaultCallerKey == "_default"
CertCap == 900        \* ca.BuildAndSign's limit, in seconds

HostConfig ==
  [groups : Seq(Groups), allowedCallers : SUBSET Callers,
   allowAsBastion : BOOLEAN, sealed : BOOLEAN, allowSudo : BOOLEAN,
   sudoUsers : SUBSET SudoUsers, uses : SUBSET {"pty", "file"}, maxTTL : Nat,
   inline : CommandPolicy]

\* a sign request: the peer that sent it, the intent, and learn_ttl_seconds > 0
Intent ==
  [peer : Callers \cup Forwarders, learn : BOOLEAN,
   caller : Callers, host : Hosts, role : {"target", "bastion"},
   purpose : {"oneshot", "session"}, mode : {"", "exec", "shell"},
   command : Cmds \cup {NoCmd}, ttl : Nat, sudo : BOOLEAN,
   sudoUser : SudoUsers \cup {""}, uses : SUBSET {"pty", "file"},
   dryRun : BOOLEAN, preflight : BOOLEAN, approved : BOOLEAN,
   endUser : EndUsers \cup {""}, groups : SUBSET Groups \cup {NoGroups}]

Grant ==
  [host : Hosts, allow : SUBSET Cmds, waive : SUBSET Cmds,
   caller : Callers \cup {AnyOne}, endUser : EndUsers \cup {AnyOne},
   sudo : BOOLEAN, sudoUser : SudoUsers \cup {""}]

ASSUME PolicyDecisionAssumption ==
  /\ Root \in SudoUsers /\ Requests \subseteq Intent /\ Grants \subseteq Grant
  /\ DefaultTTL \in 1..CertCap /\ MaxGrants \in Nat
  /\ Shim \notin Cmds /\ NoCmd \notin Cmds /\ Shim # NoCmd
  /\ Newlined \subseteq Cmds

VARIABLES
  config,   \* the configuration the signer runs with
  table,    \* the policy table compiled from it
  grants,   \* live grants
  last,     \* the last sign request and its outcome, if nothing changed since
  approved  \* history: what a trusted forwarder approved and asked to learn

vars == <<config, table, grants, last, approved>>

-----------------------------------------------------------------------------
(* CompileHostPolicies *)

\* the names in order, the first occurrence of each
Distinct(names) ==
  SelectSeq([i \in DOMAIN names |->
               IF \E j \in 1..(i - 1) : names[j] = names[i] THEN "" ELSE names[i]],
            LAMBDA n : n # "")

composePolicies(cfg, hc) ==
  LET groups == <<DefaultGroup>> \o hc.groups
      names == Distinct(FlattenSeq([g \in DOMAIN groups |-> cfg.groupPolicies[groups[g]]]))
      named == [i \in DOMAIN names |-> cfg.library[names[i]]]
  IN IF Restricts(hc.inline) THEN Append(named, hc.inline) ELSE named

\* whether the configuration is accepted (jump targets and regexes aside)
Compiles(cfg) ==
  /\ \A n \in PolicyNames : Validate(cfg.library[n])
  /\ \A h \in Hosts :
       /\ Validate(cfg.hosts[h].inline)
       /\ cfg.hosts[h].maxTTL <= CertCap
       /\ ~(cfg.hosts[h].allowAsBastion
            /\ SetRestricts(composePolicies(cfg, cfg.hosts[h])))

\* the configurations a load does not reject
Loadable == {cfg \in Configs : Compiles(cfg)}

CompileHostPolicies(cfg) ==
  [h \in Hosts |-> [host |-> cfg.hosts[h],
                    policies |-> composePolicies(cfg, cfg.hosts[h])]]

-----------------------------------------------------------------------------
(* Who may ask for what *)

\* the hosts the groups of a caller give it; all of them without a table
HostSetForCaller(cn) ==
  LET callers == config.callers
      cp == IF cn \in DOMAIN callers THEN callers[cn].groups
            ELSE IF DefaultCallerKey \in DOMAIN callers
                 THEN callers[DefaultCallerKey].groups ELSE {}
  IN IF callers = <<>> THEN Hosts
     ELSE {h \in Hosts : Range(config.hosts[h].groups) \cap cp # {}}

MaySelfApprove(cn) ==
  cn \in DOMAIN config.callers \ {DefaultCallerKey} /\ config.callers[cn].selfApprove

callerAllowed(h, cn) ==
  config.hosts[h].allowedCallers = {} \/ cn \in config.hosts[h].allowedCallers

\* handleHosts: the hosts GET /v1/hosts lists to a caller
handleHosts(cn) == {h \in HostSetForCaller(cn) : callerAllowed(h, cn)}

authorizeIntent(in) ==
  LET hp == table[in.host]
      restricts == SetRestricts(hp.policies)
  IN /\ hp.host.sealed /\ in.purpose = "session" /\ in.role = "target" => in.mode = "exec"
     /\ in.command \in Newlined => in.purpose # "oneshot" /\ ~restricts
     /\ in.purpose = "oneshot" /\ in.role = "target" => in.command # NoCmd
     /\ callerAllowed(in.host, in.caller)
     /\ in.groups # NoGroups => Range(hp.host.groups) \cap in.groups # {}
     /\ in.role = "bastion" => hp.host.allowAsBastion /\ ~restricts

\* canonicalGrantSudoUser: the user sudo runs as, "" without sudo
SudoUser(sudo, user) == IF ~sudo THEN "" ELSE IF user = "" THEN Root ELSE user

\* resolveElevation: the user the prefix names, "" for none
Elevation(in) == IF in.role = "target" THEN SudoUser(in.sudo, in.sudoUser) ELSE ""

resolveElevation(in) ==
  LET hc == table[in.host].host
  IN Elevation(in) # "" =>
       /\ hc.allowSudo
       /\ Elevation(in) \in (IF hc.sudoUsers = {} THEN {Root} ELSE hc.sudoUsers)

-----------------------------------------------------------------------------
(* The command firewall, with the runtime grants *)

Matches(g, in) ==
  /\ g.host = in.host
  /\ g.caller \in {AnyOne, in.caller}
  /\ g.endUser \in {AnyOne, in.endUser}

\* GrantsFor: one allowlist member for each allow grant, shell_parse left out
GrantsFor(gs, in) ==
  LET live == SetToSeq({g \in gs : Matches(g, in) /\ g.allow # {}})
  IN [i \in DOMAIN live |->
        [mode |-> "allowlist", enforcement |-> "enforce", allow |-> live[i].allow,
         deny |-> {}, requireApproval |-> {}, shellParse |-> TRUE]]

WaiverMatches_AnyElevation(gs, in) ==
  \E g \in gs : Matches(g, in) /\ in.command \in g.waive

WaiverMatches(gs, in) ==
  \E g \in gs : /\ Matches(g, in)
                /\ g.sudo = in.sudo
                /\ SudoUser(g.sudo, g.sudoUser) = SudoUser(in.sudo, in.sudoUser)
                /\ in.command \in g.waive

\* a bug that adds the grants whatever the host's policy is
WithGrants_Always(ps, gs, in) == ps \o GrantsFor(gs, in)

\* the host's policies and its live grants, if it has an allowlist to widen
WithGrants(ps, gs, in) ==
  LET added == GrantsFor(gs, in)
      mode == Enforcement(ps)
  IN IF hasAllowlist(ps)
     THEN ps \o [i \in DOMAIN added |-> [added[i] EXCEPT !.enforcement = mode]]
     ELSE ps

PolicyResult(ok, approval, wouldDeny, wouldApprove) ==
  [ok |-> ok, requireApproval |-> approval,
   wouldDeny |-> wouldDeny, wouldRequireApproval |-> wouldApprove]

Pass == PolicyResult(TRUE, FALSE, FALSE, FALSE)

resolveCommandPolicy(gs, in) ==
  LET eff == WithGrants(table[in.host].policies, gs, in)
      auditOnly == Enforcement(eff) = "audit"
      v == Decide(eff, in.command)
  IN IF in.role # "target" \/ ~SetRestricts(eff) THEN Pass
     ELSE IF in.purpose = "session" /\ in.mode # "exec"
     THEN PolicyResult(FALSE, FALSE, FALSE, FALSE)
     ELSE IF in.purpose = "session" /\ in.command = NoCmd THEN Pass
     ELSE IF ~v.allowed
     THEN PolicyResult(auditOnly, FALSE, auditOnly, auditOnly /\ v.needsApproval)
     ELSE IF v.needsApproval /\ ~WaiverMatches(gs, in)
     THEN PolicyResult(TRUE, ~auditOnly, FALSE, auditOnly)
     ELSE Pass

-----------------------------------------------------------------------------
(* SignIntent *)

\* BuildElevatedCommand: the command and the user sudo runs it as
Elevated(in) == [command |-> in.command, user |-> Elevation(in)]

TTL(in) ==
  LET hc == table[in.host].host
      max == IF hc.maxTTL = 0 THEN DefaultTTL ELSE hc.maxTTL
  IN IF in.ttl = 0 \/ in.ttl > max THEN max ELSE in.ttl

\* a bug that seals the sessions and forgets the bastion hops
ForceCommand_Sessions(in) ==
  IF in.purpose = "oneshot" /\ in.role = "target" THEN Elevated(in)
  ELSE IF table[in.host].host.sealed /\ in.role = "target" THEN Shim ELSE NoCmd

ForceCommand(in) ==
  IF in.purpose = "oneshot" /\ in.role = "target" THEN Elevated(in)
  ELSE IF table[in.host].host.sealed THEN Shim ELSE NoCmd

\* Constraints of the certificate (buildConstraints and resolve)
Constraints(in) ==
  [force |-> ForceCommand(in), ttl |-> TTL(in),
   forwarding |-> in.role = "bastion", pty |-> "pty" \in in.uses]

\* resolve: the first check that fails, or "" and what the firewall says
Failure(gs, in) ==
  IF ~authorizeIntent(in) THEN "authorize"
  ELSE IF ~resolveElevation(in) THEN "elevation"
  ELSE IF ~(in.uses \subseteq table[in.host].host.uses) THEN "uses"
  ELSE IF ~resolveCommandPolicy(gs, in).ok THEN "command_policy" ELSE ""

Outcome(in, status, reason, cert, envelope) ==
  [in |-> in, status |-> status, reason |-> reason, cert |-> cert, envelope |-> envelope]

\* sealedEnvelope: the signed command of a sealed host's preflight, or NoCmd
sealedEnvelope(gs, in) ==
  IF /\ table[in.host].host.sealed
     /\ in.purpose = "session" /\ in.role = "target" /\ in.preflight
     /\ in.command # NoCmd
     /\ ~resolveCommandPolicy(gs, in).requireApproval
  THEN Elevated(in) ELSE NoCmd

SignIntent(gs, in) ==
  LET reason == Failure(gs, in)
      gated == reason = "" /\ resolveCommandPolicy(gs, in).requireApproval
  IN IF reason # "" THEN Outcome(in, "refused", reason, NoCmd, NoCmd)
     ELSE IF in.dryRun THEN Outcome(in, "dry", "", NoCmd, sealedEnvelope(gs, in))
     ELSE IF gated /\ ~in.approved THEN Outcome(in, "approval", "", NoCmd, NoCmd)
     ELSE Outcome(in, "issued", "", Constraints(in), NoCmd)

-----------------------------------------------------------------------------
(* The handlers *)

Subject(in) ==
  [host |-> in.host, caller |-> in.caller, endUser |-> in.endUser,
   user |-> SudoUser(in.sudo, in.sudoUser), command |-> in.command]

\* maybeLearnWaiver, SupersedeWaiver included: one waiver for what was approved
Learned(in) ==
  [host |-> in.host, allow |-> {}, waive |-> {in.command}, caller |-> in.caller,
   endUser |-> in.endUser, sudo |-> in.sudo, sudoUser |-> in.sudoUser]

SameScope(g, w) ==
  /\ g.host = w.host /\ g.caller = w.caller /\ g.endUser = w.endUser
  /\ g.sudo = w.sudo /\ g.waive = w.waive /\ g.allow = {}
  /\ SudoUser(g.sudo, g.sudoUser) = SudoUser(w.sudo, w.sudoUser)

effectiveApproved(req) ==
  req.approved /\ (req.peer \in Forwarders \/ MaySelfApprove(req.peer))

MayLearn(out) ==
  /\ out.in.peer \in Forwarders /\ out.in.learn /\ out.status = "issued"
  /\ resolveCommandPolicy(grants, out.in).requireApproval

\* resolveCaller, the caller's groups, then SignIntent
Answer(req) ==
  LET in == [req EXCEPT !.approved = effectiveApproved(req)]
  IN IF in.peer # in.caller /\ in.peer \notin Forwarders
     THEN Outcome(in, "refused", "on_behalf_of", NoCmd, NoCmd)
     ELSE IF in.host \notin HostSetForCaller(in.caller)
     THEN Outcome(in, "refused", "groups", NoCmd, NoCmd)
     ELSE SignIntent(grants, in)

handleSign(req) ==
  \E out \in {Answer(req)} :
    LET waiver == Learned(out.in)
        kept == {g \in grants : ~SameScope(g, waiver)}
    IN /\ last' = out
       /\ \/ /\ MayLearn(out) /\ Cardinality(kept) < MaxGrants
             /\ grants' = kept \cup {waiver}
          \/ ~MayLearn(out) /\ UNCHANGED grants
       /\ approved' = IF /\ out.status = "issued" /\ out.in.approved
                         /\ req.peer \in Forwarders /\ req.learn
                      THEN approved \cup {Subject(out.in)} ELSE approved
       /\ UNCHANGED <<config, table>>

\* reload installs a configuration that compiles
reload(cfg) ==
  /\ cfg \in Loadable
  /\ config' = cfg /\ table' = CompileHostPolicies(cfg)
  /\ last' = NoDecision
  /\ UNCHANGED <<grants, approved>>

\* HostAllowlistActive
handleGrantCreate(g) ==
  /\ hasAllowlist(table[g.host].policies)
  /\ g \notin grants /\ Cardinality(grants) < MaxGrants
  /\ grants' = grants \cup {g}
  /\ last' = NoDecision
  /\ UNCHANGED <<config, table, approved>>

\* a grant expires or is revoked (Grant.active, handleGrantRevoke)
handleGrantRevoke(g) ==
  /\ g \in grants
  /\ grants' = grants \ {g}
  /\ last' = NoDecision
  /\ UNCHANGED <<config, table, approved>>

Init ==
  /\ config \in Loadable
  /\ table = CompileHostPolicies(config)
  /\ grants = {} /\ last = NoDecision /\ approved = {}

Next ==
  \/ \E req \in Requests : handleSign(req)
  \/ \E cfg \in Configs : reload(cfg)
  \/ \E g \in Grants : handleGrantCreate(g)
  \/ \E g \in grants : handleGrantRevoke(g)

Spec == Init /\ [][Next]_vars

-----------------------------------------------------------------------------
(* Properties *)

TypeOK ==
  /\ config \in Configs /\ grants \subseteq Grant
  /\ table = CompileHostPolicies(config)
  /\ Cardinality(grants) <= MaxGrants
  /\ last # NoDecision =>
       /\ last.in \in Intent
       /\ last.status \in {"refused", "dry", "approval", "issued"}
       /\ (last.cert # NoCmd) <=> (last.status = "issued")

Decided == last # NoDecision
Policies == table[last.in.host].policies
Credential == Decided /\ (last.status = "issued" \/ last.envelope # NoCmd)

\* the simple commands the documented composition looks at
Simple(ps, c) == IF shellParse(ps) THEN Range(Parse[c]) ELSE {c}

\* the grants that may widen the policy for the last request
Widening == {g \in grants : Matches(g, last.in) /\ g.allow # {}}

(* What the firewall signs, each command it signs has passed: on a host    *)
(* that enforces a policy a certificate or an envelope for a command comes *)
(* only if no simple command in it matches a deny rule of any group or     *)
(* inline policy, and each one is in an allowlist or a live grant when     *)
(* there is an allowlist (composition rules of PolicySet, decideOne).      *)
CommandCleared ==
  LET in == last.in
      rules == Range(Policies)
      ps == Policies \o (IF hasAllowlist(Policies) THEN GrantsFor(grants, in) ELSE <<>>)
  IN Credential /\ in.role = "target" /\ in.command # NoCmd
     /\ SetRestricts(Policies) /\ Enforcement(Policies) = "enforce" =>
       /\ shellParse(ps) => in.command \notin Rejected
       /\ \A s \in Simple(ps, in.command) :
            /\ \A cp \in rules : cp.mode = "denylist" => s \notin cp.deny
            /\ hasAllowlist(Policies) =>
                 \/ \E cp \in rules : cp.mode = "allowlist" /\ s \in cp.allow
                 \/ \E g \in Widening : s \in g.allow

(* A runtime grant never narrows: a request that the file's policy lets    *)
(* through is not refused, nor held for approval, because grants are live  *)
(* (resolveCommandPolicy adds them only where an allowlist exists).  Hosts *)
(* all of whose policies opted out of shell parsing are excepted: a grant  *)
(* turns parsing on there, and a command that does not parse is refused.   *)
GrantsOnlyWiden ==
  Decided /\ last.reason \in {"", "command_policy"} /\ (Policies # <<>> => shellParse(Policies)) =>
    LET without == resolveCommandPolicy({}, last.in)
    IN /\ without.ok => last.reason = ""
       /\ without.ok /\ ~without.requireApproval => last.status # "approval"

(* A certificate for a host that has a command policy is tied to the       *)
(* one-shot command, or opens an exec session whose commands are checked   *)
(* one by one, and forwards no ports; on a sealed host every certificate   *)
(* carries a force-command.  No lifetime passes the host's limit, and the  *)
(* one sudo user it may run as is one the host allows.                     *)
Confined ==
  Decided /\ last.status = "issued" =>
    LET in == last.in
        hc == table[in.host].host
        max == IF hc.maxTTL = 0 THEN DefaultTTL ELSE hc.maxTTL
        pinned == /\ in.purpose = "oneshot" /\ in.role = "target"
                  /\ last.cert.force = Elevated(in) /\ in.command # NoCmd
        exec == in.purpose = "session" /\ in.role = "target" /\ in.mode = "exec"
    IN /\ SetRestricts(Policies) => (pinned \/ exec) /\ ~last.cert.forwarding
       /\ hc.sealed => last.cert.force # NoCmd
       /\ last.cert.ttl \in 1..max /\ max <= CertCap
       /\ in.role = "target" /\ in.sudo =>
            hc.allowSudo /\ Elevation(in) \in hc.sudoUsers \cup {Root}

(* Nothing held for approval is signed unless a human approved exactly     *)
(* that: the request was approved by a trusted forwarder or an opted-in    *)
(* self-approver, or a forwarder once approved the same command on the     *)
(* same host for the same caller, elevation and end user (a broker that    *)
(* names no end user learns for its caller) and the waiver is still live.  *)
ApprovalTraced ==
  LET in == last.in
      gate == {s \in Cmds : \E cp \in Range(Policies) : s \in cp.requireApproval}
  IN Credential /\ in.role = "target" /\ in.command # NoCmd
     /\ Enforcement(Policies) = "enforce"
     /\ Simple(Policies, in.command) \cap gate # {} =>
       \/ in.approved /\ (in.peer \in Forwarders \/ MaySelfApprove(in.peer))
       \/ \E a \in approved :
            /\ a.host = in.host /\ a.caller = in.caller /\ a.command = in.command
            /\ a.user = SudoUser(in.sudo, in.sudoUser)
            /\ a.endUser \in {"", in.endUser}
=============================================================================
