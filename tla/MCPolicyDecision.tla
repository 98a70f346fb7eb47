-------------------------- MODULE MCPolicyDecision --------------------------
(***************************************************************************)
(* An instance of PolicyDecision.  "web" is the host under scrutiny: its   *)
(* policies come from the _default group, from its own group and inline.   *)
(* "db" belongs to another group and has a plain allowlist.                *)
(***************************************************************************)
EXTENDS PolicyDecision

MCCmds == {"ps", "rm", "ps;rm", "ps>f", "ps\nrm"}
MCParse == [c \in MCCmds |->
              CASE c \in {"ps;rm", "ps\nrm"} -> <<"ps", "rm">>
                [] c = "ps>f" -> <<>>
                [] OTHER -> <<c>>]
MCRejected == {"ps>f"}
MCNewlined == {"ps\nrm"}

None ==
  [mode |-> "off", enforcement |-> "enforce", allow |-> {}, deny |-> {},
   requireApproval |-> {}, shellParse |-> TRUE]

\* the patterns ^ps, ^rm and rm
Ps == {"ps", "ps;rm", "ps>f", "ps\nrm"}
Rm == {"rm"}
AnyRm == {"rm", "ps;rm", "ps\nrm"}

MCPolicyNames == {"ps-only", "no-rm", "rm-asks"}
Library(parse, enforcement) ==
  [n \in MCPolicyNames |->
    CASE n = "ps-only" -> [None EXCEPT !.mode = "allowlist", !.allow = Ps,
                             !.enforcement = enforcement, !.shellParse = parse]
      [] n = "no-rm" -> [None EXCEPT !.mode = "denylist", !.deny = Rm, !.shellParse = parse]
      [] n = "rm-asks" -> [None EXCEPT !.requireApproval = Rm,
                             !.enforcement = enforcement, !.shellParse = parse]]

Inlines ==
  {None,
   [None EXCEPT !.mode = "allowlist", !.allow = AnyRm],
   [None EXCEPT !.mode = "denylist", !.deny = AnyRm, !.enforcement = "audit"]}

Plain ==
  [groups |-> <<"g1">>, allowedCallers |-> {}, allowAsBastion |-> FALSE,
   sealed |-> FALSE, allowSudo |-> TRUE, sudoUsers |-> {}, uses |-> {"pty"},
   maxTTL |-> 0, inline |-> None]

\* hosts that differ in what else they restrict
Flagged ==
  {Plain,
   [Plain EXCEPT !.allowAsBastion = TRUE, !.maxTTL = 1200],
   [Plain EXCEPT !.allowAsBastion = TRUE, !.sealed = TRUE, !.maxTTL = 300],
   [Plain EXCEPT !.sealed = TRUE, !.maxTTL = 300],
   [Plain EXCEPT !.allowedCallers = {"b1"}, !.allowSudo = FALSE, !.uses = {}]}

\* a caller table that gives only b1 a group; _default must not self-approve
Table ==
  ("_default" :> [groups |-> {}, selfApprove |-> TRUE])
    @@ ("b1" :> [groups |-> {"g1"}, selfApprove |-> TRUE])

Db == [Plain EXCEPT !.groups = <<"g2">>, !.inline.mode = "allowlist", !.inline.allow = Ps]

ConfigsWith(hosts, parses, inlines, modes, defaults, lists, tables) ==
  UNION {
    {[hosts |-> ("web" :> [hc EXCEPT !.inline = [i EXCEPT !.shellParse = p]]) @@ ("db" :> Db),
      library |-> Library(p, e),
      groupPolicies |-> (DefaultGroup :> d) @@ ("g1" :> g) @@ ("g2" :> <<>>),
      callers |-> t]
      : hc \in hosts, i \in inlines, e \in modes, d \in defaults, g \in lists, t \in tables}
    : p \in parses}

\* compositions of policies on a plain host, and plain policies on every host
MCConfigs ==
  ConfigsWith({Plain}, {TRUE}, Inlines, {"enforce", "audit"}, {<<>>},
              {<<"ps-only">>, <<"no-rm">>, <<"ps-only", "rm-asks">>}, {<<>>})
  \cup ConfigsWith({Plain}, {FALSE}, {None}, {"enforce"}, {<<>>},
                   {<<"ps-only">>, <<"no-rm">>}, {<<>>})
  \cup ConfigsWith({Plain}, {TRUE}, {None}, {"enforce"}, {<<"rm-asks">>},
                   {<<>>, <<"ps-only">>}, {<<>>})
  \cup ConfigsWith(Flagged, {TRUE}, {None}, {"enforce"}, {<<>>},
                   {<<>>, <<"rm-asks">>}, {<<>>})
  \cup ConfigsWith({Plain}, {TRUE}, {None}, {"enforce"}, {<<>>}, {<<>>}, {Table})

-----------------------------------------------------------------------------
Base ==
  [peer |-> "b1", learn |-> FALSE, caller |-> "b1", host |-> "web", role |-> "target",
   purpose |-> "oneshot", mode |-> "", command |-> "ps", ttl |-> 0, sudo |-> FALSE,
   sudoUser |-> "", uses |-> {}, dryRun |-> FALSE, preflight |-> FALSE,
   approved |-> FALSE, endUser |-> "", groups |-> NoGroups]

Oneshots ==
  {[Base EXCEPT !.command = c] : c \in MCCmds}
  \cup {[Base EXCEPT !.command = c, !.sudo = TRUE] : c \in AnyRm}

\* the same requests forwarded by the control plane, approved and perhaps learned
Forwarded ==
  {[Base EXCEPT !.peer = "cp", !.command = "rm", !.sudo = TRUE, !.approved = TRUE,
      !.learn = TRUE, !.endUser = "u1"],
   [Base EXCEPT !.peer = "cp", !.command = "ps;rm", !.approved = TRUE, !.learn = TRUE],
   [Base EXCEPT !.peer = "cp", !.caller = "b2", !.command = "rm", !.approved = TRUE],
   [Base EXCEPT !.peer = "cp", !.caller = "b2", !.command = "rm"]}

\* and asserted as approved by the broker itself
Asserted == {[Base EXCEPT !.command = "rm", !.approved = TRUE, !.endUser = u] : u \in {"", "u1"}}

Sessions ==
  {[Base EXCEPT !.purpose = "session", !.mode = m, !.command = NoCmd, !.role = r] :
     m \in {"exec", "shell"}, r \in {"target", "bastion"}}

Preflights ==
  {[Base EXCEPT !.purpose = "session", !.mode = "exec", !.command = c, !.dryRun = TRUE,
      !.preflight = TRUE] : c \in MCCmds}

Others ==
  {[Base EXCEPT !.host = "db", !.command = "rm"],
   [Base EXCEPT !.command = NoCmd],
   [Base EXCEPT !.role = "bastion", !.ttl = 600],
   [Base EXCEPT !.uses = {"pty"}, !.ttl = 1000],
   [Base EXCEPT !.uses = {"file"}],
   [Base EXCEPT !.sudo = TRUE, !.sudoUser = "root"],
   [Base EXCEPT !.sudo = TRUE, !.sudoUser = "deploy"],
   [Base EXCEPT !.groups = {"g1"}, !.endUser = "u1"],
   [Base EXCEPT !.groups = {}, !.endUser = "u1"],
   [Base EXCEPT !.caller = "b2"],
   [Base EXCEPT !.peer = "b2", !.caller = "b2"],
   [Base EXCEPT !.peer = "b2", !.caller = "b2", !.approved = TRUE, !.command = "rm"]}

MCRequests ==
  Oneshots \cup Preflights \cup Forwarded \cup Asserted \cup Sessions \cup Others
  \cup {[Base EXCEPT !.command = "rm", !.sudo = su, !.endUser = "u1"] : su \in BOOLEAN}

BaseGrant ==
  [host |-> "web", allow |-> Rm, waive |-> {}, caller |-> AnyOne, endUser |-> AnyOne,
   sudo |-> FALSE, sudoUser |-> ""]
MCGrants == {BaseGrant, [BaseGrant EXCEPT !.caller = "b2"], [BaseGrant EXCEPT !.host = "db"]}
=============================================================================
