--------------------------- MODULE CommandPolicy ---------------------------
(***************************************************************************)
(* The command firewall's rules as pure operators                          *)
(* (internal/signer/cmdpolicy.go, policyset.go): a CommandPolicy, the      *)
(* PolicySet a host composes from several, and the decision on a command.  *)
(*                                                                         *)
(* A command is a model value; Parse gives the simple commands that        *)
(* extractCommands finds in it, and the commands of Rejected are the ones  *)
(* it refuses (redirections, subshells, assignments...).  A list of        *)
(* regular expressions is the set of texts one of them matches: only the   *)
(* kind of the rule that decided is kept, not the pattern's text.          *)
(*                                                                         *)
(* Definitions named Op_Variant are altered forms of Op used to show that  *)
(* the properties depend on what Op does.                                  *)
(***************************************************************************)
EXTENDS Naturals, Sequences, SequencesExt

CONSTANTS
  Cmds,       \* commands, whole or simple
  Parse,      \* the simple commands of each command
  Rejected    \* the commands extractCommands refuses

ASSUME CommandAssumption ==
  /\ Parse \in [Cmds -> Seq(Cmds)]
  /\ Rejected \subseteq Cmds
  /\ \A c \in Cmds \ Rejected : Parse[c] # <<>>

CommandPolicy ==
  [mode : {"off", "allowlist", "denylist"}, enforcement : {"enforce", "audit"},
   allow : SUBSET Cmds, deny : SUBSET Cmds, requireApproval : SUBSET Cmds,
   shellParse : BOOLEAN]

Active(cp) == cp.mode \in {"allowlist", "denylist"}

Restricts(cp) == Active(cp) \/ cp.requireApproval # {}

\* CommandPolicy.Validate: a rule that would never be looked at is an error
Validate(cp) ==
  /\ cp.mode = "allowlist" => cp.deny = {}
  /\ cp.mode = "denylist" => cp.allow = {}

-----------------------------------------------------------------------------
(* PolicySet: the policies that apply to a host, in order *)

Members(ps) == {ps[i] : i \in DOMAIN ps}

SetRestricts(ps) == \E cp \in Members(ps) : Restricts(cp)

hasAllowlist(ps) == \E cp \in Members(ps) : cp.mode = "allowlist"

\* audit only when some member restricts and every one that does is audit
Enforcement(ps) ==
  LET rules == {cp \in Members(ps) : Restricts(cp)}
  IN IF rules # {} /\ \A cp \in rules : cp.enforcement = "audit"
     THEN "audit" ELSE "enforce"

shellParse(ps) == \E cp \in Members(ps) : cp.shellParse

Verdict(allowed, needsApproval, rule) ==
  [allowed |-> allowed, needsApproval |-> needsApproval, rule |-> rule]

Verdicts ==
  [allowed : BOOLEAN, needsApproval : BOOLEAN,
   rule : {"", "deny", "require_approval", "allow", "no-match", "shell-parse"}]

\* the scan of one simple command: deny, then approval, then allow
decideOne(ps, s) ==
  LET gated == \E cp \in Members(ps) : s \in cp.requireApproval
      rule == IF gated THEN "require_approval" ELSE ""
  IN IF \E cp \in Members(ps) : cp.mode = "denylist" /\ s \in cp.deny
     THEN Verdict(FALSE, FALSE, "deny")
     ELSE IF \E cp \in Members(ps) : cp.mode = "allowlist" /\ s \in cp.allow
     THEN Verdict(TRUE, gated, IF gated THEN rule ELSE "allow")
     ELSE IF hasAllowlist(ps)
     THEN Verdict(FALSE, gated, "no-match")
     ELSE Verdict(TRUE, gated, rule)

\* a bug that looks at the whole command, not at the commands inside it
Decide_Unparsed(ps, c) ==
  IF ps = <<>> THEN Verdict(TRUE, FALSE, "")
  ELSE IF shellParse(ps) /\ c \in Rejected
  THEN Verdict(FALSE, FALSE, "shell-parse")
  ELSE decideOne(ps, c)

(* The first simple command that is not allowed decides; when all are, one *)
(* that needs approval makes the whole command need it.                    *)
Decide(ps, c) ==
  LET cmds == IF shellParse(ps) THEN Parse[c] ELSE <<c>>
      verdict == [i \in DOMAIN cmds |-> decideOne(ps, cmds[i])]
      blocked == SelectInSeq(verdict, LAMBDA v : ~v.allowed)
      gated == SelectInSeq(verdict, LAMBDA v : v.needsApproval)
  IN IF ps = <<>> THEN Verdict(TRUE, FALSE, "")
     ELSE IF shellParse(ps) /\ c \in Rejected
     THEN Verdict(FALSE, FALSE, "shell-parse")
     ELSE IF blocked # 0 THEN verdict[blocked]
     ELSE IF gated # 0 THEN verdict[gated]
     ELSE Last(verdict)
=============================================================================
