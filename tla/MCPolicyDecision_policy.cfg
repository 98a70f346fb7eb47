\* Every composition of three library policies, an inline policy and the _default
\* group, hosts that are sealed, bastions or restricted to callers, one live grant
\* or learned waiver at a time, and reloads between any two requests.
SPECIFICATION Spec
CONSTANTS
  Cmds <- MCCmds
  Parse <- MCParse
  Rejected <- MCRejected
  Newlined <- MCNewlined
  Hosts = {"web", "db"}
  Callers = {"b1", "b2"}
  EndUsers = {"u1"}
  Groups = {"g1", "g2"}
  SudoUsers = {"root", "deploy"}
  PolicyNames <- MCPolicyNames
  Configs <- MCConfigs
  Requests <- MCRequests
  Grants <- MCGrants
  Forwarders = {"cp"}
  DefaultTTL = 120
  MaxGrants = 1
  Shim = Shim  NoCmd = NoCmd  NoGroups = NoGroups  NoDecision = NoDecision
INVARIANTS CommandCleared GrantsOnlyWiden Confined ApprovalTraced
