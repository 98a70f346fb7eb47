SPECIFICATION Spec
CONSTANTS
  Calls = {c1, c2}
  Actions <- MCActions
  Policies <- MCPolicies
  FailClosed = TRUE
  AuditOk = {TRUE, FALSE}
  Setups = {"signer", "noWait", "wait"}
  MaxReloads = 1
  None = None
SYMMETRY MCSymmetry
INVARIANTS RanAsDecided Traced LogsAgree
