\* One call after another against the background refresh: the signer's table
\* changes twice among four, answers stay in flight, a refresh is lost.
SPECIFICATION FairSpec
CONSTANTS
  Names = {"t", "b"}
  Addresses = {1, 2}
  Tables <- MCTables
  Workers = {w1}
  Poller = poller
  Polling = TRUE
  Ops = {"execute", "transfer", "open", "exec"}
  ElicitApprovals = TRUE
  FailClosed = TRUE
  AuditFails = {TRUE, FALSE}
  MaxEdits = 2
  MaxLost = 1
  NoHost = NoHost  NoTable = NoTable  NoSession = NoSession  NoAnswer = NoAnswer
INVARIANTS RouteSound OutputTraced
PROPERTY Converges
