\* One session with two commands on its shell, neither of which need ever end;
\* failing audit writes and shutdown at any point.
SPECIFICATION FairSpec
CONSTANTS
  s1 = s1  s2 = s2  alice = alice  o1 = o1  x1 = x1  x2 = x2
  NoSession = NoSession  NoId = NoId  Broker = broker
  Ids = {s1}  Callers = {alice}  Modes = {"shell"}
  Openers = {o1}  Execs = {x1, x2}
  IdleTTL = 0  MaxLife = 0  CertTTL = 0
  maxSessionsGlobal = 2  maxSessionsPerCaller = 2
  FailClosed = TRUE  AuditOutcomes = {TRUE, FALSE}
  Freezable = {alice}  MayStop = TRUE
PROPERTIES FrozenKilled ExpiredClosed
CHECK_DEADLOCK FALSE
