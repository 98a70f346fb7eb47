\* Two sessions of a caller limited to one, two commands, expiry, kills, closes,
\* and failing audit writes at any point.
SPECIFICATION Spec
CONSTANTS
  s1 = s1  s2 = s2  alice = alice  o1 = o1  x1 = x1  x2 = x2
  NoSession = NoSession  NoId = NoId  Broker = broker
  Ids = {s1, s2}  Callers = {alice}  Modes = {"shell"}
  Openers = {o1}  Execs = {x1, x2}
  IdleTTL = 0  MaxLife = 1  CertTTL = 1
  maxSessionsGlobal = 2  maxSessionsPerCaller = 1
  FailClosed = TRUE  AuditOutcomes = {TRUE, FALSE}
  Freezable = {alice}  MayStop = FALSE
SYMMETRY Symmetry
INVARIANTS NoOrphanConn SparedWhileBusy LifeAudited
CHECK_DEADLOCK FALSE
