\* Two polls race for one approval.  Broker b1 is gated on a verified end user
\* and not a trusted forwarder; b2 is a trusted forwarder and also the approver.
\* Every state db and audit fault, a restart at any point, guardrails enforced.
CONSTANTS
    i1 = i1  s1 = s1  p1 = p1  p2 = p2
    Ids = {i1}
    Signers = {s1}
    Pollers = {p1, p2}
    CNs = {"b1", "b2"}
    Approvers = {"b2"}
    SignCallers = {"b1", "b2"}
    Forwarders = {"b2"}
    Gated = {"b1"}
    EndUsers = {"alice"}
    Hosts = {"h1", "h2"}
    Cmds = {"c1"}
    TTL = 1
    NoCN = NoCN  NoTime = NoTime  NoApproval = NoApproval  NoId = NoId  NoRequest = NoRequest
    Mode = "enforce"  RateLimit = 1  Window = 1
    MaxSubjects = 1  SubjectTTL = 1  MaxDistinct = 2
    FailClosed = TRUE  StateDB = TRUE
    DbOutcomes = {TRUE, FALSE}  AuditOutcomes = {TRUE, FALSE}
    MaxTime = 3  MaxSignTime = 1  MaxIssued = 2  MaxRestarts = 1  MaxBurst = 2
SPECIFICATION Spec
SYMMETRY MCSymmetry
INVARIANTS SingleUse FourEyes NoveltyApproved
PROPERTIES RedeemWindow RefinesLifecycle
