\* A sign request, approve-and-learn included, races an administrator who
\* freezes, unfreezes, grants and revokes; failing commits, checkpoints and audit
\* appends; a crash or a power loss at any point.
CONSTANTS
    g1 = g1  g2 = g2  s1 = s1  a1 = a1
    Callers = {"broker", "cp"}
    EndUsers = {"ann"}
    Hosts = {"h"}
    Cmds = {"allowed", "gated", "other"}
    SudoUsers = {"root"}
    Forwarders = {"cp"}
    SelfApprovers = {}
    AllowedCmds = {"allowed", "gated"}
    GatedCmds = {"gated"}
    NoGrant = NoGrant  Free = Free  None = None
    StateDB = TRUE
    FailClosed = TRUE
    GrantIds = {g1, g2}
    Signs = {s1}
    Admins = {a1}
    Requests <- MCRequests
    Scopes <- MCScopes
    Subjects <- MCSubjects
    MaxWal = 2
    Faults = {"write", "checkpoint"}
    AuditOutcomes = {TRUE, FALSE}
    TTL = 1
    MaxTime = 1
    MaxRestarts = 1
SPECIFICATION Spec
INVARIANTS FreezeDurable IssuedUnfrozen SweptStays LearnAudited
