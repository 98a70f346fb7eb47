\* Two appenders and a Close, rotation after two lines, every fault but short
\* writes, one crash that may tear the last line.
CONSTANTS
    a1 = a1  a2 = a2 
    NoFile = NoFile
    Appenders = {a1, a2}
    MaxFileSize = 2
    Faults = {"sync", "rename", "open", "write"}
    Tears = {"newline", "partial"}
    ClockSteps = FALSE
    MaxTime = 1
    MaxRecords = 5
    MaxCrashes = 1
SPECIFICATION FairSpec
CHECK_DEADLOCK FALSE
INVARIANTS AckDurable ChainVerifies Recoverable
PROPERTY AppendReturns
