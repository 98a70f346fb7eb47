\* Two commands whose output may overflow the cap of one chunk and fill the
\* recording, with every fault, an abort, and a close at any point.
SPECIFICATION FairSpec
CONSTANTS
  MaxCmds = 2  Noops = {2}  MaxOut = 2  MaxErr = 1  maxOutputBytes = 1  MaxEvents = 4
  Pty = FALSE  Strict = TRUE  Faults = {"record", "cancel", "timeout", "mangle"}
  MayClose = TRUE
INVARIANTS WholeOutput StrictRecorded
PROPERTY ExecEnds
CHECK_DEADLOCK FALSE
