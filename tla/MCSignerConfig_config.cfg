\* An administrator, SIGHUP, the watcher, an operator saving by hand and broker-ctl
\* against one sign request, with every fault, two writes of the file and a crash.
SPECIFICATION Spec
CONSTANTS
  p = p  root = root  idp = idp  plain = plain  s1 = s1
  NoOidc = NoOidc  Torn = Torn  Absent = Absent  Down = Down  NoConfig = NoConfig  NoWatch = NoWatch
  Patterns = {p}  Admins = {root}  Issuers = {idp, plain}  GroupsClaim = {idp}
  SignThreads = {s1}  Boots <- MCBoots  Saves <- MCSaves
  Faults = {"ca", "idp", "write"}  Watching = TRUE  MaxWrites = 2  MaxCrashes = 1
INVARIANTS NarrowingSticks GatedVerified RunsTheFile
CHECK_DEADLOCK FALSE
