\* A chain of three hops with waits of several polls; two callers on one bucket, with the limit changed or
\* off; two shims on two hosts whose clocks are behind or ahead, with a change of
\* keys and a store that may fail.
SPECIFICATION MCSpec
CONSTANTS
  ChainLen = 3
  Wait = 4
  Interval = 2
  Timeout = 2
  MaxTransient = 1
  Callers = {c1, c2}
  Limits = {0, 2, 3}
  Minute = 4
  MaxKeys = 1
  RateTime = 5
  NoLimit = NoLimit  NoRefusal = NoRefusal
  Nonces = {n1}
  Hosts = {h1, h2}
  Keys = {k1, k2}
  Procs = {p1, p2}
  Skews <- MCSkews
  EnvelopeTTL = 1
  MaxTTL = 2
  MaxStall = 2
  SealedTime = 5
  MaxChanges = 1
  StoreFails = {"", "open", "close"}
  NoEnvelope = NoEnvelope  NoTime = NoTime
SYMMETRY Symmetry
INVARIANTS ChainAge Budget RunOnce RefusedRightly
\* A wait ends, and the clocks stop at their bounds.
CHECK_DEADLOCK FALSE
