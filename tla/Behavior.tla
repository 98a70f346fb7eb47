------------------------------ MODULE Behavior ------------------------------
(***************************************************************************)
(* The behaviour guardrails of the control plane                           *)
(* (internal/control/behavior.go) as operators on a tracker value: a       *)
(* function from the tracked subjects to their state.  Every method runs   *)
(* under BehaviorTracker.mu, so each operator is one atomic step of its    *)
(* callers.  A command is its fingerprint, the first token.                *)
(***************************************************************************)
EXTENDS Integers, Sequences, FiniteSets

CONSTANTS Mode,          \* "off", "observe" or "enforce"
          RateLimit,     \* RateLimitPerMin; 0 is no limit
          Window,        \* the length of the rate window (one minute)
          MaxSubjects,   \* cap on the subject table
          SubjectTTL,    \* idle time after which a subject may be evicted
          MaxDistinct    \* cap on the hosts and on the commands of a subject

ASSUME BehaviorAssumption ==
    /\ Mode \in {"off", "observe", "enforce"}
    /\ RateLimit \in Nat /\ Window \in Nat /\ SubjectTTL \in Nat
    /\ MaxSubjects \in Nat \ {0} /\ MaxDistinct \in Nat \ {0}

Enabled == Mode \in {"observe", "enforce"}
Enforcing == Mode = "enforce"

NewSubject(now) == [events |-> <<>>, hosts |-> {}, cmds |-> {}, lastSeen |-> now]

Without(tr, gone) == [s \in DOMAIN tr \ gone |-> tr[s]]
With(tr, s, st) == [x \in DOMAIN tr \cup {s} |-> IF x = s THEN st ELSE tr[x]]

(* Every tracker evictLocked may leave: idle subjects go first, then, if   *)
(* the table is still full, one of the least recently seen that are left   *)
(* (the map's iteration order breaks a tie).                               *)
evictLocked(tr, now) ==
    IF Cardinality(DOMAIN tr) < MaxSubjects THEN {tr}
    ELSE LET idle == {s \in DOMAIN tr : tr[s].lastSeen < now - SubjectTTL}
             kept == Without(tr, idle)
             oldest == {s \in DOMAIN kept :
                           \A x \in DOMAIN kept : kept[s].lastSeen <= kept[x].lastSeen}
         IN IF Cardinality(DOMAIN kept) < MaxSubjects THEN {kept}
            ELSE {Without(kept, {s}) : s \in oldest}

learnLocked(st, host, cmd) ==
    [st EXCEPT !.hosts = IF Cardinality(@) < MaxDistinct THEN @ \cup {host} ELSE @,
               !.cmds  = IF cmd # "" /\ Cardinality(@) < MaxDistinct THEN @ \cup {cmd} ELSE @]

(* The tracker with subject s present, as Check and Learn find it or make  *)
(* it.                                                                     *)
Tracked(tr, s, now) ==
    IF s \in DOMAIN tr THEN {tr}
    ELSE {With(e, s, NewSubject(now)) : e \in evictLocked(tr, now)}

(* The request enters the sliding window, blocked or not.                  *)
Counted(st, now) ==
    LET After(t) == t > now - Window
    IN IF RateLimit = 0 THEN st
       ELSE [st EXCEPT !.events = Append(SelectSeq(@, After), now)]

(* What is anomalous is not learned in enforce mode.                       *)
MayLearn_Always(novel, exceeded) == TRUE
MayLearn(novel, exceeded) == ~Enforcing \/ ~(novel \/ exceeded)

(* Every result Check may return: the tracker it leaves, whether the host  *)
(* or the command is novel, and whether the rate limit is exceeded.        *)
Check(tr, s, host, cmd, now) ==
    IF ~Enabled THEN {[tracker |-> tr, novel |-> FALSE, exceeded |-> FALSE]}
    ELSE {LET seen == s \in DOMAIN tr
              st == [Counted(e[s], now) EXCEPT !.lastSeen = now]
              exceeded == RateLimit > 0 /\ Len(st.events) > RateLimit
              novel == /\ seen
                       /\ \/ host \notin st.hosts /\ Cardinality(st.hosts) < MaxDistinct
                          \/ /\ cmd # "" /\ cmd \notin st.cmds
                             /\ Cardinality(st.cmds) < MaxDistinct
          IN [tracker |-> With(e, s, IF MayLearn(novel, exceeded)
                                     THEN learnLocked(st, host, cmd) ELSE st),
              novel |-> novel, exceeded |-> exceeded]
          : e \in Tracked(tr, s, now)}

(* Every tracker Learn may leave.                                          *)
Learn(tr, s, host, cmd, now) ==
    {With(e, s, learnLocked([e[s] EXCEPT !.lastSeen = now], host, cmd))
     : e \in Tracked(tr, s, now)}

(* guardrailSubject of cmd/control-plane/main.go: the end user qualifies   *)
(* the broker's CN only when the broker is a trusted forwarder.            *)
guardrailSubject(forwarders, broker, endUser) ==
    IF broker \in forwarders THEN <<broker, endUser>> ELSE <<broker, "">>
=============================================================================
