------------------------------ MODULE Sessions ------------------------------
(***************************************************************************)
(* The broker's persistent SSH sessions: the session manager of            *)
(* internal/broker/session.go (a mutex-protected map of live sessions) and *)
(* everything that races on it -- OpenSession, SessionExec, CloseSession,  *)
(* the expiry reaper, the kill-switch poll of internal/broker/engine.go and *)
(* Engine.Close.  Each critical section of the manager's mutex is one      *)
(* action; the network I/O and the audit writes the code does outside the  *)
(* mutex are actions of their own, so every interleaving the goroutines    *)
(* can take is explored.                                                   *)
(*                                                                         *)
(* Time is kept as ages: a session records how long ago it was last used   *)
(* (idle), created (life) and its certificate signed (cert).  The code     *)
(* only compares ages with IdleTTL, MaxLife and CertTTL, so they saturate  *)
(* one past the limit and time itself needs no bound.                      *)
(*                                                                         *)
(* A frozen subject is an end user (a caller), a session id (the serial of *)
(* its certificate identifies the same session) or this broker's own       *)
(* identity.  Definitions named Op_Variant are altered forms of Op used to *)
(* show that the properties depend on what Op does.                        *)
(***************************************************************************)
EXTENDS Integers, FiniteSets, Sequences

CONSTANTS
  Ids,                   \* session identifiers newSessionID may draw
  Callers,               \* authenticated end users
  Modes,                 \* subset of {"exec", "shell"}; a pty session behaves as shell
  Openers,               \* goroutines serving OpenSession
  Execs,                 \* goroutines serving SessionExec and CloseSession
  Broker,                \* this broker's own identity (its client certificate's CN)
  IdleTTL, MaxLife,      \* session_idle_seconds, session_max_seconds
  CertTTL,               \* life of the certificate that opened a session
  maxSessionsGlobal, maxSessionsPerCaller,
  FailClosed,            \* audit_fail_mode is "closed"
  AuditOutcomes,         \* results an audit append may have
  Freezable,             \* subjects the operator may freeze
  MayStop,               \* whether Engine.Close is ever called
  NoSession, NoId

Subjects == Callers \cup Ids \cup {Broker}

ASSUME SessionsAssumption ==
  /\ Modes \subseteq {"exec", "shell"}
  /\ IdleTTL \in Nat /\ MaxLife \in Nat /\ CertTTL \in Nat
  /\ maxSessionsGlobal \in Nat /\ maxSessionsPerCaller \in Nat
  /\ FailClosed \in BOOLEAN /\ MayStop \in BOOLEAN
  /\ AuditOutcomes \subseteq BOOLEAN
  /\ Freezable \subseteq Subjects
  /\ NoId \notin Ids

VARIABLES
  obj,       \* the liveSession objects ever created
  live,      \* sessionManager.sessions: the ids in the map
  open,      \* where each OpenSession call is
  exec,      \* where each SessionExec or CloseSession call is
  reap,      \* the reaper's victims still to be closed and audited
  poll,      \* the revocation poll: its snapshot and its victims
  shut,      \* Engine.Close
  frozen,    \* the signer's freeze set
  told,      \* ids handed to a caller
  log,       \* session records in the broker's audit log
  ran        \* sessions on which a command was put on the wire

vars == <<obj, live, open, exec, reap, poll, shut, frozen, told, log, ran>>

Age(limit) == 0 .. limit + 1
Older(age, limit) == IF age > limit THEN age ELSE age + 1

Session ==
  [caller : Callers, mode : Modes, idle : Age(IdleTTL), life : Age(MaxLife),
   cert : Age(CertTTL), busy : Nat, conn : {"none", "open", "down", "closed"}]

ASSUME NoSessionAssumption == NoSession \notin Session

Reasons == {"cert expired", "idle", "lifetime"}

TypeOK ==
  /\ obj \in [Ids -> Session \cup {NoSession}]
  /\ live \subseteq Ids
  /\ open \in [Openers -> [pc : {"idle", "signed", "dialed", "refused", "added", "rollback"},
                           id : Ids \cup {NoId}]]
  /\ exec \in [Execs -> [pc : {"idle", "preflight", "ready", "running", "checkin", "closing"},
                         id : Ids \cup {NoId}]]
  /\ reap \in Seq([id : Ids, reason : Reasons])
  /\ poll \in [pc : {"idle", "fetched", "killing", "auditing"},
               seen : SUBSET Subjects, todo : Seq(Ids), done : Seq(Ids)]
  /\ shut \in [pc : {"up", "closing", "auditing", "down"},
               todo : Seq(Ids), done : Seq(Ids)]
  /\ frozen \subseteq Subjects /\ told \subseteq Ids /\ ran \subseteq Ids
  /\ log \in [Ids -> [open : BOOLEAN, ends : Nat]]

Init ==
  /\ obj = [i \in Ids |-> NoSession]
  /\ live = {} /\ frozen = {} /\ told = {} /\ ran = {}
  /\ open = [o \in Openers |-> [pc |-> "idle", id |-> NoId]]
  /\ exec = [x \in Execs |-> [pc |-> "idle", id |-> NoId]]
  /\ reap = <<>>
  /\ poll = [pc |-> "idle", seen |-> {}, todo |-> <<>>, done |-> <<>>]
  /\ shut = [pc |-> "up", todo |-> <<>>, done |-> <<>>]
  /\ log = [i \in Ids |-> [open |-> FALSE, ends |-> 0]]

----------------------------------------------------------------------------
(* The process runs, and its audit log accepts records, until Engine.Close *)
(* has returned; the goroutines still at work then die with it.            *)
Up == shut.pc # "down"

\* Go iterates over a map in an arbitrary order, and meets every key once.
Orders(S) == {q \in [1 .. Cardinality(S) -> S] :
                /\ q \in Seq(S)
                /\ \A v \in S : \E i \in DOMAIN q : q[i] = v
                /\ \A i, j \in DOMAIN q : q[i] = q[j] => i = j}

\* One append of a record that ends a session (session_close, session_killed).
Ended(id, ok) == [log EXCEPT ![id].ends = IF ok THEN @ + 1 ELSE @]

----------------------------------------------------------------------------
(* liveSession.close.  sync.Once makes the first closer do the work and the *)
(* others wait for it, so a closer is past close() when conn is "closed".  *)
(* The transport goes first; the shell's mutex may be held by a command.   *)

\* The sessions some goroutine is currently inside close() for.
Closing ==
  {open[o].id : o \in {p \in Openers : open[p].pc \in {"refused", "rollback"}}}
    \cup {exec[x].id : x \in {y \in Execs : exec[y].pc = "closing"}}
    \cup (IF reap # <<>> THEN {Head(reap).id} ELSE {})
    \cup (IF poll.todo # <<>> THEN {Head(poll.todo)} ELSE {})
    \cup (IF shut.todo # <<>> THEN {Head(shut.todo)} ELSE {})

shellBusy(id) == obj[id].mode = "shell" /\ \E x \in Execs : exec[x] = [pc |-> "running", id |-> id]

closeTransport_ShellFirst(id) ==
  /\ Up /\ id \in Closing /\ obj[id].conn = "open" /\ ~shellBusy(id)
  /\ obj' = [obj EXCEPT ![id].conn = "down"]
  /\ UNCHANGED <<live, open, exec, reap, poll, shut, frozen, told, log, ran>>

closeTransport(id) ==
  /\ Up /\ id \in Closing /\ obj[id].conn = "open"
  /\ obj' = [obj EXCEPT ![id].conn = "down"]
  /\ UNCHANGED <<live, open, exec, reap, poll, shut, frozen, told, log, ran>>

\* ShellSession.Close takes the shell mutex.  A closed session's ages are
\* read by nobody.
closeShell(id) ==
  /\ Up /\ id \in Closing /\ obj[id].conn = "down" /\ ~shellBusy(id)
  /\ obj' = [obj EXCEPT ![id] = [@ EXCEPT !.conn = "closed", !.idle = 0, !.life = 0, !.cert = 0]]
  /\ UNCHANGED <<live, open, exec, reap, poll, shut, frozen, told, log, ran>>

Closed(id) == obj[id].conn = "closed"

----------------------------------------------------------------------------
(* OpenSession: sign, dial (with the shell and the recording), register,   *)
(* audit.                                                                  *)

\* buildHopsWithPrefix: the signer refuses a frozen end user or broker.  The
\* certificate ages from here.
OpenSession(o, c, m, id) ==
  /\ Up /\ open[o].pc = "idle" /\ obj[id] = NoSession
  /\ {c, Broker} \cap frozen = {}
  /\ obj' = [obj EXCEPT ![id] = [caller |-> c, mode |-> m, idle |-> 0, life |-> 0, cert |-> 0,
                                 busy |-> 0, conn |-> "none"]]
  /\ open' = [open EXCEPT ![o] = [pc |-> "signed", id |-> id]]
  /\ UNCHANGED <<live, exec, reap, poll, shut, frozen, told, log, ran>>

\* sshrun.Dial failed: nothing was opened.
dialFailed(o) ==
  /\ Up /\ open[o].pc = "signed"
  /\ obj' = [obj EXCEPT ![open[o].id].conn = "closed"]
  /\ open' = [open EXCEPT ![o] = [pc |-> "idle", id |-> NoId]]
  /\ UNCHANGED <<live, exec, reap, poll, shut, frozen, told, log, ran>>

\* Dial succeeded; openShellForMode or a strict startSessionRecording may
\* still fail, in which case the connection is closed again.
dialed(o) ==
  /\ Up /\ open[o].pc = "signed"
  /\ obj' = [obj EXCEPT ![open[o].id] = [@ EXCEPT !.conn = "open", !.idle = 0, !.life = 0]]
  /\ \E pc \in {"dialed", "refused"} : open' = [open EXCEPT ![o].pc = pc]
  /\ UNCHANGED <<live, exec, reap, poll, shut, frozen, told, log, ran>>

\* sessionManager.add with the M2 limits; a refused session is closed.

add_LeftOpen(o) ==
  LET id == open[o].id
      full == Cardinality({i \in live : obj[i].caller = obj[id].caller}) >= maxSessionsPerCaller
  IN  /\ Up /\ open[o].pc = "dialed"
      /\ live' = IF full THEN live ELSE live \cup {id}
      /\ open' = [open EXCEPT ![o] = IF full THEN [pc |-> "idle", id |-> NoId] ELSE [@ EXCEPT !.pc = "added"]]
      /\ UNCHANGED <<obj, exec, reap, poll, shut, frozen, told, log, ran>>

add(o) ==
  LET id == open[o].id
      full == \/ Cardinality(live) >= maxSessionsGlobal
              \/ Cardinality({i \in live : obj[i].caller = obj[id].caller}) >= maxSessionsPerCaller
  IN  /\ Up /\ open[o].pc = "dialed"
      /\ live' = IF full THEN live ELSE live \cup {id}
      /\ open' = [open EXCEPT ![o].pc = IF full THEN "refused" ELSE "added"]
      /\ UNCHANGED <<obj, exec, reap, poll, shut, frozen, told, log, ran>>

\* The session_open record; when it cannot be written in fail-closed mode
\* the session leaves the map again, and is closed.

auditOpen(o) ==
  LET id == open[o].id
  IN  /\ Up /\ open[o].pc = "added"
      /\ \E ok \in AuditOutcomes :
           /\ log' = [log EXCEPT ![id].open = ok]
           /\ IF ok \/ ~FailClosed
              THEN /\ told' = told \cup {id}
                   /\ open' = [open EXCEPT ![o] = [pc |-> "idle", id |-> NoId]]
                   /\ UNCHANGED live
              ELSE /\ live' = live \ {id}
                   /\ open' = [open EXCEPT ![o].pc = "rollback"]
                   /\ UNCHANGED told
      /\ UNCHANGED <<obj, exec, reap, poll, shut, frozen, ran>>

\* s.close() of a refused or rolled back session returned.
openFailed(o) ==
  /\ Up /\ open[o].pc \in {"refused", "rollback"} /\ Closed(open[o].id)
  /\ open' = [open EXCEPT ![o] = [pc |-> "idle", id |-> NoId]]
  /\ UNCHANGED <<obj, live, exec, reap, poll, shut, frozen, told, log, ran>>

----------------------------------------------------------------------------
(* SessionExec: checkout, the signer's preflight, the command, checkin.    *)

\* checkoutOwned under the manager's mutex: an unknown, expired or foreign
\* session is refused with no state touched.
checkoutOwned(x, c, id) ==
  /\ Up /\ exec[x].pc = "idle" /\ id \in told
  /\ id \in live /\ obj[id].caller = c /\ obj[id].cert <= CertTTL
  /\ obj' = [obj EXCEPT ![id].idle = 0, ![id].busy = @ + 1]
  /\ exec' = [exec EXCEPT ![x] = [pc |-> "preflight", id |-> id]]
  /\ UNCHANGED <<live, open, reap, poll, shut, frozen, told, log, ran>>

\* authorizeSessionExec and the checks before it: any refusal goes straight
\* to the deferred checkin.
authorizeSessionExec(x) ==
  LET refused == {obj[exec[x].id].caller, Broker} \cap frozen # {}
  IN  /\ Up /\ exec[x].pc = "preflight"
      /\ \E pc \in IF refused THEN {"checkin"} ELSE {"ready", "checkin"} :
           exec' = [exec EXCEPT ![x].pc = pc]
      /\ UNCHANGED <<obj, live, open, reap, poll, shut, frozen, told, log, ran>>

\* ExecOnce or ShellSession.Exec: a closed connection is an error; a shell
\* runs one command at a time under its mutex.
startCommand(x) ==
  LET id == exec[x].id
  IN  /\ Up /\ exec[x].pc = "ready" /\ ~shellBusy(id)
      /\ exec' = [exec EXCEPT ![x].pc = IF obj[id].conn = "open" THEN "running" ELSE "checkin"]
      /\ ran' = IF obj[id].conn = "open" THEN ran \cup {id} ELSE ran
      /\ UNCHANGED <<obj, live, open, reap, poll, shut, frozen, told, log>>

\* The command ends by itself (or at its own timeout), or the connection is
\* closed under it.  The session_exec record follows; a failed append
\* withholds the output.
commandDone(x) ==
  /\ Up /\ exec[x].pc = "running"
  /\ exec' = [exec EXCEPT ![x].pc = "checkin"]
  /\ UNCHANGED <<obj, live, open, reap, poll, shut, frozen, told, log, ran>>

commandInterrupted(x) ==
  /\ exec[x].pc = "running" /\ obj[exec[x].id].conn # "open"
  /\ commandDone(x)

checkin(x) ==
  LET id == exec[x].id
  IN  /\ Up /\ exec[x].pc = "checkin"
      /\ obj' = [obj EXCEPT ![id].idle = 0, ![id].busy = IF @ > 0 THEN @ - 1 ELSE @]
      /\ exec' = [exec EXCEPT ![x] = [pc |-> "idle", id |-> NoId]]
      /\ UNCHANGED <<live, open, reap, poll, shut, frozen, told, log, ran>>

----------------------------------------------------------------------------
(* CloseSession: removeOwned under the mutex, then close() and the record. *)

removeOwned_Found(x, c, id) ==
  /\ Up /\ exec[x].pc = "idle" /\ id \in told
  /\ id \in live /\ obj[id].caller = c
  /\ exec' = [exec EXCEPT ![x] = [pc |-> "closing", id |-> id]]
  /\ UNCHANGED <<obj, live, open, reap, poll, shut, frozen, told, log, ran>>

removeOwned(x, c, id) ==
  /\ Up /\ exec[x].pc = "idle" /\ id \in told
  /\ id \in live /\ obj[id].caller = c
  /\ live' = live \ {id}
  /\ exec' = [exec EXCEPT ![x] = [pc |-> "closing", id |-> id]]
  /\ UNCHANGED <<obj, open, reap, poll, shut, frozen, told, log, ran>>

CloseSession(x) ==
  LET id == exec[x].id
  IN  /\ Up /\ exec[x].pc = "closing" /\ Closed(id)
      /\ \E ok \in AuditOutcomes : log' = Ended(id, ok)
      /\ exec' = [exec EXCEPT ![x] = [pc |-> "idle", id |-> NoId]]
      /\ UNCHANGED <<obj, live, open, reap, poll, shut, frozen, told, ran>>

----------------------------------------------------------------------------
(* The reaper: victims leave the map under the mutex, then each is closed  *)
(* and audited outside it.  A tick taken before closeAll closed the stop   *)
(* channel is still swept after it.                                        *)

reapReason_IgnoresBusy(s) ==
  IF s.cert > CertTTL THEN {"cert expired"}
  ELSE IF s.idle > IdleTTL THEN {"idle"}
  ELSE IF s.life > MaxLife THEN {"lifetime"}
  ELSE {}

\* Why reapExpired closes a session: {} spares it.
reapReason(s) ==
  IF s.cert > CertTTL THEN {"cert expired"}
  ELSE IF s.busy > 0 THEN {}
  ELSE IF s.idle > IdleTTL THEN {"idle"}
  ELSE IF s.life > MaxLife THEN {"lifetime"}
  ELSE {}

reapExpired ==
  LET victims == {v \in [id : live, reason : Reasons] : v.reason \in reapReason(obj[v.id])}
  IN  /\ Up /\ reap = <<>> /\ victims # {}
      /\ reap' \in Orders(victims)
      /\ live' = live \ {v.id : v \in victims}
      /\ UNCHANGED <<obj, open, exec, poll, shut, frozen, told, log, ran>>

onReap ==
  /\ Up /\ reap # <<>> /\ Closed(Head(reap).id)
  /\ \E ok \in AuditOutcomes : log' = Ended(Head(reap).id, ok)
  /\ reap' = Tail(reap)
  /\ UNCHANGED <<obj, live, open, exec, poll, shut, frozen, told, ran>>

----------------------------------------------------------------------------
(* The kill switch: pollRevocationsOnce fetches the signer's freeze set,   *)
(* enforceRevocations removes the matching sessions under the mutex, busy  *)
(* ones included, closes them all and then audits each.  A failed fetch    *)
(* changes nothing.                                                        *)

FetchRevocations ==
  /\ shut.pc = "up" /\ poll.pc = "idle"
  /\ poll' = [poll EXCEPT !.pc = "fetched", !.seen = frozen]
  /\ UNCHANGED <<obj, live, open, exec, reap, shut, frozen, told, log, ran>>

revocationPredicate(f, id) == f \cap {Broker, obj[id].caller, id} # {}

killMatching_SparesBusy ==
  LET victims == {id \in live : revocationPredicate(poll.seen, id) /\ obj[id].busy = 0}
  IN  /\ Up /\ poll.pc = "fetched"
      /\ \E q \in Orders(victims) :
           poll' = [pc |-> "killing", seen |-> {}, todo |-> q, done |-> <<>>]
      /\ live' = live \ victims
      /\ UNCHANGED <<obj, open, exec, reap, shut, frozen, told, log, ran>>

killMatching ==
  LET victims == {id \in live : revocationPredicate(poll.seen, id)}
  IN  /\ Up /\ poll.pc = "fetched"
      /\ \E q \in Orders(victims) :
           poll' = [pc |-> "killing", seen |-> {}, todo |-> q, done |-> <<>>]
      /\ live' = live \ victims
      /\ UNCHANGED <<obj, open, exec, reap, shut, frozen, told, log, ran>>

killNext ==
  /\ Up /\ poll.pc = "killing"
  /\ IF poll.todo = <<>>
     THEN poll' = [poll EXCEPT !.pc = "auditing"]
     ELSE /\ Closed(Head(poll.todo))
          /\ poll' = [poll EXCEPT !.todo = Tail(@), !.done = Append(@, Head(poll.todo))]
  /\ UNCHANGED <<obj, live, open, exec, reap, shut, frozen, told, log, ran>>

enforceRevocations ==
  /\ Up /\ poll.pc = "auditing"
  /\ IF poll.done = <<>>
     THEN poll' = [poll EXCEPT !.pc = "idle"] /\ UNCHANGED log
     ELSE /\ \E ok \in AuditOutcomes : log' = Ended(Head(poll.done), ok)
          /\ poll' = [poll EXCEPT !.done = Tail(@)]
  /\ UNCHANGED <<obj, live, open, exec, reap, shut, frozen, told, ran>>

----------------------------------------------------------------------------
(* Engine.Close: stop the goroutines, closeAll, one session_close record   *)
(* per victim, then the audit log; the process exits after it.             *)

closeAll ==
  /\ MayStop /\ shut.pc = "up"
  /\ \E q \in Orders(live) : shut' = [pc |-> "closing", todo |-> q, done |-> <<>>]
  /\ live' = {}
  /\ UNCHANGED <<obj, open, exec, reap, poll, frozen, told, log, ran>>

closeNext ==
  /\ shut.pc = "closing"
  /\ IF shut.todo = <<>>
     THEN shut' = [shut EXCEPT !.pc = "auditing"]
     ELSE /\ Closed(Head(shut.todo))
          /\ shut' = [shut EXCEPT !.todo = Tail(@), !.done = Append(@, Head(shut.todo))]
  /\ UNCHANGED <<obj, live, open, exec, reap, poll, frozen, told, log, ran>>

Close ==
  /\ shut.pc = "auditing"
  /\ IF shut.done = <<>>
     THEN shut' = [shut EXCEPT !.pc = "down"] /\ UNCHANGED log
     ELSE /\ \E ok \in AuditOutcomes : log' = Ended(Head(shut.done), ok)
          /\ shut' = [shut EXCEPT !.done = Tail(@)]
  /\ UNCHANGED <<obj, live, open, exec, reap, poll, frozen, told, ran>>

----------------------------------------------------------------------------
(* The environment: the operator's freezes at the signer, and time.        *)

Freeze(u) ==
  /\ Up /\ u \notin frozen /\ frozen' = frozen \cup {u}
  /\ UNCHANGED <<obj, live, open, exec, reap, poll, shut, told, log, ran>>

Unfreeze(u) ==
  /\ Up /\ u \in frozen /\ frozen' = frozen \ {u}
  /\ UNCHANGED <<obj, live, open, exec, reap, poll, shut, told, log, ran>>

Aged(s) ==
  IF s = NoSession THEN s
  ELSE IF s.conn = "closed" THEN s
  ELSE [s EXCEPT !.idle = Older(@, IdleTTL), !.life = Older(@, MaxLife), !.cert = Older(@, CertTTL)]

Tick ==
  /\ Up
  /\ obj' = [i \in Ids |-> Aged(obj[i])]
  /\ UNCHANGED <<live, open, exec, reap, poll, shut, frozen, told, log, ran>>

----------------------------------------------------------------------------
Next ==
  \/ \E id \in Ids : closeTransport(id) \/ closeShell(id)
  \/ \E o \in Openers :
       \/ \E c \in Callers, m \in Modes, id \in Ids : OpenSession(o, c, m, id)
       \/ dialFailed(o) \/ dialed(o) \/ add(o) \/ auditOpen(o) \/ openFailed(o)
  \/ \E x \in Execs :
       \/ \E c \in Callers, id \in Ids : checkoutOwned(x, c, id) \/ removeOwned(x, c, id)
       \/ authorizeSessionExec(x) \/ startCommand(x) \/ commandDone(x) \/ checkin(x)
       \/ CloseSession(x)
  \/ reapExpired \/ onReap
  \/ FetchRevocations \/ killMatching \/ killNext \/ enforceRevocations
  \/ closeAll \/ closeNext \/ Close
  \/ \E u \in Freezable : Freeze(u) \/ Unfreeze(u)
  \/ Tick

Spec == Init /\ [][Next]_vars

(* Every goroutine that is not waiting for a remote command keeps running; *)
(* both tickers keep firing and the signer keeps answering.  A remote      *)
(* command is never assumed to end, nor a limit to be reached in time.     *)
openStep(o) == dialed(o) \/ dialFailed(o) \/ add(o) \/ auditOpen(o) \/ openFailed(o)
execStep(x) == authorizeSessionExec(x) \/ commandInterrupted(x) \/ checkin(x) \/ CloseSession(x)

Fairness ==
  /\ \A id \in Ids : WF_vars(closeTransport(id)) /\ WF_vars(closeShell(id))
  /\ \A o \in Openers : WF_vars(openStep(o))
  /\ \A x \in Execs : WF_vars(execStep(x)) /\ SF_vars(startCommand(x))
  /\ WF_vars(reapExpired \/ onReap)
  /\ WF_vars(FetchRevocations \/ killMatching \/ killNext \/ enforceRevocations)

FairSpec == Spec /\ Fairness

----------------------------------------------------------------------------
(* No connection is left behind: one that is open is in the map (so the    *)
(* reaper, the kill switch and shutdown find it), is held by the           *)
(* OpenSession call that dialled it, or is a session whose closer is on    *)
(* its way to it.  About every early return of OpenSession and the removal *)
(* from the map before close() in all four teardown paths.                 *)
Doomed ==
  Closing \cup {reap[i].id : i \in DOMAIN reap}
    \cup {poll.todo[i] : i \in DOMAIN poll.todo} \cup {shut.todo[i] : i \in DOMAIN shut.todo}

NoOrphanConn ==
  \A id \in Ids :
    obj[id] # NoSession /\ obj[id].conn \in {"open", "down"} /\ Up
      => id \in live \cup Doomed \cup {open[o].id : o \in {p \in Openers : open[p].pc = "dialed"}}

(* The reaper closes a session under a command in flight only because its  *)
(* certificate expired (#225): the idle and lifetime limits spare a busy   *)
(* session, also one that a second command is still using.                 *)
SparedWhileBusy ==
  \A i \in DOMAIN reap :
    reap[i].reason # "cert expired" => \A x \in Execs : exec[x].id # reap[i].id

(* The audit log tells the life of a session once: it is ended at most     *)
(* once, whichever of CloseSession, the reaper, the kill switch and        *)
(* shutdown reach it, and in fail-closed mode a command only ever runs in  *)
(* a session whose session_open record is there.                           *)
LifeAudited ==
  \A id \in Ids : log[id].ends <= 1 /\ (FailClosed /\ id \in ran => log[id].open)

(* A session of a frozen subject is killed, busy or not and whenever it    *)
(* was opened, unless the subject is unfrozen or the broker shuts down.    *)
FrozenKilled ==
  \A id \in Ids :
    (id \in live /\ revocationPredicate(frozen, id))
      ~> (shut.pc # "up" \/ (id \in live => ~revocationPredicate(frozen, id)))

(* A session does not outlive its certificate, even under a command that   *)
(* does not end, and its connection is really torn down: close() does not  *)
(* wait for that command (#202, #225).                                     *)
ExpiredClosed ==
  \A id \in Ids :
    (id \in live /\ obj[id].cert > CertTTL) ~> (shut.pc # "up" \/ (obj[id] # NoSession => Closed(id)))
=============================================================================
