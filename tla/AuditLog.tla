------------------------------ MODULE AuditLog ------------------------------
(***************************************************************************)
(* The writer of an audit log (internal/audit/log.go): concurrent          *)
(* appenders that share one fsync (group commit), rotation, shutdown,      *)
(* faults of the file system, and a crash with the next start.             *)
(*                                                                         *)
(* An action is one critical section of Log.mu: from a lock or a wake-up   *)
(* to the next Cond.Wait, to the unlock around the leader's fsync, or to   *)
(* the return.  Redaction, signatures and fitEntry do not touch the chain  *)
(* and are left out; a file's size is its number of lines.                 *)
(***************************************************************************)
EXTENDS AuditFiles

CONSTANTS Appenders,    \* goroutines that may call Append at once
          MaxFileSize,  \* the rotation threshold, in lines
          Faults,       \* what may fail: "sync", "rename", "open", "write", "short"
          Tears,        \* what a crash may do to the last line: "newline", "partial"
          ClockSteps,   \* whether the wall clock may go back
          MaxTime,      \* bound on the clock, in seconds
          MaxRecords,   \* bound on the calls of Append
          MaxCrashes    \* bound on crashes

ASSUME AuditAssumption ==
    /\ MaxFileSize \in Nat \ {0}
    /\ Faults \subseteq {"sync", "rename", "open", "write", "short"}
    /\ Tears \subseteq {"newline", "partial"}
    /\ ClockSteps \in BOOLEAN
    /\ MaxTime \in Nat /\ MaxRecords \in Nat /\ MaxCrashes \in Nat
    /\ NoFile \notin File

VARIABLES log,      \* the Log struct; up is whether the process runs
          segs,     \* the rotated segments by name
          active,   \* the file at Log.path
          thread,   \* the calls of Append in flight
          closing,  \* the call of Close
          clock,    \* the wall clock
          count,    \* history: records numbered so far
          acked,    \* history: records whose Append returned nil
          crashes   \* history: crashes so far

vars == <<log, segs, active, thread, closing, clock, count, acked, crashes>>
disk == <<segs, active>>

(* Log.f is open, nil, or closed by Close.                                 *)
Log == [up : BOOLEAN, f : {"open", "nil", "closed"}, needsNewline : BOOLEAN, prevHash : Int,
        seq : Nat, writeCount : Nat, syncedCount : Nat, syncing : BOOLEAN]

(* A call: where it is, its record, its writeCount, and, for a leader, the *)
(* target, the file and lines its fsync covers and the segments rotated    *)
(* before that file.                                                       *)
Thread == [pc : {"idle", "rotwait", "rotate", "syncwait", "sync", "fsync"},
           n : Nat, my : Nat, target : Nat, f : {"open", "nil", "closed"}, lines : Nat,
           rotated : SUBSET Names]
IdleThread == [pc |-> "idle", n |-> 0, my |-> 0, target |-> 0, f |-> "nil", lines |-> 0,
               rotated |-> {}]

TypeOK ==
    /\ log \in Log
    /\ DOMAIN segs \subseteq Names /\ \A a \in DOMAIN segs : segs[a] \in File
    /\ active \in File \cup {NoFile}
    /\ thread \in [Appenders -> Thread]
    /\ closing \in {"no", "wait", "awake", "done"}
    /\ clock \in Nat /\ count \in Nat /\ acked \subseteq Nat /\ crashes \in Nat

Init ==
    /\ log = [up |-> TRUE, f |-> "open", needsNewline |-> FALSE, prevHash |-> 0, seq |-> 0,
              writeCount |-> 0, syncedCount |-> 0, syncing |-> FALSE]
    /\ segs = [a \in {} |-> EmptyFile]
    /\ active = EmptyFile
    /\ thread = [p \in Appenders |-> IdleThread]
    /\ closing = "no"
    /\ clock = 0 /\ count = 0 /\ acked = {} /\ crashes = 0
-----------------------------------------------------------------------------
(* syncCond.Broadcast: every waiter will look again.                       *)
Broadcast_None(t) == t
Broadcast(t) ==
    [p \in Appenders |-> CASE t[p].pc = "rotwait"  -> [t[p] EXCEPT !.pc = "rotate"]
                           [] t[p].pc = "syncwait" -> [t[p] EXCEPT !.pc = "sync"]
                           [] OTHER -> t[p]]

WakeClose == closing' = IF closing = "wait" THEN "awake" ELSE closing

Synced(f) == [f EXCEPT !.durable = Len(f.lines)]
Full(l, f) == l.f = "open" /\ Len(f.lines) >= MaxFileSize

(* What a step of a call leaves: the Log struct, the segments, the file.   *)
Left(l, s, f) == [log |-> l, segs |-> s, active |-> f]

Deferred(l) == Left(l, segs, active)

FlushedLog(l) == [l EXCEPT !.f = "nil", !.syncedCount = l.writeCount]

RotatedLog(l) == [FlushedLog(l) EXCEPT !.seq = 0, !.needsNewline = FALSE]

Opened(l) == [l EXCEPT !.f = "open"]

(* The segments once the active file has been renamed.                     *)
Moved ==
    LET name == rotatedSegmentPath(segs, clock)
    IN [a \in DOMAIN segs \cup {name} |-> IF a = name THEN Synced(active) ELSE segs[a]]

(* The outcomes of the body of maybeRotate, once no leader is syncing: the *)
(* fsync fails and the rotation is deferred; or the handle is dropped, the *)
(* file renamed or not, and a file opened again or not.                    *)
Rotations(l) ==
    UNION {IF "sync" \in Faults THEN {Deferred(l)} ELSE {},
           IF "rename" \in Faults
           THEN {Left(Opened(FlushedLog(l)), segs, Synced(active))} ELSE {},
           IF "rename" \in Faults /\ "open" \in Faults
           THEN {Left(FlushedLog(l), segs, Synced(active))} ELSE {},
           {Left(Opened(RotatedLog(l)), Moved, EmptyFile)},
           IF "open" \in Faults THEN {Left(RotatedLog(l), Moved, NoFile)} ELSE {}}

(* maybeRotate after its wait.                                             *)
maybeRotate(l) == IF Full(l, active) THEN Rotations(l) ELSE {Deferred(l)}
-----------------------------------------------------------------------------
(* The bytes of a write, after what the file ends with.  Without its       *)
(* newline the last line runs into the new bytes, unless needsNewline puts *)
(* one in front.                                                           *)
Written(lines, line, newline) ==
    LET k == Len(lines)
    IN IF k = 0 \/ lines[k].nl # "none" THEN Append(lines, line)
       ELSE IF newline THEN Append([lines EXCEPT ![k].nl = "lent"], line)
       ELSE [lines EXCEPT ![k].good = FALSE, ![k].nl = line.nl]

(* ensureOpen, and the fields a committed line changes.                    *)
ensureOpen(l) == IF l.f = "nil" THEN Opened(l) ELSE l
Created(f) == IF f = NoFile THEN EmptyFile ELSE f
Committed(l, n) == [l EXCEPT !.needsNewline = FALSE, !.seq = @ + 1, !.prevHash = n,
                             !.writeCount = @ + 1]

Entry(l, n) == [n |-> n, seq |-> l.seq + 1, prev |-> l.prevHash, good |-> TRUE, nl |-> "own"]
Put(f, line, newline) == [f EXCEPT !.lines = Written(f.lines, line, newline)]

(* The outcomes of doAppend from ensureOpen on: the state r it leaves and  *)
(* whether the line was committed.                                         *)
Writes(r, n) ==
    LET l == ensureOpen(r.log)
        f == Created(r.active)
        line == Entry(l, n)
        Failed(lg, file) == [ok |-> FALSE, r |-> Left(lg, r.segs, file)]
    IN UNION {IF r.log.f = "nil" /\ "open" \in Faults THEN {Failed(r.log, r.active)} ELSE {},
              IF l.f = "closed" \/ "write" \in Faults THEN {Failed(l, f)} ELSE {},
              IF l.f = "open" /\ "short" \in Faults
              THEN {Failed(l, Put(f, [line EXCEPT !.nl = "none"], l.needsNewline)),
                    Failed(l, Put(f, [line EXCEPT !.nl = "none", !.good = FALSE], l.needsNewline))}
              ELSE {},
              IF l.f = "open"
              THEN {[ok |-> TRUE, r |-> Left(Committed(l, n), r.segs, Put(f, line, l.needsNewline))]}
              ELSE {}}

(* syncTo as the call first reaches it, or as a woken waiter finds it: it  *)
(* waits for the leader or becomes the leader.                             *)
syncTo(t, r) ==
    IF r.log.syncing THEN [t EXCEPT !.pc = "syncwait"]
    ELSE [t EXCEPT !.pc = "fsync", !.target = r.log.writeCount, !.f = r.log.f,
                   !.lines = IF r.active = NoFile THEN 0 ELSE Len(r.active.lines),
                   !.rotated = DOMAIN r.segs]

Leads(t) == t.pc = "fsync"

(* The rest of a call from maybeRotate on.  A rotation broadcasts.         *)
Proceed(p, n, others) ==
    \E r \in maybeRotate(log) : \E w \in Writes(r, n) :
        LET next == IF w.ok THEN syncTo([IdleThread EXCEPT !.n = n, !.my = w.r.log.writeCount], w.r)
                    ELSE IdleThread
        IN /\ thread' = [others EXCEPT ![p] = next]
           /\ log' = [w.r.log EXCEPT !.syncing = @ \/ Leads(next)]
           /\ segs' = w.r.segs /\ active' = w.r.active

Awake == IF Full(log, active) THEN Broadcast(thread) ELSE thread

(* A call of Append.  A full file waits until no leader is syncing it.     *)
MustWait(l) == l.syncing

doAppend(p) ==
    /\ log.up /\ thread[p].pc = "idle" /\ count < MaxRecords
    /\ count' = count + 1
    /\ IF Full(log, active) /\ MustWait(log)
       THEN /\ thread' = [thread EXCEPT ![p] = [IdleThread EXCEPT !.pc = "rotwait", !.n = count']]
            /\ UNCHANGED <<log, disk, closing>>
       ELSE /\ Proceed(p, count', Awake)
            /\ IF Full(log, active) THEN WakeClose ELSE UNCHANGED closing
    /\ UNCHANGED <<clock, acked, crashes>>

(* A call that waited to rotate looks again, and decides again (#674).     *)
RotateWake(p) ==
    /\ thread[p].pc = "rotate"
    /\ IF log.syncing
       THEN /\ thread' = [thread EXCEPT ![p].pc = "rotwait"]
            /\ UNCHANGED <<log, disk, closing>>
       ELSE /\ Proceed(p, thread[p].n, Awake)
            /\ IF Full(log, active) THEN WakeClose ELSE UNCHANGED closing
    /\ UNCHANGED <<clock, count, acked, crashes>>

(* A call that waited for a leader looks again at syncedCount.             *)
Covered(p) == log.syncedCount >= thread[p].my

SyncWake(p) ==
    LET t == syncTo(thread[p], [log |-> log, segs |-> segs, active |-> active])
    IN /\ thread[p].pc = "sync"
       /\ IF Covered(p)
          THEN /\ thread' = [thread EXCEPT ![p] = IdleThread]
               /\ acked' = acked \cup {thread[p].n}
               /\ UNCHANGED log
          ELSE /\ thread' = [thread EXCEPT ![p] = t]
               /\ log' = [log EXCEPT !.syncing = @ \/ Leads(t)]
               /\ UNCHANGED acked
       /\ UNCHANGED <<disk, closing, clock, count, crashes>>

(* The leader's fsync returns.  It made durable at least the lines that    *)
(* were in the file when it began.  On failure only the leader hears of    *)
(* it.                                                                     *)
Target_Late(t) == log.writeCount
Target(t) == t.target

FsyncDone(p) ==
    /\ thread[p].pc = "fsync"
    /\ \E ok \in {TRUE} \cup (IF "sync" \in Faults \/ log.f = "closed" THEN {FALSE} ELSE {}) :
          /\ ok => log.f = "open"
          /\ log' = [log EXCEPT !.syncing = FALSE,
                                !.syncedCount = IF ok /\ Target(thread[p]) > @ THEN Target(thread[p])
                                                ELSE @]
          /\ active' = IF ok /\ thread[p].rotated = DOMAIN segs
                            /\ thread[p].lines > active.durable
                       THEN [active EXCEPT !.durable = thread[p].lines] ELSE active
          /\ acked' = IF ok THEN acked \cup {thread[p].n} ELSE acked
    /\ thread' = [Broadcast(thread) EXCEPT ![p] = IdleThread]
    /\ WakeClose
    /\ UNCHANGED <<segs, clock, count, crashes>>
-----------------------------------------------------------------------------
(* Close at shutdown waits for the leader, and does not fsync.             *)
Close ==
    /\ log.up /\ closing \in {"no", "awake"}
    /\ IF MustWait(log) THEN closing' = "wait" /\ UNCHANGED log
       ELSE closing' = "done" /\ log' = [log EXCEPT !.f = IF @ = "nil" THEN @ ELSE "closed"]
    /\ UNCHANGED <<disk, thread, clock, count, acked, crashes>>

Tick ==
    /\ \E t \in 0 .. MaxTime : t # clock /\ (t > clock \/ ClockSteps) /\ clock' = t
    /\ UNCHANGED <<log, disk, thread, closing, count, acked, crashes>>

(* The first k lines of a file.  A newline lent by the next write is lost  *)
(* with that write.                                                        *)
Cut(f, k) == [i \in 1 .. k |-> IF i = k /\ k < Len(f.lines) /\ f.lines[k].nl = "lent"
                               THEN [f.lines[k] EXCEPT !.nl = "none"] ELSE f.lines[i]]

(* They end in a line that lost its newline or, unless good, more.         *)
Torn(f, k, good) == [Cut(f, k) EXCEPT ![k].nl = "none", ![k].good = @ /\ good]

(* What a crash may leave of a file: all of it as it is, when only the     *)
(* process died, or the durable lines and any of those after them, the     *)
(* last of these perhaps torn.                                             *)
Remains(f) ==
    LET volatile == (f.durable + 1) .. Len(f.lines)
    IN {f} \cup {[lines |-> ls, durable |-> Len(ls)] :
                    ls \in {Cut(f, k) : k \in f.durable .. Len(f.lines)}
                           \cup (IF "newline" \in Tears
                                 THEN {Torn(f, k, TRUE) : k \in volatile} ELSE {})
                           \cup (IF "partial" \in Tears
                                 THEN {Torn(f, k, FALSE) : k \in volatile} ELSE {})}

Crash ==
    /\ log.up /\ crashes < MaxCrashes
    /\ crashes' = crashes + 1
    /\ log' = [log EXCEPT !.up = FALSE]
    /\ active' \in IF active = NoFile THEN {NoFile} ELSE Remains(active)
    /\ segs' \in {s \in [DOMAIN segs -> UNION {Remains(segs[a]) : a \in DOMAIN segs}] :
                     \A a \in DOMAIN segs : s[a] \in Remains(segs[a])}
    /\ thread' = [p \in Appenders |-> IdleThread]
    /\ closing' = "no"
    /\ UNCHANGED <<clock, count, acked>>

(* Open, with restoreChain: it refuses when the last line does not parse.  *)
Restored(s, f) ==
    [up |-> TRUE, f |-> "open",
     needsNewline |-> HasLines(f) /\ LastLine(f).nl = "none",
     prevHash |-> IF HasLines(f) THEN LastHash(f) ELSE seedFromRotatedSegments(s),
     seq |-> IF HasLines(f) THEN LastLine(f).seq ELSE 0,
     writeCount |-> 0, syncedCount |-> 0, syncing |-> FALSE]

Open ==
    /\ ~log.up /\ Openable(segs, active)
    /\ log' = Restored(segs, active)
    /\ active' = IF active = NoFile THEN EmptyFile ELSE active
    /\ UNCHANGED <<segs, thread, closing, clock, count, acked, crashes>>

(* `broker-ctl audit repair --apply` on the stopped log: the malformed     *)
(* tail is cut off.                                                        *)
Repair ==
    /\ ~log.up /\ Repairable(active)
    /\ LET k == CleanLines(active)
       IN active' = [lines |-> SubSeq(active.lines, 1, k), durable |-> k]
    /\ UNCHANGED <<log, segs, thread, closing, clock, count, acked, crashes>>

AppendStep(p) == RotateWake(p) \/ SyncWake(p) \/ FsyncDone(p)

Next ==
    \/ \E p \in Appenders : doAppend(p) \/ AppendStep(p)
    \/ Close
    \/ Tick
    \/ Crash
    \/ Open
    \/ Repair

Spec == Init /\ [][Next]_vars

(* A goroutine that can run does, and an fsync returns.                    *)
Fairness == \A p \in Appenders : WF_vars(AppendStep(p))
FairSpec == Spec /\ Fairness
-----------------------------------------------------------------------------
Files == {active} \cup {segs[a] : a \in DOMAIN segs}

(* An Append that returned nil is on disk for good (syncTo: "an Append     *)
(* returns success only once its bytes are on disk"): whatever fails       *)
(* afterwards, rotates or crashes, and after a repair, its record is a     *)
(* durable, readable line of one of the files.                             *)
AckDurable ==
    \A n \in acked : \E f \in Files : f # NoFile /\
        \E i \in 1 .. f.durable : f.lines[i].good /\ f.lines[i].n = n

(* While the log runs, the verifier accepts what is in the files, torn     *)
(* lines, rotations and restarts included: writer, restoreChain and        *)
(* VerifySegments agree on one chain.                                      *)
ChainVerifies == log.up => VerifySegments(segs, active)

(* A stopped log can be started again, at worst after a repair.            *)
Recoverable == ~log.up => Openable(segs, active) \/ Repairable(active)

(* Every call of Append returns: no waiter misses the end of the fsync it  *)
(* waits for, whether the fsync fails, the file rotates or the log closes. *)
AppendReturns == \A p \in Appenders : thread[p].pc # "idle" ~> thread[p].pc = "idle"
=============================================================================
