---------------------------- MODULE ShellSession ----------------------------
(***************************************************************************)
(* The marker protocol of a shell or pty session (internal/ssh/shell.go)   *)
(* and the recorder it tees into (internal/recording/recorder.go).         *)
(*                                                                         *)
(* The calls of Exec are the numbers in Cmds; ShellSession.mu serialises   *)
(* them.  A call writes its command and the marker line to the remote      *)
(* shell, collects stdout until a marker arrives and returns it with the   *)
(* stderr captured so far.  The remote shell, the network, the goroutine   *)
(* draining stderr and liveSession.close (kill switch, reaper, shutdown)   *)
(* run beside it.  Output is counted in chunks: chunk <<c, n>> is the n-th *)
(* the host produced for command c.  A command leaves nothing running      *)
(* behind it that writes later.  A recording event is a chunk with the     *)
(* stream it belongs to.                                                   *)
(*                                                                         *)
(* Definitions named Op_Variant are altered forms of Op used to show that  *)
(* the properties depend on what Op does.                                  *)
(***************************************************************************)
EXTENDS Naturals, Sequences, FiniteSets

CONSTANTS
  MaxCmds,           \* Exec calls on this session
  Noops,             \* the calls whose command is ":", the one that opens the
                     \* session and any of a user's
  MaxOut, MaxErr,    \* stdout and stderr chunks of a command
  maxOutputBytes,    \* cap on the chunks of one stream of a result
  MaxEvents,         \* DefaultMaxBytes: events a recording holds
  Pty,               \* stderr is merged into stdout
  Strict,            \* session_recording_strict
  Faults,            \* subset of {"record", "cancel", "timeout", "mangle"}
  MayClose           \* whether liveSession.close is ever called

Cmds == 1 .. MaxCmds
Free == 0

ASSUME ShellAssumption ==
  /\ MaxCmds \in Nat /\ MaxOut \in Nat /\ MaxErr \in Nat
  /\ maxOutputBytes \in Nat /\ MaxEvents \in Nat /\ Noops \subseteq Cmds
  /\ Pty \in BOOLEAN /\ Strict \in BOOLEAN /\ MayClose \in BOOLEAN
  /\ Faults \subseteq {"record", "cancel", "timeout", "mangle"}

VARIABLES
  mu,        \* ShellSession.mu: Free, or the command in Exec
  pc,        \* where each Exec call is
  broken,    \* ShellSession.broken
  channel,   \* the SSH channel is open (abort closes it)
  conn,      \* the SSH connection is open (liveSession.close closes it)
  stdin,     \* commands written, not yet read by the remote shell
  host,      \* the command the remote shell runs, and its chunks so far
  stdout,    \* stdout items on their way to Exec
  stderr,    \* stderr chunks on their way to the drain goroutine
  buf,       \* syncBuf: the per-command stderr capture
  failed,    \* syncBuf.failed
  out,       \* what the running Exec has collected
  rec,       \* the recorder: open, and the events in the .cast file
  closer,    \* where liveSession.close is
  result,    \* what each Exec returned
  emitted    \* stdout chunks the host produced for each command

vars == <<mu, pc, broken, channel, conn, stdin, host, stdout, stderr, buf, failed,
          out, rec, closer, result, emitted>>

hostVars == <<stdin, host, emitted>>
wire == <<stdout, stderr>>

Chunk == Cmds \X Nat
Pending == [out |-> <<>>, err |-> <<>>, code |-> 0, ok |-> FALSE]

TypeOK ==
  /\ mu \in Cmds \cup {Free}
  /\ pc \in [Cmds -> {"new", "input", "send", "read", "stderr", "check", "done"}]
  /\ broken \in BOOLEAN /\ channel \in BOOLEAN /\ conn \in BOOLEAN /\ failed \in BOOLEAN
  /\ stdin \in Seq(Cmds)
  /\ host \in [cmd : Cmds \cup {0}, outs : 0 .. MaxOut, errs : 0 .. MaxErr]
  /\ stdout \in Seq([kind : {"line", "marker", "mangled"}, chunk : Chunk])
  /\ stderr \in Seq(Chunk) /\ buf \in Seq(Chunk) /\ out \in Seq(Chunk)
  /\ Len(buf) <= maxOutputBytes /\ Len(out) <= maxOutputBytes
  /\ rec \in [open : BOOLEAN, events : Seq([kind : {"i", "o", "e"}, chunk : Chunk])]
  /\ Len(rec.events) <= MaxEvents
  /\ closer \in {"none", "transport", "shell", "done"}
  /\ result \in [Cmds -> [out : Seq(Chunk), err : Seq(Chunk), code : Cmds \cup {0}, ok : BOOLEAN]]
  /\ emitted \in [Cmds -> Seq(Chunk)]

Init ==
  /\ mu = Free /\ pc = [c \in Cmds |-> "new"]
  /\ broken = FALSE /\ channel = TRUE /\ conn = TRUE /\ failed = FALSE
  /\ stdin = <<>> /\ stdout = <<>> /\ stderr = <<>> /\ buf = <<>> /\ out = <<>>
  /\ host = [cmd |-> 0, outs |-> 0, errs |-> 0]
  /\ rec = [open |-> TRUE, events |-> <<>>]
  /\ closer = "none"
  /\ result = [c \in Cmds |-> Pending]
  /\ emitted = [c \in Cmds |-> <<>>]

----------------------------------------------------------------------------
write_CappedSilently(kind, chunk) ==
  {[r |-> IF rec.open /\ Len(rec.events) < MaxEvents
          THEN [rec EXCEPT !.events = Append(@, [kind |-> kind, chunk |-> chunk])] ELSE rec,
    err |-> FALSE]}

(* Recorder.write: the outcomes of recording an event, as the new recorder *)
(* and whether an error is returned.  A closed recorder drops the event    *)
(* and reports success; past the size cap every write is an error.         *)
write(kind, chunk) ==
  LET kept == [r |-> [rec EXCEPT !.events = Append(@, [kind |-> kind, chunk |-> chunk])], err |-> FALSE]
      lost(e) == [r |-> rec, err |-> e]
  IN  IF ~rec.open THEN {lost(FALSE)}
      ELSE IF Len(rec.events) >= MaxEvents THEN {lost(TRUE)}
      ELSE {kept} \cup (IF "record" \in Faults THEN {lost(TRUE)} ELSE {})

(* Leaving Exec: the mutex is released.  abort also closes the channel and *)
(* breaks the session.                                                     *)
Return_HoldsMutex(c) == pc' = [pc EXCEPT ![c] = "done"] /\ UNCHANGED mu /\ out' = <<>>
Return(c) == pc' = [pc EXCEPT ![c] = "done"] /\ mu' = Free /\ out' = <<>>

abort_StaysUsable == channel' = channel /\ UNCHANGED broken
abort == channel' = FALSE /\ broken' = TRUE
noAbort == UNCHANGED <<channel, broken>>

----------------------------------------------------------------------------
\* Exec takes the mutex: a broken session, or a stderr event that failed to
\* record since the last command, ends it here; else the capture is reset.
Exec(c) ==
  /\ pc[c] = "new" /\ mu = Free
  /\ CASE broken -> Return(c) /\ noAbort /\ UNCHANGED buf
       [] ~broken /\ failed /\ Strict -> Return(c) /\ abort /\ UNCHANGED buf
       [] OTHER -> /\ mu' = c /\ pc' = [pc EXCEPT ![c] = "input"]
                   /\ buf' = <<>> /\ noAbort /\ UNCHANGED out
  /\ UNCHANGED <<conn, hostVars, wire, failed, rec, closer, result>>

\* WriteInput before the command goes out, unless that is ":".
writeInput(c) ==
  /\ pc[c] = "input"
  /\ \E w \in IF c \in Noops THEN {[r |-> rec, err |-> FALSE]} ELSE write("i", <<c, 0>>) :
       /\ rec' = w.r
       /\ IF w.err /\ Strict THEN Return(c) /\ abort
          ELSE pc' = [pc EXCEPT ![c] = "send"] /\ noAbort /\ UNCHANGED <<mu, out>>
  /\ UNCHANGED <<conn, hostVars, wire, buf, failed, closer, result>>

\* io.WriteString(s.stdin, command and markerLine): an error once the
\* channel or the connection is gone.
sendCommand(c) ==
  /\ pc[c] = "send"
  /\ IF channel /\ conn
     THEN /\ stdin' = Append(stdin, c) /\ pc' = [pc EXCEPT ![c] = "read"]
          /\ UNCHANGED <<mu, out>>
     ELSE Return(c) /\ UNCHANGED stdin
  /\ noAbort
  /\ UNCHANGED <<conn, host, emitted, wire, buf, failed, rec, closer, result>>

\* appendOut for an ordinary line: over the cap, or unrecordable in strict
\* mode, the command is aborted.
appendOut(c) ==
  /\ pc[c] = "read" /\ stdout # <<>> /\ Head(stdout).kind = "line"
  /\ stdout' = Tail(stdout)
  /\ IF Len(out) + 1 > maxOutputBytes THEN Return(c) /\ abort /\ UNCHANGED rec
     ELSE \E w \in write("o", Head(stdout).chunk) :
            /\ rec' = w.r
            /\ IF w.err /\ Strict THEN Return(c) /\ abort
               ELSE out' = Append(out, Head(stdout).chunk) /\ noAbort /\ UNCHANGED <<mu, pc>>
  /\ UNCHANGED <<conn, hostVars, stderr, buf, failed, closer, result>>

\* A marker line: its exit code ends the command; one that does not parse
\* aborts it.
markerLine(c) ==
  /\ pc[c] = "read" /\ stdout # <<>> /\ Head(stdout).kind # "line"
  /\ stdout' = Tail(stdout)
  /\ IF Head(stdout).kind = "mangled" THEN Return(c) /\ abort /\ UNCHANGED result
     ELSE /\ pc' = [pc EXCEPT ![c] = "stderr"]
          /\ result' = [result EXCEPT ![c].out = out, ![c].code = Head(stdout).chunk[1]]
          /\ noAbort /\ UNCHANGED <<mu, out>>
  /\ UNCHANGED <<conn, hostVars, stderr, buf, failed, rec, closer>>

\* s.stderr.output(), then the strict check that nothing in it went
\* unrecorded.
stderrOutput(c) ==
  /\ pc[c] = "stderr"
  /\ result' = [result EXCEPT ![c].err = buf]
  /\ pc' = [pc EXCEPT ![c] = "check"]
  /\ UNCHANGED <<mu, broken, channel, conn, hostVars, wire, buf, failed, out, rec, closer>>

stderrRecordingFailure(c) ==
  /\ pc[c] = "check" /\ Return(c)
  /\ IF failed /\ Strict THEN abort /\ UNCHANGED result
     ELSE noAbort /\ result' = [result EXCEPT ![c].ok = TRUE]
  /\ UNCHANGED <<conn, hostVars, wire, buf, failed, rec, closer>>

\* The select of Exec: cancelled context, deadline.
interrupt(c) ==
  /\ {"cancel", "timeout"} \cap Faults # {}
  /\ pc[c] = "read" /\ Return(c) /\ abort
  /\ UNCHANGED <<conn, hostVars, wire, buf, failed, rec, closer, result>>

\* shellReader hit the end of the stream, what was in flight possibly lost.
readInterrupted(c) ==
  /\ pc[c] = "read" /\ ~(channel /\ conn)
  /\ Return(c) /\ noAbort
  /\ UNCHANGED <<conn, hostVars, wire, buf, failed, rec, closer, result>>

----------------------------------------------------------------------------
(* The goroutine copying stderr into syncBuf: past the cap a chunk is      *)
(* dropped; a strict recording failure is kept for Exec to find.           *)
syncBufWrite ==
  /\ stderr # <<>> /\ stderr' = Tail(stderr)
  /\ IF Len(buf) >= maxOutputBytes THEN UNCHANGED <<buf, rec, failed>>
     ELSE \E w \in write("e", Head(stderr)) :
            /\ buf' = Append(buf, Head(stderr)) /\ rec' = w.r
            /\ failed' = (failed \/ (w.err /\ Strict))
  /\ UNCHANGED <<mu, pc, broken, channel, conn, hostVars, stdout, out, closer, result>>

----------------------------------------------------------------------------
(* The remote shell.                                                       *)
Alive == channel /\ conn

hostStart ==
  /\ Alive /\ host.cmd = 0 /\ stdin # <<>>
  /\ host' = [cmd |-> Head(stdin), outs |-> 0, errs |-> 0] /\ stdin' = Tail(stdin)
  /\ UNCHANGED <<mu, pc, broken, channel, conn, wire, buf, failed, out, rec, closer, result, emitted>>

hostOut ==
  LET chunk == <<host.cmd, host.outs + 1>>
  IN  /\ Alive /\ host.cmd # 0 /\ host.outs < MaxOut
      /\ host' = [host EXCEPT !.outs = @ + 1]
      /\ stdout' = Append(stdout, [kind |-> "line", chunk |-> chunk])
      /\ emitted' = [emitted EXCEPT ![host.cmd] = Append(@, chunk)]
      /\ UNCHANGED <<mu, pc, broken, channel, conn, stdin, stderr, buf, failed, out, rec, closer, result>>

hostErr ==
  /\ Alive /\ host.cmd # 0 /\ host.errs < MaxErr /\ ~Pty
  /\ host' = [host EXCEPT !.errs = @ + 1]
  /\ stderr' = Append(stderr, <<host.cmd, host.errs + 1>>)
  /\ UNCHANGED <<mu, pc, broken, channel, conn, stdin, stdout, buf, failed, out, rec, closer, result, emitted>>

\* The command ends and the marker line prints its exit code.
hostExit ==
  /\ Alive /\ host.cmd # 0
  /\ host' = [host EXCEPT !.cmd = 0, !.outs = 0, !.errs = 0]
  /\ \E kind \in {"marker"} \cup (IF "mangle" \in Faults THEN {"mangled"} ELSE {}) :
       stdout' = Append(stdout, [kind |-> kind, chunk |-> <<host.cmd, 0>>])
  /\ UNCHANGED <<mu, pc, broken, channel, conn, stdin, stderr, buf, failed, out, rec, closer, result, emitted>>

\* sshd hangs up the shell of a closed channel.
hostHangup ==
  /\ ~Alive /\ (host.cmd # 0 \/ stdin # <<>>)
  /\ host' = [cmd |-> 0, outs |-> 0, errs |-> 0] /\ stdin' = <<>>
  /\ UNCHANGED <<mu, pc, broken, channel, conn, wire, buf, failed, out, rec, closer, result, emitted>>

----------------------------------------------------------------------------
(* liveSession.close: the recorder, the connection, then ShellSession.Close *)
(* under the mutex.                                                        *)
closeRecorder ==
  /\ MayClose /\ closer = "none"
  /\ closer' = "transport" /\ rec' = [rec EXCEPT !.open = FALSE]
  /\ UNCHANGED <<mu, pc, broken, channel, conn, hostVars, wire, buf, failed, out, result>>

closeConn ==
  /\ closer = "transport" /\ closer' = "shell" /\ conn' = FALSE
  /\ UNCHANGED <<mu, pc, broken, channel, hostVars, wire, buf, failed, out, rec, result>>

Close ==
  /\ closer = "shell" /\ mu = Free
  /\ closer' = "done" /\ channel' = FALSE
  /\ UNCHANGED <<mu, pc, broken, conn, hostVars, wire, buf, failed, out, rec, result>>

----------------------------------------------------------------------------
Steps(c) ==
  \/ Exec(c) \/ writeInput(c) \/ sendCommand(c) \/ appendOut(c) \/ markerLine(c)
  \/ stderrOutput(c) \/ stderrRecordingFailure(c) \/ interrupt(c) \/ readInterrupted(c)

Next ==
  \/ \E c \in Cmds : Steps(c)
  \/ syncBufWrite
  \/ hostStart \/ hostOut \/ hostErr \/ hostExit \/ hostHangup
  \/ closeRecorder \/ closeConn \/ Close

Spec == Init /\ [][Next]_vars

(* Exec, the drain and close keep running, and sshd hangs up what is closed. *)
(* The remote command itself need never end; with "timeout" among the      *)
(* faults the deadline is what ends the wait.                              *)
Fairness ==
  /\ \A c \in Cmds :
       /\ SF_vars(Exec(c)) /\ WF_vars(writeInput(c)) /\ WF_vars(sendCommand(c))
       /\ WF_vars(appendOut(c)) /\ WF_vars(markerLine(c)) /\ WF_vars(stderrOutput(c))
       /\ WF_vars(stderrRecordingFailure(c)) /\ WF_vars(interrupt(c)) /\ WF_vars(readInterrupted(c))
  /\ WF_vars(syncBufWrite) /\ WF_vars(hostHangup) /\ WF_vars(closeConn) /\ SF_vars(Close)

FairSpec == Spec /\ Fairness

----------------------------------------------------------------------------
(* A result is that of its own command: all the stdout the command         *)
(* produced, nothing of another's, and its own exit code, whatever earlier *)
(* calls on the session timed out, overflowed or were cancelled.           *)
WholeOutput ==
  \A c \in Cmds : result[c].ok => result[c].out = emitted[c] /\ result[c].code = c

(* Strict recording: as long as the recording is open, a result handed out *)
(* has every chunk of its input, stdout and stderr in it, although stderr  *)
(* is recorded by another goroutine and the recording may fail or fill up  *)
(* at any point.  The input ":" is never recorded, a user's included; its  *)
(* output is.  Once liveSession.close has closed the recorder, a command   *)
(* still running goes unrecorded and may yet return its result.            *)
Recorded(kind, q) ==
  \A i \in DOMAIN q : \E j \in DOMAIN rec.events : rec.events[j] = [kind |-> kind, chunk |-> q[i]]

Input(c) == IF c \in Noops THEN <<>> ELSE << <<c, 0>> >>

StrictRecorded ==
  Strict /\ rec.open => \A c \in Cmds :
    result[c].ok => /\ Recorded("i", Input(c))
                    /\ Recorded("o", result[c].out) /\ Recorded("e", result[c].err)

(* Every call returns, also one queued behind a command that never ends,   *)
(* and a command whose Exec gave up does not keep running on the host      *)
(* (#755).                                                                 *)
ExecEnds ==
  \A c \in Cmds :
    /\ <>(pc[c] = "done")
    /\ (pc[c] = "done" /\ ~result[c].ok) ~> (host.cmd # c)
=============================================================================
