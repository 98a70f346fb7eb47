------------------------ MODULE ShellSession_proofs -------------------------
(***************************************************************************)
(* Proofs about ShellSession, for any number of commands, any output,      *)
(* limits, faults and moments of closing.                                  *)
(*                                                                         *)
(* What a command returns is what its process wrote because nothing of an  *)
(* earlier command is ever left on a channel that still carries something  *)
(* (Marked); and strict recording holds back what is not in the recording  *)
(* because each piece is recorded before it is passed on (Tape).           *)
(***************************************************************************)
EXTENDS ShellSession, TLAPS

(* The types by name, so that a step expands only those it changes.        *)
Points == {"new", "input", "send", "read", "stderr", "check", "done"}
Chunks == Seq(Chunk)
Item == [kind : {"line", "marker", "mangled"}, chunk : Chunk]
Items == Seq(Item)
Event == [kind : {"i", "o", "e"}, chunk : Chunk]
Tapes == {r \in [open : BOOLEAN, events : Seq(Event)] : Len(r.events) <= MaxEvents}
Runs == [cmd : Cmds \cup {0}, outs : 0 .. MaxOut, errs : 0 .. MaxErr]
Result == [out : Chunks, err : Chunks, code : Cmds \cup {0}, ok : BOOLEAN]

Typed ==
  /\ mu \in Cmds \cup {Free} /\ pc \in [Cmds -> Points]
  /\ broken \in BOOLEAN /\ channel \in BOOLEAN /\ conn \in BOOLEAN /\ failed \in BOOLEAN
  /\ stdin \in Seq(Cmds) /\ host \in Runs /\ stdout \in Items
  /\ stderr \in Chunks /\ buf \in Chunks /\ out \in Chunks
  /\ Len(buf) <= maxOutputBytes /\ Len(out) <= maxOutputBytes
  /\ rec \in Tapes
  /\ closer \in {"none", "transport", "shell", "done"}
  /\ result \in [Cmds -> Result] /\ emitted \in [Cmds -> Chunks]

(* The marker protocol.  While a command is being read, what was collected *)
(* and what is on the wire are, in order, the chunks its process has       *)
(* produced, and a marker can only be the last item.  While none is being  *)
(* read and the channel can still carry something, nothing of an earlier   *)
(* command is left anywhere.                                               *)
Inside == {"input", "send", "read", "stderr", "check"}

Numbered(q, c) == \A n \in DOMAIN q : q[n] = <<c, n>>

\* For command c: o has been collected, the host runs h, si and so are on
\* their way in and out, and e has been produced.
Transit(c, o, h, si, so, e) ==
  /\ Numbered(o, c)
  /\ h \in {0, c} /\ si \in {<<>>, <<c>>}
  /\ si # <<>> => h = 0 /\ so = <<>> /\ e = <<>>
  /\ \A k \in DOMAIN so :
       IF so[k].kind = "line" THEN so[k].chunk = <<c, Len(o) + k>>
       ELSE k = Len(so) /\ so[k].chunk = <<c, 0>> /\ h = 0
  /\ \/ Len(o) + Len(so) = Len(e) /\ \A k \in DOMAIN so : so[k].kind = "line"
     \/ Len(o) + Len(so) = Len(e) + 1 /\ so # <<>> /\ so[Len(so)].kind # "line"

InTransit(c) == Transit(c, out, host.cmd, stdin, stdout, emitted[c])

Quiet == stdin = <<>> /\ host.cmd = 0 /\ stdout = <<>>

Produced(c) ==
  /\ Numbered(emitted[c], c)
  /\ host.cmd = c => host.outs = Len(emitted[c])
  /\ pc[c] \in {"new", "input", "send"} => emitted[c] = <<>>

Answered(c) ==
  /\ result[c].ok => pc[c] = "done"
  /\ pc[c] \in {"stderr", "check"} \/ result[c].ok => result[c].out = emitted[c] /\ result[c].code = c

CmdInv(c) ==
  /\ pc[c] \in Inside => mu = c
  /\ Produced(c) /\ Answered(c)
  /\ pc[c] = "read" => InTransit(c)

AtRest ==
  /\ (\A c \in Cmds : pc[c] # "read") => (channel /\ conn => Quiet)
  /\ (\A c \in Cmds : pc[c] \notin {"read", "stderr", "check"}) => out = <<>>

Marked == (broken => ~channel) /\ AtRest /\ \A c \in Cmds : CmdInv(c)

ShellInv == Typed /\ Marked

(* The recording.  Strict mode lets nothing pass that is not in it.        *)
On(ev, kind, q) == \A i \in DOMAIN q : \E j \in DOMAIN ev : ev[j] = [kind |-> kind, chunk |-> q[i]]

TapeInv(c) ==
  /\ pc[c] \in {"send", "read", "stderr", "check"} \/ result[c].ok => On(rec.events, "i", Input(c))
  /\ pc[c] = "read" => On(rec.events, "o", out)
  /\ pc[c] \in {"stderr", "check"} \/ result[c].ok => On(rec.events, "o", result[c].out)
  /\ (pc[c] = "check" /\ ~failed) \/ result[c].ok => On(rec.events, "e", result[c].err)

Taped == (~failed => On(rec.events, "e", buf)) /\ \A c \in Cmds : TapeInv(c)
Tape == Strict /\ rec.open => Taped

LEMMA CmdsFacts == Cmds \subseteq Nat \ {0} /\ Free \notin Cmds /\ Free = 0
BY ShellAssumption DEF ShellAssumption, Cmds, Free

LEMMA TypedIs == (TypeOK <=> Typed) /\ (TypeOK' <=> Typed')
<1>1. TypeOK <=> Typed
  BY DEF TypeOK, Typed, Points, Chunks, Item, Items, Event, Tapes, Runs, Result
<1>2. TypeOK' <=> Typed'
  BY DEF TypeOK, Typed, Points, Chunks, Item, Items, Event, Tapes, Runs, Result
<1> QED
  BY <1>1, <1>2

(* Recorder.write appends the event, or leaves the recording as it is; of  *)
(* an open recording it then reports the failure.                          *)
LEMMA WriteFacts ==
    ASSUME rec \in Tapes, NEW kind \in {"i", "o", "e"}, NEW chunk \in Chunk, NEW w \in write(kind, chunk)
    PROVE  /\ w.r \in Tapes /\ w.r.open = rec.open /\ w.err \in BOOLEAN
           /\ \/ w.r = rec /\ (rec.open => w.err)
              \/ w.r.events = Append(rec.events, [kind |-> kind, chunk |-> chunk]) /\ ~w.err
<1>1. PICK e : e = [kind |-> kind, chunk |-> chunk]
  BY Zenon
<1>2. /\ rec \in [open : BOOLEAN, events : Seq(Event)]
      /\ Len(rec.events) <= MaxEvents /\ MaxEvents \in Nat
  BY Zenon, ShellAssumption DEF Tapes, ShellAssumption
<1>3. \/ w = [r |-> rec, err |-> FALSE] /\ ~rec.open
      \/ w = [r |-> rec, err |-> TRUE]
      \/ w = [r |-> [rec EXCEPT !.events = Append(@, e)], err |-> FALSE] /\ ~(Len(rec.events) >= MaxEvents)
  BY Zenon, <1>1 DEF write
<1>4. e \in Event
  BY Zenon, <1>1 DEF Event
<1>5. CASE w = [r |-> rec, err |-> FALSE] /\ ~rec.open
  BY <1>2, <1>5
<1>6. CASE w = [r |-> rec, err |-> TRUE]
  BY <1>2, <1>6
<1>7. CASE w = [r |-> [rec EXCEPT !.events = Append(@, e)], err |-> FALSE] /\ ~(Len(rec.events) >= MaxEvents)
  <2>0. PICK r : r = [rec EXCEPT !.events = Append(@, e)]
    BY Zenon
  <2>1. r.open = rec.open /\ r.events = Append(rec.events, e)
    BY <1>2, <2>0
  <2>2. r \in [open : BOOLEAN, events : Seq(Event)]
    BY SMTT(20), <1>2, <1>4, <2>0
  <2>3. Len(r.events) <= MaxEvents
    BY <1>2, <1>7, <2>1
  <2>4. r \in Tapes
    BY Zenon, <2>2, <2>3 DEF Tapes
  <2> QED
    BY Zenon, <1>1, <1>7, <2>0, <2>1, <2>4
<1> QED
  BY Zenon, <1>3, <1>5, <1>6, <1>7

(* The three ways Exec begins.                                             *)
LEMMA ExecCases ==
    ASSUME Typed, NEW c \in Cmds, Exec(c)
    PROVE  /\ pc[c] = "new" /\ mu = Free
           /\ \/ broken /\ Return(c) /\ noAbort /\ buf' = buf
              \/ ~broken /\ Return(c) /\ abort /\ buf' = buf
              \/ /\ ~broken /\ mu' = c /\ pc' = [pc EXCEPT ![c] = "input"]
                 /\ buf' = <<>> /\ noAbort /\ out' = out
           /\ UNCHANGED <<conn, hostVars, wire, failed, rec, closer, result>>
<1>1. broken \in BOOLEAN
  BY Zenon DEF Typed
<1>2. CASE broken
  BY <1>2 DEF Exec
<1>3. CASE ~broken /\ failed /\ Strict
  BY <1>3 DEF Exec
<1>4. CASE ~broken /\ ~(failed /\ Strict)
  BY <1>4 DEF Exec
<1> QED
  BY <1>1, <1>2, <1>3, <1>4

LEMMA OnlyTail ==
    ASSUME NEW S, NEW q \in Seq(S), q # <<>>, Len(q) = 1
    PROVE  Tail(q) = <<>>
<1>1. PICK t : t = Tail(q)
  BY Zenon
<1>2. t \in Seq(S) /\ Len(t) = 0
  BY <1>1
<1>3. t = <<>>
  BY <1>2
<1> QED
  BY Zenon, <1>1, <1>3

LEMMA TailSeq ==
    ASSUME NEW S, NEW q \in Seq(S), q # <<>>
    PROVE  Head(q) \in S /\ Tail(q) \in Seq(S)
OBVIOUS

LEMMA RunFields ==
    ASSUME NEW h \in Runs
    PROVE  /\ h.cmd \in Cmds \cup {0} /\ h.outs \in 0 .. MaxOut /\ h.errs \in 0 .. MaxErr
           /\ \A n \in 0 .. MaxOut : [h EXCEPT !.outs = n] \in Runs
           /\ \A n \in 0 .. MaxErr : [h EXCEPT !.errs = n] \in Runs
           /\ [h EXCEPT !.cmd = 0, !.outs = 0, !.errs = 0] \in Runs
<1>1. 0 \in 0 .. MaxOut /\ 0 \in 0 .. MaxErr
  BY ShellAssumption DEF ShellAssumption
<1> QED
  BY Zenon, <1>1 DEF Runs

LEMMA TypeInit == Init => Typed
<1> SUFFICES ASSUME Init PROVE Typed
  OBVIOUS
<1>1. <<>> \in Chunks /\ <<>> \in Items /\ <<>> \in Seq(Event)
  BY DEF Chunks, Items
<1>2. Pending \in Result
  BY <1>1 DEF Pending, Result
<1>3. [open |-> TRUE, events |-> <<>>] \in Tapes
  BY <1>1, ShellAssumption DEF Tapes, ShellAssumption
<1>4. [cmd |-> 0, outs |-> 0, errs |-> 0] \in Runs
  BY ShellAssumption DEF Runs, ShellAssumption
<1>5. pc \in [Cmds -> Points] /\ result \in [Cmds -> Result] /\ emitted \in [Cmds -> Chunks]
  BY <1>1, <1>2 DEF Init, Points
<1>6. /\ mu \in Cmds \cup {Free}
      /\ broken \in BOOLEAN /\ channel \in BOOLEAN /\ conn \in BOOLEAN /\ failed \in BOOLEAN
      /\ closer \in {"none", "transport", "shell", "done"}
      /\ stdin \in Seq(Cmds) /\ Len(buf) <= maxOutputBytes /\ Len(out) <= maxOutputBytes
  <2>1. mu = Free /\ broken = FALSE /\ channel = TRUE /\ conn = TRUE /\ failed = FALSE /\ closer = "none"
    BY Zenon DEF Init
  <2>2. stdin = <<>> /\ buf = <<>> /\ out = <<>> /\ maxOutputBytes \in Nat
    BY Zenon, ShellAssumption DEF Init, ShellAssumption
  <2>3. stdin \in Seq(Cmds) /\ Len(buf) <= maxOutputBytes /\ Len(out) <= maxOutputBytes
    BY <2>2
  <2>4. mu \in Cmds \cup {Free} /\ closer \in {"none", "transport", "shell", "done"}
    BY <2>1
  <2> QED
    BY Zenon, <2>1, <2>3, <2>4
<1>7. host \in Runs /\ stdout \in Items /\ stderr \in Chunks /\ buf \in Chunks /\ out \in Chunks /\ rec \in Tapes
  BY Zenon, <1>1, <1>3, <1>4 DEF Init
<1> QED
  BY Zenon, <1>5, <1>6, <1>7 DEF Typed

LEMMA TypeReturn ==
    ASSUME Typed, NEW c \in Cmds, Return(c)
    PROVE  mu' \in Cmds \cup {Free} /\ pc' \in [Cmds -> Points] /\ out' \in Chunks /\ Len(out') <= maxOutputBytes
BY ShellAssumption DEF ShellAssumption, Typed, Return, Points, Chunks

LEMMA TypeAbort ==
    ASSUME Typed, abort \/ noAbort
    PROVE  channel' \in BOOLEAN /\ broken' \in BOOLEAN
BY Zenon DEF Typed, abort, noAbort

LEMMA TypeExec ==
    ASSUME Typed, NEW c \in Cmds, Steps(c)
    PROVE  Typed'
<1> USE CmdsFacts
<1>0. <<>> \in Chunks /\ maxOutputBytes \in Nat /\ Len(<<>>) = 0
  BY ShellAssumption DEF ShellAssumption, Chunks
<1>1. CASE Exec(c)
  <2>1. CASE Return(c) /\ buf' = buf
    BY Zenon, <1>1, <2>1, ExecCases, TypeReturn, TypeAbort DEF hostVars, wire, Typed
  <2>2. CASE mu' = c /\ pc' = [pc EXCEPT ![c] = "input"] /\ buf' = <<>> /\ noAbort /\ out' = out
    <3>1. pc' \in [Cmds -> Points]
      BY <2>2 DEF Typed, Points
    <3>2. mu' \in Cmds \cup {Free} /\ buf' \in Chunks /\ out' \in Chunks /\ Len(buf') <= maxOutputBytes /\ Len(out') <= maxOutputBytes
      BY <1>0, <2>2 DEF Typed
    <3>3. channel' \in BOOLEAN /\ broken' \in BOOLEAN
      BY <2>2, TypeAbort
    <3>4. UNCHANGED <<conn, hostVars, wire, failed, rec, closer, result>>
      BY Zenon, <1>1, ExecCases
    <3> QED
      BY <3>1, <3>2, <3>3, <3>4 DEF hostVars, wire, Typed
  <2> QED
    BY <1>1, <2>1, <2>2, ExecCases
<1>2. CASE writeInput(c)
  <2>1. PICK w \in IF c \in Noops THEN {[r |-> rec, err |-> FALSE]} ELSE write("i", <<c, 0>>) :
           /\ rec' = w.r
           /\ IF w.err /\ Strict THEN Return(c) /\ abort
              ELSE pc' = [pc EXCEPT ![c] = "send"] /\ noAbort /\ UNCHANGED <<mu, out>>
    BY Zenon, <1>2 DEF writeInput
  <2>2. <<c, 0>> \in Chunk
    BY DEF Chunk
  <2>3. rec' \in Tapes
    <3>1. CASE c \in Noops
      BY <2>1, <3>1 DEF Typed
    <3>2. CASE c \notin Noops
      <4>1. w \in write("i", <<c, 0>>)
        BY Zenon, <3>2
      <4> QED
        BY Zenon, <2>1, <2>2, <4>1, WriteFacts DEF Typed
    <3> QED
      BY Zenon, <3>1, <3>2
  <2>4. /\ mu' \in Cmds \cup {Free} /\ pc' \in [Cmds -> Points] /\ out' \in Chunks /\ Len(out') <= maxOutputBytes
        /\ channel' \in BOOLEAN /\ broken' \in BOOLEAN
    <3>1. CASE Return(c) /\ abort
      BY <3>1, TypeReturn, TypeAbort
    <3>2. CASE pc' = [pc EXCEPT ![c] = "send"] /\ noAbort /\ UNCHANGED <<mu, out>>
      BY <3>2, TypeAbort DEF Typed, Points
    <3> QED
      BY <2>1, <3>1, <3>2
  <2> QED
    BY <1>2, <2>3, <2>4 DEF writeInput, hostVars, wire, Typed
<1>3. CASE sendCommand(c)
  <2>1. CASE stdin' = Append(stdin, c) /\ pc' = [pc EXCEPT ![c] = "read"] /\ UNCHANGED <<mu, out>>
    <3>1. stdin' \in Seq(Cmds) /\ pc' \in [Cmds -> Points]
      BY <2>1 DEF Typed, Points
    <3> QED
      BY <1>3, <2>1, <3>1, TypeAbort DEF sendCommand, wire, Typed
  <2>2. CASE Return(c) /\ UNCHANGED stdin
    BY Zenon, <1>3, <2>2, TypeReturn, TypeAbort DEF sendCommand, wire, Typed
  <2> QED
    BY <1>3, <2>1, <2>2 DEF sendCommand
<1>4. CASE appendOut(c)
  <2>1. Head(stdout).chunk \in Chunk /\ stdout' \in Items
    <3>1. stdout \in Seq(Item) /\ stdout # <<>> /\ stdout' = Tail(stdout)
      BY Zenon, <1>4 DEF appendOut, Typed, Items
    <3>2. Head(stdout) \in Item /\ stdout' \in Seq(Item)
      BY <3>1, TailSeq
    <3> QED
      BY <3>2 DEF Items, Item
  <2>2. CASE Return(c) /\ abort /\ UNCHANGED rec
    BY Zenon, <1>4, <2>1, <2>2, TypeReturn, TypeAbort DEF appendOut, hostVars, Typed
  <2>3. ASSUME ~(Len(out) + 1 > maxOutputBytes), NEW w \in write("o", Head(stdout).chunk), rec' = w.r,
               IF w.err /\ Strict THEN Return(c) /\ abort
               ELSE out' = Append(out, Head(stdout).chunk) /\ noAbort /\ UNCHANGED <<mu, pc>>
        PROVE  Typed'
    <3>1. rec' \in Tapes
      BY Zenon, <2>1, <2>3, WriteFacts DEF Typed
    <3>2. CASE Return(c) /\ abort
      BY SMTT(20), <1>4, <2>1, <3>1, <3>2, TypeReturn, TypeAbort DEF appendOut, hostVars, Typed
    <3>3. CASE out' = Append(out, Head(stdout).chunk) /\ noAbort /\ UNCHANGED <<mu, pc>>
      <4>1. out' \in Chunks /\ Len(out') <= maxOutputBytes
        BY <1>0, <2>1, <2>3, <3>3 DEF Typed, Chunks
      <4> QED
        BY <1>4, <2>1, <3>1, <3>3, <4>1, TypeAbort DEF appendOut, hostVars, Typed
    <3> QED
      BY <2>3, <3>2, <3>3
  <2> QED
    BY Zenon, <1>4, <2>2, <2>3 DEF appendOut
<1>5. CASE markerLine(c)
  <2>1. Head(stdout).chunk \in Chunk /\ stdout' \in Items
    <3>1. stdout \in Seq(Item) /\ stdout # <<>> /\ stdout' = Tail(stdout)
      BY Zenon, <1>5 DEF markerLine, Typed, Items
    <3>2. Head(stdout) \in Item /\ stdout' \in Seq(Item)
      BY <3>1, TailSeq
    <3> QED
      BY <3>2 DEF Items, Item
  <2>2. CASE Return(c) /\ abort /\ UNCHANGED result
    BY <1>5, <2>1, <2>2, TypeReturn, TypeAbort DEF markerLine, hostVars, Typed
  <2>3. CASE /\ pc' = [pc EXCEPT ![c] = "stderr"]
             /\ result' = [result EXCEPT ![c].out = out, ![c].code = Head(stdout).chunk[1]]
             /\ noAbort /\ UNCHANGED <<mu, out>>
    <3>1. pc' \in [Cmds -> Points]
      BY <2>3 DEF Typed, Points
    <3>2. PICK x : x = Head(stdout).chunk[1]
      BY Zenon
    <3>3. x \in Cmds
      BY <2>1, <3>2 DEF Chunk
    <3>4. result' \in [Cmds -> Result]
      BY ZenonT(30), <2>3, <3>2, <3>3 DEF Typed, Result
    <3> QED
      BY <1>5, <2>1, <2>3, <3>1, <3>4, TypeAbort DEF markerLine, hostVars, Typed
  <2> QED
    BY Zenon, <1>5, <2>2, <2>3 DEF markerLine
<1>6. CASE stderrOutput(c)
  <2>1. pc' \in [Cmds -> Points]
    BY <1>6 DEF stderrOutput, Typed, Points
  <2>2. result' \in [Cmds -> Result]
    BY ZenonT(30), <1>6 DEF stderrOutput, Typed, Result
  <2> QED
    BY <1>6, <2>1, <2>2 DEF stderrOutput, hostVars, wire, Typed
<1>7. CASE stderrRecordingFailure(c)
  <2>1. result' \in [Cmds -> Result]
    <3>1. result \in [Cmds -> Result]
      BY Zenon DEF Typed
    <3>2. CASE UNCHANGED result
      BY <3>1, <3>2
    <3>3. CASE result' = [result EXCEPT ![c].ok = TRUE]
      BY Zenon, <3>1, <3>3 DEF Result
    <3> QED
      BY <1>7, <3>2, <3>3 DEF stderrRecordingFailure
  <2>2. Return(c) /\ (abort \/ noAbort)
    BY <1>7 DEF stderrRecordingFailure
  <2> QED
    BY <1>7, <2>1, <2>2, TypeReturn, TypeAbort DEF stderrRecordingFailure, hostVars, wire, Typed
<1>8. CASE interrupt(c) \/ readInterrupted(c)
  <2>1. Return(c) /\ (abort \/ noAbort)
    BY <1>8 DEF interrupt, readInterrupted
  <2> QED
    BY Zenon, <1>8, <2>1, TypeReturn, TypeAbort DEF interrupt, readInterrupted, hostVars, wire, Typed
<1> QED
  BY Zenon, <1>1, <1>2, <1>3, <1>4, <1>5, <1>6, <1>7, <1>8 DEF Steps

LEMMA TypeRest ==
    ASSUME Typed,
           \/ syncBufWrite \/ hostStart \/ hostOut \/ hostErr \/ hostExit \/ hostHangup
           \/ closeRecorder \/ closeConn \/ Close \/ UNCHANGED vars
    PROVE  Typed'
<1> USE CmdsFacts
<1>1. CASE syncBufWrite
  <2>1. Head(stderr) \in Chunk /\ stderr' \in Chunks
    BY <1>1 DEF syncBufWrite, Typed, Chunks
  <2>2. CASE UNCHANGED <<buf, rec, failed>>
    BY <1>1, <2>1, <2>2 DEF syncBufWrite, hostVars, Typed
  <2>3. ASSUME ~(Len(buf) >= maxOutputBytes), NEW w \in write("e", Head(stderr)), rec' = w.r,
               buf' = Append(buf, Head(stderr)), failed' = (failed \/ (w.err /\ Strict))
        PROVE  Typed'
    <3>1. rec' \in Tapes
      BY Zenon, <2>1, <2>3, WriteFacts DEF Typed
    <3>2. buf' \in Chunks /\ Len(buf') <= maxOutputBytes
      BY <2>1, <2>3, ShellAssumption DEF ShellAssumption, Typed, Chunks
    <3>3. failed' \in BOOLEAN
      BY <2>3
    <3> QED
      BY <1>1, <2>1, <3>1, <3>2, <3>3 DEF syncBufWrite, hostVars, Typed
  <2> QED
    BY Zenon, <1>1, <2>2, <2>3 DEF syncBufWrite
<1>2. CASE hostStart
  <2>1. host' \in Runs /\ stdin' \in Seq(Cmds)
    BY <1>2, ShellAssumption DEF ShellAssumption, hostStart, Typed, Runs
  <2> QED
    BY <1>2, <2>1 DEF hostStart, wire, Typed
<1>3. CASE hostOut
  <2>1. PICK chunk : chunk = <<host.cmd, host.outs + 1>>
    BY Zenon
  <2>2. host.cmd \in Cmds /\ host.outs \in Nat /\ host' \in Runs
    <3>1. host \in Runs
      BY Zenon DEF Typed
    <3>2. host.cmd # 0 /\ host.outs < MaxOut /\ host' = [host EXCEPT !.outs = host.outs + 1]
      BY Zenon, <1>3 DEF hostOut
    <3>3. host.outs + 1 \in 0 .. MaxOut /\ host.outs \in Nat /\ host.cmd \in Cmds
      <4>1. host.cmd \in Cmds \cup {0} /\ host.outs \in 0 .. MaxOut /\ host.errs \in 0 .. MaxErr
        BY Zenon, <3>1, RunFields
      <4>2. MaxOut \in Nat /\ MaxErr \in Nat
        BY Zenon, ShellAssumption DEF ShellAssumption
      <4> QED
        BY <3>2, <4>1, <4>2
    <3> QED
      BY Zenon, <3>1, <3>2, <3>3, RunFields
  <2>3. chunk \in Chunk
    BY <2>1, <2>2 DEF Chunk
  <2>4. PICK e : e = [kind |-> "line", chunk |-> chunk]
    BY Zenon
  <2>5. e \in Item
    BY <2>3, <2>4 DEF Item
  <2>6. stdout' = Append(stdout, e) /\ emitted' = [emitted EXCEPT ![host.cmd] = Append(@, chunk)]
    BY <1>3, <2>1, <2>4 DEF hostOut
  <2>7. stdout' \in Items
    BY <2>5, <2>6 DEF Typed, Items
  <2>8. emitted' \in [Cmds -> Chunks]
    <3>1. emitted \in [Cmds -> Chunks]
      BY Zenon DEF Typed
    <3>2. Append(emitted[host.cmd], chunk) \in Chunks
      <4>1. emitted[host.cmd] \in Chunks
        BY Zenon, <2>2, <3>1
      <4>2. PICK q : q = emitted[host.cmd]
        BY Zenon
      <4>3. Append(q, chunk) \in Chunks
        BY <2>3, <4>1, <4>2 DEF Chunks
      <4> QED
        BY Zenon, <4>2, <4>3
    <3> QED
      BY <2>2, <2>6, <3>1, <3>2
  <2> QED
    BY SMTT(20), <1>3, <2>2, <2>7, <2>8 DEF hostOut, Typed
<1>4. CASE hostErr
  <2>1. PICK chunk : chunk = <<host.cmd, host.errs + 1>>
    BY Zenon
  <2>2. host.cmd \in Cmds /\ host.errs \in Nat /\ host' \in Runs
    <3>1. host \in Runs
      BY Zenon DEF Typed
    <3>2. host.cmd # 0 /\ host.errs < MaxErr /\ host' = [host EXCEPT !.errs = host.errs + 1]
      BY Zenon, <1>4 DEF hostErr
    <3>3. host.errs + 1 \in 0 .. MaxErr /\ host.errs \in Nat /\ host.cmd \in Cmds
      <4>1. host.cmd \in Cmds \cup {0} /\ host.outs \in 0 .. MaxOut /\ host.errs \in 0 .. MaxErr
        BY Zenon, <3>1, RunFields
      <4>2. MaxOut \in Nat /\ MaxErr \in Nat
        BY Zenon, ShellAssumption DEF ShellAssumption
      <4> QED
        BY <3>2, <4>1, <4>2
    <3> QED
      BY Zenon, <3>1, <3>2, <3>3, RunFields
  <2>3. chunk \in Chunk
    BY <2>1, <2>2 DEF Chunk
  <2>4. stderr' \in Chunks
    BY <1>4, <2>1, <2>3 DEF hostErr, Typed, Chunks
  <2> QED
    BY <1>4, <2>2, <2>4 DEF hostErr, Typed
<1>5. CASE hostExit
  <2>1. PICK kind \in {"marker", "mangled"} : stdout' = Append(stdout, [kind |-> kind, chunk |-> <<host.cmd, 0>>])
    BY <1>5 DEF hostExit
  <2>2. host.cmd \in Cmds /\ host' \in Runs
    <3>1. host \in Runs
      BY Zenon DEF Typed
    <3>2. host.cmd # 0 /\ host' = [host EXCEPT !.cmd = 0, !.outs = 0, !.errs = 0]
      BY Zenon, <1>5 DEF hostExit
    <3> QED
      BY Zenon, <3>1, <3>2, RunFields
  <2>3. PICK e : e = [kind |-> kind, chunk |-> <<host.cmd, 0>>]
    BY Zenon
  <2>4. e \in Item
    BY <2>2, <2>3 DEF Item, Chunk
  <2>5. stdout' \in Items
    BY <2>1, <2>3, <2>4 DEF Typed, Items
  <2> QED
    BY <1>5, <2>2, <2>5 DEF hostExit, Typed
<1>6. CASE hostHangup
  <2>1. host' \in Runs /\ stdin' \in Seq(Cmds)
    BY <1>6, ShellAssumption DEF ShellAssumption, hostHangup, Runs
  <2> QED
    BY <1>6, <2>1 DEF hostHangup, wire, Typed
<1>7. CASE closeRecorder
  <2>1. rec' \in Tapes
    BY Zenon, <1>7 DEF closeRecorder, Typed, Tapes
  <2> QED
    BY <1>7, <2>1 DEF closeRecorder, hostVars, wire, Typed
<1>8. CASE closeConn \/ Close
  BY Zenon, <1>8 DEF closeConn, Close, hostVars, wire, Typed
<1>9. CASE UNCHANGED vars
  BY <1>9 DEF vars, Typed
<1> QED
  BY Zenon, <1>1, <1>2, <1>3, <1>4, <1>5, <1>6, <1>7, <1>8, <1>9

-----------------------------------------------------------------------------
(* What each step of the remote shell and of the reader does to the chunks *)
(* in transit.                                                             *)
LEMMA TransitStart ==
    ASSUME NEW c
    PROVE  Transit(c, <<>>, 0, <<c>>, <<>>, <<>>)
BY DEF Transit, Numbered

LEMMA TransitRun ==
    ASSUME NEW c, NEW o, NEW h, NEW si, NEW so, NEW e, Transit(c, o, h, si, so, e), si # <<>>
    PROVE  Transit(c, o, c, <<>>, so, e) /\ e = <<>> /\ si = <<c>> /\ h = 0
<1>1. h = 0 /\ so = <<>> /\ e = <<>> /\ si = <<c>>
  BY DEF Transit
<1>2. Transit(c, o, 0, si, <<>>, <<>>)
  BY <1>1
<1>3. Transit(c, o, c, <<>>, <<>>, <<>>)
  BY <1>2 DEF Transit
<1> QED
  BY <1>1, <1>3

LEMMA TransitOut ==
    ASSUME NEW c \in Cmds, NEW o \in Chunks, NEW si, NEW so \in Items, NEW e \in Chunks,
           Transit(c, o, c, si, so, e), Numbered(e, c)
    PROVE  LET chunk == <<c, Len(e) + 1>> IN
           /\ Transit(c, o, c, si, Append(so, [kind |-> "line", chunk |-> chunk]), Append(e, chunk))
           /\ Numbered(Append(e, chunk), c) /\ Len(Append(e, chunk)) = Len(e) + 1
<1>1. PICK chunk : chunk = <<c, Len(e) + 1>>
  BY Zenon
<1>2. PICK x : x = [kind |-> "line", chunk |-> chunk]
  BY Zenon
<1>3. x.kind = "line" /\ x.chunk = chunk
  BY <1>2
<1>4. c # 0 /\ Cmds \subseteq Nat
  BY CmdsFacts
<1>5. si = <<>> /\ Numbered(o, c)
  BY <1>4 DEF Transit
<1>6. /\ Len(o) + Len(so) = Len(e)
      /\ \A k \in DOMAIN so : so[k].kind = "line" /\ so[k].chunk = <<c, Len(o) + k>>
  <2>1. \A k \in DOMAIN so : so[k].kind = "line" /\ so[k].chunk = <<c, Len(o) + k>>
    BY <1>4 DEF Transit
  <2>2. so # <<>> => Len(so) \in DOMAIN so
    BY DEF Items
  <2> QED
    BY <2>1, <2>2 DEF Transit
<1>7. PICK t : t = Append(so, x)
  BY Zenon
<1>8. /\ Len(t) = Len(so) + 1 /\ DOMAIN t = 1 .. (Len(so) + 1)
      /\ \A k \in DOMAIN t : t[k] = IF k \in DOMAIN so THEN so[k] ELSE x
  BY <1>7 DEF Items
<1>9. PICK f : f = Append(e, chunk)
  BY Zenon
<1>10. /\ Len(f) = Len(e) + 1 /\ DOMAIN f = 1 .. (Len(e) + 1) /\ DOMAIN e = 1 .. Len(e) /\ Len(e) \in Nat
       /\ \A k \in DOMAIN f : f[k] = IF k \in DOMAIN e THEN e[k] ELSE chunk
  BY <1>9 DEF Chunks
<1>11. Numbered(f, c)
  BY <1>1, <1>10 DEF Numbered
<1>12. Len(o) \in Nat /\ Len(so) \in Nat /\ DOMAIN so = 1 .. Len(so)
  BY DEF Chunks, Items
<1>13. \A k \in DOMAIN t : t[k].kind = "line" /\ t[k].chunk = <<c, Len(o) + k>>
  BY SMTT(20), <1>1, <1>3, <1>6, <1>8, <1>10, <1>12
<1>14. Len(o) + Len(t) = Len(f)
  BY <1>6, <1>8, <1>10, <1>12
<1>15. Transit(c, o, c, si, t, f)
  BY <1>5, <1>13, <1>14 DEF Transit
<1> QED
  BY <1>1, <1>2, <1>7, <1>9, <1>10, <1>11, <1>15

LEMMA TransitExit ==
    ASSUME NEW c \in Cmds, NEW o \in Chunks, NEW si, NEW so \in Items, NEW e \in Chunks,
           Transit(c, o, c, si, so, e), NEW kind \in {"marker", "mangled"}
    PROVE  Transit(c, o, 0, si, Append(so, [kind |-> kind, chunk |-> <<c, 0>>]), e)
<1>2. PICK x : x = [kind |-> kind, chunk |-> <<c, 0>>]
  BY Zenon
<1>3. x.kind # "line" /\ x.chunk = <<c, 0>>
  BY <1>2
<1>4. c # 0 /\ Cmds \subseteq Nat
  BY CmdsFacts
<1>5. si = <<>> /\ Numbered(o, c)
  BY <1>4 DEF Transit
<1>6. /\ Len(o) + Len(so) = Len(e)
      /\ \A k \in DOMAIN so : so[k].kind = "line" /\ so[k].chunk = <<c, Len(o) + k>>
  <2>1. \A k \in DOMAIN so : so[k].kind = "line" /\ so[k].chunk = <<c, Len(o) + k>>
    BY <1>4 DEF Transit
  <2>2. so # <<>> => Len(so) \in DOMAIN so
    BY DEF Items
  <2> QED
    BY <2>1, <2>2 DEF Transit
<1>7. PICK t : t = Append(so, x)
  BY Zenon
<1>8. /\ Len(t) = Len(so) + 1 /\ DOMAIN t = 1 .. (Len(so) + 1) /\ t # <<>>
      /\ \A k \in DOMAIN t : t[k] = IF k \in DOMAIN so THEN so[k] ELSE x
  BY <1>7 DEF Items
<1>12. Len(o) \in Nat /\ Len(so) \in Nat /\ DOMAIN so = 1 .. Len(so)
  BY DEF Chunks, Items
<1>13. \A k \in DOMAIN t : IF t[k].kind = "line" THEN t[k].chunk = <<c, Len(o) + k>>
                           ELSE k = Len(t) /\ t[k].chunk = <<c, 0>>
  BY <1>3, <1>6, <1>8, <1>12
<1>14. Len(o) + Len(t) = Len(e) + 1 /\ t[Len(t)].kind # "line"
  <2>1. Len(t) \in DOMAIN t /\ Len(t) \notin DOMAIN so
    BY <1>8, <1>12
  <2>2. t[Len(t)] = x
    BY <1>8, <2>1
  <2>3. Len(o) + Len(t) = Len(e) + 1
    BY <1>6, <1>8, <1>12
  <2> QED
    BY <1>3, <2>2, <2>3
<1>15. Transit(c, o, 0, si, t, e)
  BY <1>5, <1>8, <1>13, <1>14 DEF Transit
<1> QED
  BY <1>2, <1>7, <1>15

LEMMA TransitHangup ==
    ASSUME NEW c, NEW o, NEW h, NEW si, NEW so, NEW e, Transit(c, o, h, si, so, e)
    PROVE  Transit(c, o, 0, <<>>, so, e)
BY DEF Transit

LEMMA TransitTake ==
    ASSUME NEW c \in Cmds, NEW o \in Chunks, NEW h, NEW si, NEW so \in Items, NEW e \in Chunks,
           Transit(c, o, h, si, so, e), so # <<>>, Head(so).kind = "line"
    PROVE  Transit(c, Append(o, Head(so).chunk), h, si, Tail(so), e)
<1>1. /\ Len(so) \in Nat \ {0} /\ DOMAIN so = 1 .. Len(so) /\ Head(so) = so[1]
      /\ Len(o) \in Nat /\ DOMAIN o = 1 .. Len(o)
  BY DEF Items, Chunks
<1>2. Head(so).chunk = <<c, Len(o) + 1>>
  BY <1>1 DEF Transit
<1>3. PICK t : t = Tail(so)
  BY Zenon
<1>4. /\ Len(t) = Len(so) - 1 /\ DOMAIN t = 1 .. (Len(so) - 1)
      /\ \A k \in DOMAIN t : t[k] = so[k + 1] /\ k + 1 \in DOMAIN so
  BY <1>1, <1>3 DEF Items
<1>5. PICK x : x = Head(so).chunk
  BY Zenon
<1>6. PICK p : p = Append(o, x)
  BY Zenon
<1>7. /\ Len(p) = Len(o) + 1 /\ DOMAIN p = 1 .. (Len(o) + 1)
      /\ \A k \in DOMAIN p : p[k] = IF k \in DOMAIN o THEN o[k] ELSE x
  BY <1>6 DEF Chunks
<1>8. Numbered(p, c)
  BY <1>1, <1>2, <1>5, <1>7 DEF Numbered, Transit
<1>9. \A k \in DOMAIN t :
        IF t[k].kind = "line" THEN t[k].chunk = <<c, Len(p) + k>>
        ELSE k = Len(t) /\ t[k].chunk = <<c, 0>> /\ h = 0
  <2>1. \A k \in DOMAIN so :
          IF so[k].kind = "line" THEN so[k].chunk = <<c, Len(o) + k>>
          ELSE k = Len(so) /\ so[k].chunk = <<c, 0>> /\ h = 0
    BY Zenon DEF Transit
  <2> SUFFICES ASSUME NEW k \in DOMAIN t
               PROVE  IF t[k].kind = "line" THEN t[k].chunk = <<c, Len(p) + k>>
                      ELSE k = Len(t) /\ t[k].chunk = <<c, 0>> /\ h = 0
    BY Zenon
  <2>2. PICK x2 : x2 = so[k + 1]
    BY Zenon
  <2>3. t[k] = x2 /\ k + 1 \in DOMAIN so
    BY Zenon, <1>4, <2>2
  <2>4. IF x2.kind = "line" THEN x2.chunk = <<c, Len(o) + (k + 1)>>
        ELSE k + 1 = Len(so) /\ x2.chunk = <<c, 0>> /\ h = 0
    BY Zenon, <2>1, <2>2, <2>3
  <2>5. Len(o) + (k + 1) = Len(p) + k /\ (k + 1 = Len(so) => k = Len(t))
    <3>1. /\ k \in Nat /\ Len(o) \in Nat /\ Len(so) \in Nat
          /\ Len(p) = Len(o) + 1 /\ Len(t) = Len(so) - 1
      BY <1>1, <1>4, <1>7
    <3> QED
      BY SMTT(20), <3>1
  <2> QED
    BY Zenon, <2>3, <2>4, <2>5
<1>10. h \in {0, c} /\ si = <<>>
  BY DEF Transit
<1>11. \/ Len(p) + Len(t) = Len(e) /\ \A k \in DOMAIN t : t[k].kind = "line"
       \/ Len(p) + Len(t) = Len(e) + 1 /\ t # <<>> /\ t[Len(t)].kind # "line"
  <2>1. CASE Len(o) + Len(so) = Len(e) /\ \A k \in DOMAIN so : so[k].kind = "line"
    <3>1. \A k \in DOMAIN t : t[k].kind = "line"
      BY Zenon, <1>4, <2>1
    <3>2. Len(p) + Len(t) = Len(e)
      <4>1. Len(p) = Len(o) + 1 /\ Len(t) = Len(so) - 1 /\ Len(so) \in Nat /\ Len(o) \in Nat /\ Len(o) + Len(so) = Len(e)
        BY Zenon, <1>1, <1>4, <1>7, <2>1
      <4> QED
        BY <4>1
    <3> QED
      BY Zenon, <3>1, <3>2
  <2>2. CASE Len(o) + Len(so) = Len(e) + 1 /\ so # <<>> /\ so[Len(so)].kind # "line"
    <3>1. Len(so) # 1
      BY <1>1, <2>2
    <3>2. Len(t) \in DOMAIN t /\ t[Len(t)] = so[Len(so)] /\ t # <<>>
      BY <1>1, <1>4, <3>1
    <3> QED
      BY <1>1, <1>4, <1>7, <2>2, <3>2
  <2> QED
    BY <2>1, <2>2 DEF Transit
<1>12. Transit(c, p, h, si, t, e)
  BY Zenon, <1>8, <1>9, <1>10, <1>11 DEF Transit
<1> QED
  BY <1>3, <1>5, <1>6, <1>12

\* Then command c has ended: all it produced is collected.
Ended(c, o, h, si, so, e) == o = e /\ Head(so).chunk[1] = c /\ Tail(so) = <<>> /\ si = <<>> /\ h = 0

LEMMA TransitEnd ==
    ASSUME NEW c \in Cmds, NEW o \in Chunks, NEW h, NEW si, NEW so \in Items, NEW e \in Chunks,
           Transit(c, o, h, si, so, e), so # <<>>, Head(so).kind # "line", Numbered(e, c)
    PROVE  Ended(c, o, h, si, so, e)
<1>1. /\ Len(so) \in Nat \ {0} /\ DOMAIN so = 1 .. Len(so) /\ Head(so) = so[1]
      /\ Len(o) \in Nat /\ DOMAIN o = 1 .. Len(o) /\ Len(e) \in Nat /\ DOMAIN e = 1 .. Len(e)
  BY DEF Items, Chunks
<1>2. 1 = Len(so) /\ Head(so).chunk = <<c, 0>> /\ h = 0 /\ si = <<>>
  <2>1. 1 \in DOMAIN so
    BY <1>1
  <2>2. so[1].kind # "line"
    BY Zenon, <1>1
  <2>3. 1 = Len(so) /\ so[1].chunk = <<c, 0>> /\ h = 0
    BY Zenon, <2>1, <2>2 DEF Transit
  <2>4. si = <<>>
    BY Zenon DEF Transit
  <2> QED
    BY Zenon, <1>1, <2>3, <2>4
<1>3. Len(o) = Len(e)
  <2>1. 1 \in DOMAIN so /\ so[1].kind # "line"
    BY <1>1
  <2>2. Len(o) + Len(so) = Len(e) + 1
    BY Zenon, <2>1 DEF Transit
  <2>3. Len(so) = 1 /\ Len(o) \in Nat /\ Len(e) \in Nat
    BY Zenon, <1>1, <1>2
  <2> QED
    BY <2>2, <2>3
<1>4. \A n \in 1 .. Len(e) : o[n] = e[n]
  BY Zenon, <1>1, <1>3 DEF Transit, Numbered
<1>5. o = e
  BY <1>1, <1>3, <1>4 DEF Chunks
<1>6. Tail(so) = <<>>
  <2>1. Len(so) = 1 /\ so # <<>> /\ so \in Seq(Item)
    BY Zenon, <1>2 DEF Items
  <2> QED
    BY Zenon, <2>1, OnlyTail
<1>7. Head(so).chunk[1] = c
  BY <1>2
<1> QED
  BY Zenon, <1>2, <1>5, <1>6, <1>7 DEF Ended

-----------------------------------------------------------------------------
(* The steps of Exec.                                                      *)
LEMMA InitMarked == Init => Marked
<1> SUFFICES ASSUME Init PROVE Marked
  BY Zenon
<1>1. AtRest /\ (broken => ~channel)
  BY DEF Init, AtRest, Quiet
<1>2. ASSUME NEW c \in Cmds PROVE CmdInv(c)
  <2>1. pc[c] = "new" /\ emitted[c] = <<>> /\ result[c] = Pending /\ host.cmd = 0
    BY <1>2 DEF Init
  <2>2. Produced(c)
    <3>1. Numbered(<<>>, c)
      BY DEF Numbered
    <3>2. host.cmd # c
      BY <1>2, <2>1, CmdsFacts
    <3> QED
      BY Zenon, <2>1, <3>1, <3>2 DEF Produced
  <2>3. Answered(c)
    <3>1. ~result[c].ok
      BY <2>1 DEF Pending
    <3> QED
      BY <2>1, <3>1 DEF Answered
  <2> QED
    BY <2>1, <2>2, <2>3 DEF CmdInv, Inside
<1> QED
  BY Zenon, <1>1, <1>2 DEF Marked

\* Who holds the mutex is alone in Exec.
LEMMA Alone ==
    ASSUME Marked, NEW c \in Cmds, pc[c] \in Inside \/ mu = Free
    PROVE  \A d \in Cmds : d # c => pc[d] \notin Inside
<1>1. \A d \in Cmds : pc[d] \in Inside => mu = d
  BY Zenon DEF Marked, CmdInv
<1> QED
  BY Zenon, <1>1, CmdsFacts

\* A call outside Exec notices only what touches its own fields.
LEMMA OtherKept ==
    ASSUME Marked, NEW d \in Cmds, pc[d] \notin Inside, pc'[d] = pc[d], result'[d] = result[d],
           emitted'[d] = emitted[d], host'.cmd = d => host' = host
    PROVE  CmdInv(d)'
<1>1. Produced(d) /\ Answered(d)
  BY Zenon DEF Marked, CmdInv
<1>2. Produced(d)'
  BY Zenon, <1>1 DEF Produced
<1>3. Answered(d)'
  BY Zenon, <1>1 DEF Answered
<1>4. pc'[d] \notin Inside /\ pc'[d] # "read"
  BY Zenon DEF Inside
<1> QED
  BY Zenon, <1>2, <1>3, <1>4 DEF CmdInv

\* Exec leaves: either the channel is closed for good, or it carries nothing.
LEMMA ReturnMarked ==
    ASSUME ShellInv, NEW c \in Cmds, pc[c] # "done", pc[c] \in Inside \/ mu = Free, Return(c),
           UNCHANGED <<host, emitted, stdin, conn>>,
           abort \/ (noAbort /\ (~(channel /\ conn) \/ (pc[c] = "check" /\ stdout' = stdout))),
           result' = result \/ (pc[c] = "check" /\ result' = [result EXCEPT ![c].ok = TRUE])
    PROVE  Marked'
<1> USE DEF ShellInv
<1>1. pc' = [pc EXCEPT ![c] = "done"] /\ mu' = Free /\ out' = <<>> /\ pc \in [Cmds -> Points] /\ result \in [Cmds -> Result]
  BY Zenon DEF Return, Typed
<1>2. pc'[c] = "done" /\ \A d \in Cmds : d # c => pc'[d] = pc[d] /\ result'[d] = result[d]
  BY <1>1
<1>3. \A d \in Cmds : d # c => pc[d] \notin Inside
  BY Zenon, Alone
<1>4. ASSUME NEW d \in Cmds, d # c PROVE CmdInv(d)'
  BY Zenon, <1>2, <1>3, <1>4, OtherKept
<1>5. CmdInv(c)'
  <2>1. Produced(c) /\ Answered(c)
    BY Zenon DEF Marked, CmdInv
  <2>2. Produced(c)'
    BY Zenon, <1>2, <2>1 DEF Produced
  <2>3. Answered(c)'
    <3>1. ~result[c].ok
      BY Zenon, <2>1 DEF Answered
    <3>2. CASE result' = result
      BY Zenon, <1>2, <3>1, <3>2 DEF Answered
    <3>3. CASE pc[c] = "check" /\ result' = [result EXCEPT ![c].ok = TRUE]
      <4>1. result'[c].out = result[c].out /\ result'[c].code = result[c].code
        BY <1>1, <3>3 DEF Result
      <4>2. result[c].out = emitted[c] /\ result[c].code = c
        BY Zenon, <2>1, <3>3 DEF Answered
      <4> QED
        BY Zenon, <1>2, <4>1, <4>2 DEF Answered
    <3> QED
      BY Zenon, <3>2, <3>3
  <2> QED
    BY Zenon, <1>2, <2>2, <2>3 DEF CmdInv, Inside
<1>6. AtRest'
  <2>1. channel' /\ conn' => Quiet'
    <3>1. CASE abort
      BY <3>1 DEF abort
    <3>2. CASE noAbort /\ ~(channel /\ conn)
      BY <3>2 DEF noAbort
    <3>3. CASE noAbort /\ pc[c] = "check" /\ stdout' = stdout
      <4>1. \A d \in Cmds : pc[d] # "read"
        BY Zenon, <1>3, <3>3 DEF Inside
      <4> QED
        BY <3>3, <4>1 DEF noAbort, Marked, AtRest, Quiet
    <3> QED
      BY Zenon, <3>1, <3>2, <3>3
  <2> QED
    BY Zenon, <1>1, <2>1 DEF AtRest
<1>7. broken' => ~channel'
  BY Zenon DEF abort, noAbort, Marked
<1> QED
  BY Zenon, <1>4, <1>5, <1>6, <1>7 DEF Marked

\* Exec goes on from one point inside to the next.
LEMMA GoesOn ==
    ASSUME ShellInv, NEW c \in Cmds, NEW x \in Inside, pc[c] \in Inside \/ mu = Free,
           pc' = [pc EXCEPT ![c] = x], UNCHANGED <<host, emitted>>,
           \A d \in Cmds : d # c => result'[d] = result[d]
    PROVE  /\ pc'[c] = x /\ \A d \in Cmds : d # c => pc'[d] = pc[d] /\ pc[d] \notin Inside /\ CmdInv(d)'
<1>1. pc \in [Cmds -> Points]
  BY Zenon DEF ShellInv, Typed
<1>2. pc'[c] = x /\ \A d \in Cmds : d # c => pc'[d] = pc[d]
  BY <1>1
<1>3. \A d \in Cmds : d # c => pc[d] \notin Inside
  BY Zenon, Alone DEF ShellInv
<1>4. ASSUME NEW d \in Cmds, d # c PROVE CmdInv(d)'
  BY Zenon, <1>2, <1>3, <1>4, OtherKept DEF ShellInv
<1> QED
  BY Zenon, <1>2, <1>3, <1>4

LEMMA ExecMarked ==
    ASSUME ShellInv, NEW c \in Cmds, Exec(c)
    PROVE  Marked'
<1>0. Typed /\ Marked
  BY Zenon DEF ShellInv
<1>1. pc[c] = "new" /\ mu = Free /\ UNCHANGED <<host, emitted, stdin, conn, stdout, stderr, failed, rec, closer, result>>
  BY Zenon, <1>0, ExecCases DEF hostVars, wire
<1>2. CASE broken /\ Return(c) /\ noAbort
  <2>1. ~(channel /\ conn)
    BY Zenon, <1>0, <1>2 DEF Marked
  <2> QED
    BY Zenon, <1>1, <1>2, <2>1, ReturnMarked
<1>3. CASE Return(c) /\ abort
  BY Zenon, <1>1, <1>3, ReturnMarked
<1>4. CASE mu' = c /\ pc' = [pc EXCEPT ![c] = "input"] /\ noAbort /\ out' = out
  <2>1. pc'[c] = "input" /\ \A d \in Cmds : d # c => pc'[d] = pc[d] /\ pc[d] \notin Inside /\ CmdInv(d)'
    <3>1. "input" \in Inside
      BY DEF Inside
    <3> QED
      BY Zenon, <1>1, <1>4, <3>1, GoesOn
  <2>2. CmdInv(c)'
    <3>1. Produced(c) /\ Answered(c)
      BY Zenon, <1>0 DEF Marked, CmdInv
    <3>2. Produced(c)'
      BY Zenon, <1>1, <2>1, <3>1 DEF Produced
    <3>3. ~result'[c].ok
      BY Zenon, <1>1, <3>1 DEF Answered
    <3>4. Answered(c)'
      BY Zenon, <2>1, <3>3 DEF Answered
    <3> QED
      BY Zenon, <1>4, <2>1, <3>2, <3>4 DEF CmdInv
  <2>3. AtRest'
    <3>1. \A d \in Cmds : pc[d] \notin {"read", "stderr", "check"}
      BY Zenon, <1>1, <2>1 DEF Inside
    <3>2. (channel /\ conn => Quiet) /\ out = <<>>
      BY Zenon, <1>0, <3>1 DEF Marked, AtRest
    <3>3. (channel' /\ conn' => Quiet') /\ out' = <<>>
      BY <1>1, <1>4, <3>2 DEF Quiet, noAbort
    <3> QED
      BY Zenon, <3>3 DEF AtRest
  <2>4. broken' => ~channel'
    BY <1>0, <1>4 DEF noAbort, Marked
  <2> QED
    BY Zenon, <2>1, <2>2, <2>3, <2>4 DEF Marked
<1> QED
  BY Zenon, <1>0, <1>2, <1>3, <1>4, ExecCases

LEMMA WriteInputMarked ==
    ASSUME ShellInv, NEW c \in Cmds, writeInput(c)
    PROVE  Marked'
<1>0. Typed /\ Marked
  BY Zenon DEF ShellInv
<1>1. pc[c] = "input" /\ UNCHANGED <<host, emitted, stdin, conn, stdout, result>>
  BY Zenon DEF writeInput, hostVars, wire
<1>2. pc[c] \in Inside
  BY Zenon, <1>1 DEF Inside
<1>3. CASE Return(c) /\ abort
  BY Zenon, <1>1, <1>2, <1>3, ReturnMarked
<1>4. CASE pc' = [pc EXCEPT ![c] = "send"] /\ noAbort /\ UNCHANGED <<mu, out>>
  <2>1. pc'[c] = "send" /\ \A d \in Cmds : d # c => pc'[d] = pc[d] /\ pc[d] \notin Inside /\ CmdInv(d)'
    <3>1. "send" \in Inside
      BY DEF Inside
    <3> QED
      BY Zenon, <1>1, <1>2, <1>4, <3>1, GoesOn
  <2>2. CmdInv(c)'
    <3>1. Produced(c) /\ Answered(c) /\ mu = c
      BY Zenon, <1>0, <1>2 DEF Marked, CmdInv
    <3>2. Produced(c)'
      BY Zenon, <1>1, <2>1, <3>1 DEF Produced
    <3>3. ~result'[c].ok
      BY Zenon, <1>1, <3>1 DEF Answered
    <3>4. Answered(c)'
      BY Zenon, <2>1, <3>3 DEF Answered
    <3> QED
      BY Zenon, <1>4, <2>1, <3>1, <3>2, <3>4 DEF CmdInv
  <2>3. AtRest'
    <3>1. \A d \in Cmds : pc[d] \notin {"read", "stderr", "check"}
      BY Zenon, <1>1, <2>1 DEF Inside
    <3>2. (channel /\ conn => Quiet) /\ out = <<>>
      BY Zenon, <1>0, <3>1 DEF Marked, AtRest
    <3>3. (channel' /\ conn' => Quiet') /\ out' = <<>>
      BY <1>1, <1>4, <3>2 DEF Quiet, noAbort
    <3> QED
      BY Zenon, <3>3 DEF AtRest
  <2>4. broken' => ~channel'
    BY <1>0, <1>4 DEF noAbort, Marked
  <2> QED
    BY Zenon, <2>1, <2>2, <2>3, <2>4 DEF Marked
<1> QED
  BY Zenon, <1>3, <1>4 DEF writeInput

LEMMA SendMarked ==
    ASSUME ShellInv, NEW c \in Cmds, sendCommand(c)
    PROVE  Marked'
<1>0. Typed /\ Marked
  BY Zenon DEF ShellInv
<1>1. pc[c] = "send" /\ noAbort /\ UNCHANGED <<host, emitted, conn, stdout, result>>
  BY Zenon DEF sendCommand, wire
<1>2. pc[c] \in Inside
  BY Zenon, <1>1 DEF Inside
<1>3. CASE ~(channel /\ conn) /\ Return(c) /\ UNCHANGED stdin
  BY Zenon, <1>1, <1>2, <1>3, ReturnMarked
<1>4. CASE /\ channel /\ conn /\ stdin' = Append(stdin, c)
           /\ pc' = [pc EXCEPT ![c] = "read"] /\ UNCHANGED <<mu, out>>
  <2>1. pc'[c] = "read" /\ \A d \in Cmds : d # c => pc'[d] = pc[d] /\ pc[d] \notin Inside /\ CmdInv(d)'
    <3>1. "read" \in Inside
      BY DEF Inside
    <3> QED
      BY Zenon, <1>1, <1>2, <1>4, <3>1, GoesOn
  <2>2. CmdInv(c)'
    <3>1. Produced(c) /\ Answered(c) /\ mu = c
      BY Zenon, <1>0, <1>2 DEF Marked, CmdInv
    <3>2. Produced(c)'
      BY Zenon, <1>1, <2>1, <3>1 DEF Produced
    <3>3. ~result'[c].ok
      BY Zenon, <1>1, <3>1 DEF Answered
    <3>4. Answered(c)'
      BY Zenon, <2>1, <3>3 DEF Answered
    <3>5. \A d \in Cmds : pc[d] \notin {"read", "stderr", "check"}
      BY Zenon, <1>1, <2>1 DEF Inside
    <3>6. Quiet /\ out = <<>> /\ emitted[c] = <<>>
      BY Zenon, <1>0, <1>1, <1>4, <3>1, <3>5 DEF Marked, AtRest, Produced
    <3>7. stdin' = <<c>> /\ out' = <<>> /\ host'.cmd = 0 /\ stdout' = <<>> /\ emitted'[c] = <<>>
      BY <1>1, <1>4, <3>6 DEF Quiet
    <3>8. InTransit(c)'
      BY Zenon, <3>7, TransitStart DEF InTransit
    <3> QED
      BY Zenon, <1>4, <2>1, <3>1, <3>2, <3>4, <3>8 DEF CmdInv
  <2>3. AtRest'
    BY Zenon, <2>1 DEF AtRest
  <2>4. broken' => ~channel'
    BY <1>0, <1>1 DEF noAbort, Marked
  <2> QED
    BY Zenon, <2>1, <2>2, <2>3, <2>4 DEF Marked
<1> QED
  BY Zenon, <1>3, <1>4 DEF sendCommand

LEMMA AppendOutMarked ==
    ASSUME ShellInv, NEW c \in Cmds, appendOut(c)
    PROVE  Marked'
<1>0. Typed /\ Marked
  BY Zenon DEF ShellInv
<1>1. /\ pc[c] = "read" /\ stdout # <<>> /\ Head(stdout).kind = "line" /\ stdout' = Tail(stdout)
      /\ UNCHANGED <<host, emitted, stdin, conn, result>>
  BY Zenon DEF appendOut, hostVars
<1>2. pc[c] \in Inside
  BY Zenon, <1>1 DEF Inside
<1>3. CASE Return(c) /\ abort
  BY Zenon, <1>1, <1>2, <1>3, ReturnMarked
<1>4. CASE out' = Append(out, Head(stdout).chunk) /\ noAbort /\ UNCHANGED <<mu, pc>>
  <2>0. pc' = [pc EXCEPT ![c] = "read"]
    <3>1. pc \in [Cmds -> Points]
      BY Zenon, <1>0 DEF Typed
    <3> QED
      BY <1>1, <1>4, <3>1
  <2>1. pc'[c] = "read" /\ \A d \in Cmds : d # c => pc'[d] = pc[d] /\ pc[d] \notin Inside /\ CmdInv(d)'
    <3>1. "read" \in Inside
      BY DEF Inside
    <3> QED
      BY Zenon, <1>1, <1>2, <2>0, <3>1, GoesOn
  <2>2. CmdInv(c)'
    <3>1. Produced(c) /\ Answered(c) /\ mu = c /\ InTransit(c)
      BY Zenon, <1>0, <1>1, <1>2 DEF Marked, CmdInv
    <3>2. Produced(c)'
      BY Zenon, <1>1, <2>1, <3>1 DEF Produced
    <3>3. ~result'[c].ok
      BY Zenon, <1>1, <3>1 DEF Answered
    <3>4. Answered(c)'
      BY Zenon, <2>1, <3>3 DEF Answered
    <3>5. out \in Chunks /\ stdout \in Items /\ emitted \in [Cmds -> Chunks]
      BY Zenon, <1>0 DEF Typed
    <3>6. emitted[c] \in Chunks
      BY Zenon, <3>5
    <3>7. InTransit(c)'
      BY Zenon, <1>1, <1>4, <3>1, <3>5, <3>6, TransitTake DEF InTransit
    <3> QED
      BY Zenon, <1>4, <2>1, <3>1, <3>2, <3>4, <3>7 DEF CmdInv
  <2>3. AtRest'
    BY Zenon, <2>1 DEF AtRest
  <2>4. broken' => ~channel'
    BY <1>0, <1>4 DEF noAbort, Marked
  <2> QED
    BY Zenon, <2>1, <2>2, <2>3, <2>4 DEF Marked
<1> QED
  BY Zenon, <1>3, <1>4 DEF appendOut

LEMMA MarkerLineMarked ==
    ASSUME ShellInv, NEW c \in Cmds, markerLine(c)
    PROVE  Marked'
<1>0. Typed /\ Marked
  BY Zenon DEF ShellInv
<1>1. /\ pc[c] = "read" /\ stdout # <<>> /\ Head(stdout).kind # "line" /\ stdout' = Tail(stdout)
      /\ UNCHANGED <<host, emitted, stdin, conn>>
  BY Zenon DEF markerLine, hostVars
<1>2. pc[c] \in Inside
  BY Zenon, <1>1 DEF Inside
<1>3. CASE Return(c) /\ abort /\ UNCHANGED result
  BY Zenon, <1>1, <1>2, <1>3, ReturnMarked
<1>4. CASE /\ pc' = [pc EXCEPT ![c] = "stderr"]
           /\ result' = [result EXCEPT ![c].out = out, ![c].code = Head(stdout).chunk[1]]
           /\ noAbort /\ UNCHANGED <<mu, out>>
  <2>1. PICK code : code = Head(stdout).chunk[1]
    BY Zenon
  <2>2. /\ \A d \in Cmds : d # c => result'[d] = result[d]
        /\ result'[c].out = out /\ result'[c].code = code /\ result'[c].ok = result[c].ok
    <3>1. result \in [Cmds -> Result] /\ result' = [result EXCEPT ![c].out = out, ![c].code = code]
      BY Zenon, <1>0, <1>4, <2>1 DEF Typed
    <3> QED
      BY <3>1 DEF Result
  <2>3. pc'[c] = "stderr" /\ \A d \in Cmds : d # c => pc'[d] = pc[d] /\ pc[d] \notin Inside /\ CmdInv(d)'
    <3>1. "stderr" \in Inside
      BY DEF Inside
    <3> QED
      BY Zenon, <1>1, <1>2, <1>4, <2>2, <3>1, GoesOn
  <2>4. Produced(c) /\ Answered(c) /\ mu = c /\ InTransit(c) /\ Numbered(emitted[c], c)
    BY Zenon, <1>0, <1>1, <1>2 DEF Marked, CmdInv, Produced
  <2>5. out = emitted[c] /\ code = c /\ stdout' = <<>> /\ stdin = <<>> /\ host.cmd = 0
    <3>1. out \in Chunks /\ stdout \in Items /\ emitted \in [Cmds -> Chunks]
      BY Zenon, <1>0 DEF Typed
    <3>2. emitted[c] \in Chunks
      BY Zenon, <3>1
    <3>3. Transit(c, out, host.cmd, stdin, stdout, emitted[c])
      BY Zenon, <2>4 DEF InTransit
    <3>4. out = emitted[c] /\ Head(stdout).chunk[1] = c /\ Tail(stdout) = <<>> /\ stdin = <<>> /\ host.cmd = 0
      <4>1. PICK e, h : e = emitted[c] /\ h = host.cmd /\ e \in Chunks
        BY Zenon, <3>2
      <4>2. Transit(c, out, h, stdin, stdout, e) /\ Numbered(e, c)
        BY Zenon, <2>4, <3>3, <4>1
      <4>3. stdout # <<>> /\ Head(stdout).kind # "line"
        BY Zenon, <1>1
      <4>4. Ended(c, out, h, stdin, stdout, e)
        BY Zenon, <3>1, <4>1, <4>2, <4>3, TransitEnd
      <4> QED
        BY Zenon, <4>1, <4>4 DEF Ended
    <3> QED
      BY Zenon, <1>1, <2>1, <3>4
  <2>6. CmdInv(c)'
    <3>1. Produced(c)'
      BY Zenon, <1>1, <2>3, <2>4 DEF Produced
    <3>2. ~result'[c].ok
      BY Zenon, <1>1, <2>2, <2>4 DEF Answered
    <3>3. Answered(c)'
      BY Zenon, <1>1, <2>2, <2>3, <2>5, <3>2 DEF Answered
    <3> QED
      BY Zenon, <1>4, <2>3, <2>4, <3>1, <3>3 DEF CmdInv
  <2>7. AtRest'
    <3>1. Quiet'
      BY Zenon, <1>1, <2>5 DEF Quiet
    <3> QED
      BY Zenon, <2>3, <3>1 DEF AtRest
  <2>8. broken' => ~channel'
    BY <1>0, <1>4 DEF noAbort, Marked
  <2> QED
    BY Zenon, <2>3, <2>6, <2>7, <2>8 DEF Marked
<1> QED
  BY Zenon, <1>3, <1>4 DEF markerLine

LEMMA StderrMarked ==
    ASSUME ShellInv, NEW c \in Cmds, stderrOutput(c)
    PROVE  Marked'
<1>0. Typed /\ Marked
  BY Zenon DEF ShellInv
<1>1. /\ pc[c] = "stderr" /\ pc' = [pc EXCEPT ![c] = "check"] /\ result' = [result EXCEPT ![c].err = buf]
      /\ UNCHANGED <<mu, broken, channel, conn, host, emitted, stdin, stdout, out>>
  BY Zenon DEF stderrOutput, hostVars, wire
<1>2. pc[c] \in Inside
  BY Zenon, <1>1 DEF Inside
<1>3. /\ \A d \in Cmds : d # c => result'[d] = result[d]
      /\ result'[c].out = result[c].out /\ result'[c].code = result[c].code /\ result'[c].ok = result[c].ok
  <2>1. result \in [Cmds -> Result]
    BY Zenon, <1>0 DEF Typed
  <2> QED
    BY <1>1, <2>1 DEF Result
<1>4. pc'[c] = "check" /\ \A d \in Cmds : d # c => pc'[d] = pc[d] /\ pc[d] \notin Inside /\ CmdInv(d)'
  <2>1. "check" \in Inside
    BY DEF Inside
  <2> QED
    BY Zenon, <1>1, <1>2, <1>3, <2>1, GoesOn
<1>5. CmdInv(c)'
  <2>1. Produced(c) /\ Answered(c) /\ mu = c
    BY Zenon, <1>0, <1>1, <1>2 DEF Marked, CmdInv
  <2>2. Produced(c)'
    BY Zenon, <1>1, <1>4, <2>1 DEF Produced
  <2>3. result[c].out = emitted[c] /\ result[c].code = c /\ ~result[c].ok
    BY Zenon, <1>1, <2>1 DEF Answered
  <2>4. Answered(c)'
    BY Zenon, <1>1, <1>3, <1>4, <2>3 DEF Answered
  <2> QED
    BY Zenon, <1>1, <1>4, <2>1, <2>2, <2>4 DEF CmdInv
<1>6. AtRest'
  <2>1. \A d \in Cmds : pc[d] # "read"
    BY Zenon, <1>1, <1>4 DEF Inside
  <2>2. channel /\ conn => Quiet
    BY Zenon, <1>0, <2>1 DEF Marked, AtRest
  <2>3. channel' /\ conn' => Quiet'
    BY <1>1, <2>2 DEF Quiet
  <2> QED
    BY Zenon, <1>4, <2>3 DEF AtRest
<1>7. broken' => ~channel'
  BY <1>0, <1>1 DEF Marked
<1> QED
  BY Zenon, <1>4, <1>5, <1>6, <1>7 DEF Marked

LEMMA LeaveMarked ==
    ASSUME ShellInv, NEW c \in Cmds, stderrRecordingFailure(c) \/ interrupt(c) \/ readInterrupted(c)
    PROVE  Marked'
<1>1. CASE stderrRecordingFailure(c)
  <2>1. /\ pc[c] = "check" /\ Return(c) /\ UNCHANGED <<host, emitted, stdin, conn, stdout>>
        /\ (abort /\ result' = result) \/ (noAbort /\ result' = [result EXCEPT ![c].ok = TRUE])
    BY Zenon, <1>1 DEF stderrRecordingFailure, hostVars, wire
  <2>2. pc[c] \in Inside
    BY Zenon, <2>1 DEF Inside
  <2> QED
    BY Zenon, <2>1, <2>2, ReturnMarked
<1>2. CASE interrupt(c) \/ readInterrupted(c)
  <2>1. /\ pc[c] = "read" /\ Return(c) /\ UNCHANGED <<host, emitted, stdin, conn, stdout, result>>
        /\ abort \/ (noAbort /\ ~(channel /\ conn))
    BY Zenon, <1>2 DEF interrupt, readInterrupted, hostVars, wire
  <2>2. pc[c] \in Inside
    BY Zenon, <2>1 DEF Inside
  <2> QED
    BY Zenon, <2>1, <2>2, ReturnMarked
<1> QED
  BY Zenon, <1>1, <1>2

(* The steps of the remote shell.  What it runs is what is being read.     *)
LEMMA RunsTheReader ==
    ASSUME ShellInv, Alive, stdin # <<>> \/ host.cmd # 0
    PROVE  \E c \in Cmds : pc[c] = "read" /\ InTransit(c) /\ (\A d \in Cmds : d # c => pc[d] \notin Inside)
<1>1. PICK c \in Cmds : pc[c] = "read"
  BY Zenon DEF ShellInv, Marked, AtRest, Quiet, Alive
<1>2. pc[c] \in Inside
  BY Zenon, <1>1 DEF Inside
<1>3. \A d \in Cmds : d # c => pc[d] \notin Inside
  BY Zenon, <1>2, Alone DEF ShellInv
<1>4. InTransit(c)
  BY Zenon, <1>1 DEF ShellInv, Marked, CmdInv
<1> QED
  BY Zenon, <1>1, <1>3, <1>4

\* A step of the remote shell leaves Exec where it is.
LEMMA HostMarked ==
    ASSUME ShellInv, NEW c \in Cmds, pc[c] = "read", \A d \in Cmds : d # c => pc[d] \notin Inside,
           UNCHANGED <<mu, pc, broken, channel, result>>,
           \A d \in Cmds : d # c => emitted'[d] = emitted[d] /\ (host'.cmd = d => host' = host),
           Produced(c)', InTransit(c)'
    PROVE  Marked'
<1>1. ASSUME NEW d \in Cmds, d # c PROVE CmdInv(d)'
  BY Zenon, <1>1, OtherKept DEF ShellInv
<1>2. CmdInv(c)'
  <2>1. Answered(c) /\ (pc[c] \in Inside => mu = c)
    BY Zenon DEF ShellInv, Marked, CmdInv
  <2>2. ~result[c].ok
    BY Zenon, <2>1 DEF Answered
  <2>3. Answered(c)'
    BY Zenon, <2>2 DEF Answered
  <2> QED
    BY Zenon, <2>1, <2>3 DEF CmdInv
<1>3. AtRest'
  BY Zenon DEF AtRest
<1>4. broken' => ~channel'
  BY DEF ShellInv, Marked
<1> QED
  BY Zenon, <1>1, <1>2, <1>3, <1>4 DEF Marked

LEMMA HostStepMarked ==
    ASSUME ShellInv, hostStart \/ hostOut \/ hostExit \/ hostErr
    PROVE  Marked'
<1>0. Typed /\ Marked /\ Alive /\ UNCHANGED <<mu, pc, broken, channel, conn, out, result>> /\ (stdin # <<>> \/ host.cmd # 0)
  BY Zenon DEF ShellInv, hostStart, hostOut, hostExit, hostErr
<1>1. PICK c \in Cmds : pc[c] = "read" /\ InTransit(c) /\ (\A d \in Cmds : d # c => pc[d] \notin Inside)
  BY Zenon, <1>0, RunsTheReader
<1>2. Produced(c) /\ Numbered(emitted[c], c)
  BY Zenon, <1>0 DEF Marked, CmdInv, Produced
<1>3. Transit(c, out, host.cmd, stdin, stdout, emitted[c])
  BY Zenon, <1>1 DEF InTransit
<1>4. host.cmd \in {0, c}
  BY Zenon, <1>3 DEF Transit
<1>5. /\ out \in Chunks /\ stdout \in Items /\ emitted \in [Cmds -> Chunks] /\ host \in Runs
  BY Zenon, <1>0 DEF Typed
<1>6. emitted[c] \in Chunks
  BY Zenon, <1>5
<1>7. c # 0
  BY CmdsFacts
<1>8. CASE hostStart
  <2>1. /\ host' = [cmd |-> Head(stdin), outs |-> 0, errs |-> 0] /\ stdin' = Tail(stdin) /\ stdin # <<>>
        /\ UNCHANGED <<emitted, stdout>>
    BY Zenon, <1>8 DEF hostStart, wire
  <2>2. Transit(c, out, c, <<>>, stdout, emitted[c]) /\ emitted[c] = <<>> /\ stdin = <<c>>
    BY SMTT(20), <1>3, <2>1, TransitRun
  <2>3. host'.cmd = c /\ host'.outs = 0 /\ stdin' = <<>>
    BY <2>1, <2>2
  <2>4. InTransit(c)'
    BY Zenon, <1>0, <2>1, <2>2, <2>3 DEF InTransit
  <2>5. Produced(c)'
    <3>1. Len(<<>>) = 0
      OBVIOUS
    <3>2. pc'[c] = "read"
      BY Zenon, <1>0, <1>1
    <3> QED
      BY Zenon, <1>2, <2>1, <2>2, <2>3, <3>1, <3>2 DEF Produced
  <2> QED
    BY Zenon, <1>0, <1>1, <2>1, <2>3, <2>4, <2>5, HostMarked
<1>9. CASE hostOut
  <2>1. host.cmd = c
    BY Zenon, <1>4, <1>9 DEF hostOut
  <2>2. host.outs = Len(emitted[c])
    BY Zenon, <1>2, <2>1 DEF Produced
  <2>3. PICK chunk : chunk = <<c, Len(emitted[c]) + 1>>
    BY Zenon
  <2>4. /\ stdout' = Append(stdout, [kind |-> "line", chunk |-> chunk])
        /\ emitted' = [emitted EXCEPT ![c] = Append(emitted[c], chunk)]
        /\ host' = [host EXCEPT !.outs = host.outs + 1] /\ stdin' = stdin
    BY Zenon, <1>9, <2>1, <2>2, <2>3 DEF hostOut
  <2>5. host'.cmd = c /\ host'.outs = Len(emitted[c]) + 1
    BY <1>5, <2>1, <2>2, <2>4 DEF Runs
  <2>6. emitted'[c] = Append(emitted[c], chunk) /\ \A d \in Cmds : d # c => emitted'[d] = emitted[d]
    BY <1>5, <2>4
  <2>7. /\ Transit(c, out, c, stdin, Append(stdout, [kind |-> "line", chunk |-> chunk]), Append(emitted[c], chunk))
        /\ Numbered(Append(emitted[c], chunk), c) /\ Len(Append(emitted[c], chunk)) = Len(emitted[c]) + 1
    <3>1. PICK e \in Chunks : e = emitted[c]
      BY Zenon, <1>6
    <3>2. Transit(c, out, c, stdin, stdout, e) /\ Numbered(e, c) /\ chunk = <<c, Len(e) + 1>>
      BY Zenon, <1>2, <1>3, <2>1, <2>3, <3>1
    <3>3. /\ Transit(c, out, c, stdin, Append(stdout, [kind |-> "line", chunk |-> chunk]), Append(e, chunk))
          /\ Numbered(Append(e, chunk), c) /\ Len(Append(e, chunk)) = Len(e) + 1
      BY ZenonT(30), <1>5, <3>1, <3>2, TransitOut
    <3> QED
      BY Zenon, <3>1, <3>3
  <2>8. InTransit(c)'
    BY Zenon, <1>0, <2>4, <2>5, <2>6, <2>7 DEF InTransit
  <2>9. Produced(c)'
    <3>1. pc'[c] = "read"
      BY Zenon, <1>0, <1>1
    <3> QED
      BY Zenon, <2>5, <2>6, <2>7, <3>1 DEF Produced
  <2> QED
    BY Zenon, <1>0, <1>1, <2>5, <2>6, <2>8, <2>9, HostMarked
<1>10. CASE hostExit
  <2>1. host.cmd = c
    BY Zenon, <1>4, <1>10 DEF hostExit
  <2>2. PICK kind \in {"marker", "mangled"} : stdout' = Append(stdout, [kind |-> kind, chunk |-> <<c, 0>>])
    BY SMTT(20), <1>10, <2>1 DEF hostExit
  <2>3. host' = [host EXCEPT !.cmd = 0, !.outs = 0, !.errs = 0] /\ UNCHANGED <<stdin, emitted>>
    BY Zenon, <1>10 DEF hostExit
  <2>4. host'.cmd = 0
    BY <1>5, <2>3 DEF Runs
  <2>5. Transit(c, out, 0, stdin, Append(stdout, [kind |-> kind, chunk |-> <<c, 0>>]), emitted[c])
    BY Zenon, <1>3, <1>5, <1>6, <2>1, TransitExit
  <2>6. InTransit(c)'
    BY Zenon, <1>0, <2>2, <2>3, <2>4, <2>5 DEF InTransit
  <2>7. Produced(c)'
    <3>1. pc'[c] = "read"
      BY Zenon, <1>0, <1>1
    <3> QED
      BY Zenon, <1>2, <1>7, <2>3, <2>4, <3>1 DEF Produced
  <2>8. \A d \in Cmds : host'.cmd # d
    BY <2>4, CmdsFacts
  <2> QED
    BY Zenon, <1>0, <1>1, <2>3, <2>6, <2>7, <2>8, HostMarked
<1>11. CASE hostErr
  <2>1. host.cmd = c
    BY Zenon, <1>4, <1>11 DEF hostErr
  <2>2. host' = [host EXCEPT !.errs = host.errs + 1] /\ UNCHANGED <<stdin, emitted, stdout>>
    BY Zenon, <1>11 DEF hostErr
  <2>3. host'.cmd = c /\ host'.outs = host.outs
    BY <1>5, <2>1, <2>2 DEF Runs
  <2>4. InTransit(c)'
    BY Zenon, <1>0, <1>3, <2>1, <2>2, <2>3 DEF InTransit
  <2>5. Produced(c)'
    BY Zenon, <1>0, <1>2, <2>1, <2>2, <2>3 DEF Produced
  <2> QED
    BY Zenon, <1>0, <1>1, <2>2, <2>3, <2>4, <2>5, HostMarked
<1> QED
  BY Zenon, <1>8, <1>9, <1>10, <1>11

LEMMA HangupMarked ==
    ASSUME ShellInv, hostHangup
    PROVE  Marked'
<1>0. /\ Typed /\ Marked /\ ~Alive /\ stdin' = <<>> /\ host' = [cmd |-> 0, outs |-> 0, errs |-> 0]
      /\ UNCHANGED <<mu, pc, broken, channel, conn, out, result, emitted, stdout>>
  BY Zenon DEF ShellInv, hostHangup, wire
<1>1. host'.cmd = 0
  BY <1>0
<1>2. ASSUME NEW d \in Cmds PROVE CmdInv(d)'
  <2>1. CmdInv(d) /\ host'.cmd # d
    BY <1>0, <1>1, <1>2, CmdsFacts DEF Marked
  <2>2. Produced(d)'
    BY Zenon, <1>0, <2>1 DEF CmdInv, Produced
  <2>3. Answered(d)'
    BY Zenon, <1>0, <2>1 DEF CmdInv, Answered
  <2>4. pc[d] = "read" => InTransit(d)'
    BY Zenon, <1>0, <1>1, <2>1, TransitHangup DEF CmdInv, InTransit
  <2> QED
    BY Zenon, <1>0, <2>1, <2>2, <2>3, <2>4 DEF CmdInv
<1>3. AtRest'
  BY Zenon, <1>0 DEF Marked, AtRest, Alive
<1>4. broken' => ~channel'
  BY <1>0 DEF Marked
<1> QED
  BY Zenon, <1>2, <1>3, <1>4 DEF Marked

(* The drain of stderr, and liveSession.close.                             *)
LEMMA BesideMarked ==
    ASSUME ShellInv, syncBufWrite \/ closeRecorder \/ closeConn \/ Close \/ UNCHANGED vars
    PROVE  Marked'
<1>0. /\ Marked /\ UNCHANGED <<mu, pc, broken, host, stdin, stdout, out, result, emitted>>
      /\ channel' = channel \/ channel' = FALSE
      /\ conn' = conn \/ conn' = FALSE
  BY Zenon DEF ShellInv, syncBufWrite, closeRecorder, closeConn, Close, vars, hostVars, wire
<1>1. ASSUME NEW d \in Cmds PROVE CmdInv(d)'
  <2>1. CmdInv(d)
    BY Zenon, <1>0 DEF Marked
  <2>2. Produced(d)'
    BY Zenon, <1>0, <2>1 DEF CmdInv, Produced
  <2>3. Answered(d)'
    BY Zenon, <1>0, <2>1 DEF CmdInv, Answered
  <2>4. pc[d] = "read" => InTransit(d)'
    BY Zenon, <1>0, <2>1 DEF CmdInv, InTransit
  <2> QED
    BY Zenon, <1>0, <2>1, <2>2, <2>3, <2>4 DEF CmdInv
<1>2. AtRest'
  <2>1. channel' /\ conn' => channel /\ conn
    BY Zenon, <1>0
  <2>2. Quiet => Quiet'
    BY <1>0 DEF Quiet
  <2> QED
    BY Zenon, <1>0, <2>1, <2>2 DEF Marked, AtRest
<1>3. broken' => ~channel'
  BY <1>0 DEF Marked
<1> QED
  BY Zenon, <1>1, <1>2, <1>3 DEF Marked

LEMMA ShellInvNext ==
    ASSUME ShellInv, [Next]_vars
    PROVE  ShellInv'
<1>1. CASE \E c \in Cmds : Steps(c)
  <2>1. PICK c \in Cmds : Steps(c)
    BY Zenon, <1>1
  <2>2. Marked'
    BY Zenon, <2>1, ExecMarked, WriteInputMarked, SendMarked, AppendOutMarked, MarkerLineMarked, StderrMarked, LeaveMarked
       DEF Steps
  <2>3. Typed'
    BY Zenon, <2>1, TypeExec DEF ShellInv
  <2> QED
    BY Zenon, <2>2, <2>3 DEF ShellInv
<1>2. CASE \/ syncBufWrite \/ hostStart \/ hostOut \/ hostErr \/ hostExit \/ hostHangup
           \/ closeRecorder \/ closeConn \/ Close \/ UNCHANGED vars
  <2>1. Typed'
    BY Zenon, <1>2, TypeRest DEF ShellInv
  <2>2. Marked'
    BY Zenon, <1>2, HostStepMarked, HangupMarked, BesideMarked
  <2> QED
    BY Zenon, <2>1, <2>2 DEF ShellInv
<1> QED
  BY Zenon, <1>1, <1>2 DEF Next

-----------------------------------------------------------------------------
(* The recording only grows, and in strict mode by what is handed out.     *)
Grows(ev, fv) == \A j \in DOMAIN ev : \E k \in DOMAIN fv : fv[k] = ev[j]

LEMMA OnGrows ==
    ASSUME NEW ev, NEW fv, NEW kind, NEW q, Grows(ev, fv), On(ev, kind, q)
    PROVE  On(fv, kind, q)
BY ZenonT(30) DEF On, Grows

LEMMA OnNothing ==
    ASSUME NEW ev, NEW kind
    PROVE  On(ev, kind, <<>>)
BY DEF On

LEMMA OnAppend ==
    ASSUME NEW ev, NEW kind, NEW q \in Chunks, NEW x \in Chunk, On(ev, kind, q), On(ev, kind, <<x>>)
    PROVE  On(ev, kind, Append(q, x))
<1>1. \E j \in DOMAIN ev : ev[j] = [kind |-> kind, chunk |-> x]
  <2>1. 1 \in DOMAIN <<x>> /\ <<x>>[1] = x
    OBVIOUS
  <2> QED
    BY Zenon, <2>1 DEF On
<1>2. PICK t : t = Append(q, x)
  BY Zenon
<1>3. \A i \in DOMAIN t : (i \in DOMAIN q /\ t[i] = q[i]) \/ t[i] = x
  BY <1>2 DEF Chunks
<1>4. On(ev, kind, t)
  BY Zenon, <1>1, <1>3 DEF On
<1> QED
  BY Zenon, <1>2, <1>4

LEMMA WriteTape ==
    ASSUME Typed, NEW kind \in {"i", "o", "e"}, NEW chunk \in Chunk, NEW w \in write(kind, chunk), rec' = w.r
    PROVE  /\ Grows(rec.events, rec'.events) /\ rec'.open = rec.open
           /\ rec.open /\ ~w.err => On(rec'.events, kind, <<chunk>>)
<1>1. rec \in Tapes
  BY Zenon DEF Typed
<1>2. /\ w.r.open = rec.open
      /\ \/ w.r = rec /\ (rec.open => w.err)
         \/ w.r.events = Append(rec.events, [kind |-> kind, chunk |-> chunk]) /\ ~w.err
  BY Zenon, <1>1, WriteFacts
<1>3. CASE w.r = rec /\ (rec.open => w.err)
  BY Zenon, <1>2, <1>3 DEF Grows
<1>4. CASE w.r.events = Append(rec.events, [kind |-> kind, chunk |-> chunk])
  <2>1. PICK ev, fv, e : ev = rec.events /\ fv = rec'.events /\ e = [kind |-> kind, chunk |-> chunk]
    BY Zenon
  <2>2. ev \in Seq(Event) /\ fv = Append(ev, e)
    BY Zenon, <1>1, <1>4, <2>1 DEF Tapes
  <2>3. /\ \A j \in DOMAIN ev : j \in DOMAIN fv /\ fv[j] = ev[j]
        /\ Len(fv) \in DOMAIN fv /\ fv[Len(fv)] = e
    BY <2>2
  <2>4. Grows(ev, fv)
    BY Zenon, <2>3 DEF Grows
  <2>5. On(fv, kind, <<chunk>>)
    <3>1. \A i \in DOMAIN <<chunk>> : <<chunk>>[i] = chunk
      OBVIOUS
    <3> QED
      BY Zenon, <2>1, <2>3, <3>1 DEF On
  <2> QED
    BY Zenon, <1>2, <2>1, <2>4, <2>5
<1> QED
  BY Zenon, <1>2, <1>3, <1>4

\* A call whose own state stands is as recorded as before.
LEMMA TapeKept ==
    ASSUME NEW d \in Cmds, TapeInv(d), Grows(rec.events, rec'.events), pc'[d] = pc[d], result'[d] = result[d],
           pc[d] = "read" => out' = out, ~failed' => ~failed
    PROVE  TapeInv(d)'
<1>1. PICK ev, fv, r, p : ev = rec.events /\ fv = rec'.events /\ r = result[d] /\ p = pc[d]
  BY Zenon
<1>2. \A kind, q : On(ev, kind, q) => On(fv, kind, q)
  BY Zenon, <1>1, OnGrows
<1>3. /\ p \in {"send", "read", "stderr", "check"} \/ r.ok => On(ev, "i", Input(d))
      /\ p = "read" => On(ev, "o", out)
      /\ p \in {"stderr", "check"} \/ r.ok => On(ev, "o", r.out)
      /\ (p = "check" /\ ~failed) \/ r.ok => On(ev, "e", r.err)
  BY Zenon, <1>1 DEF TapeInv
<1>4. p = "read" => On(fv, "o", out')
  BY Zenon, <1>1, <1>2, <1>3
<1>5. (p = "check" /\ ~failed') \/ r.ok => On(fv, "e", r.err)
  BY Zenon, <1>2, <1>3
<1>6. /\ p \in {"send", "read", "stderr", "check"} \/ r.ok => On(fv, "i", Input(d))
      /\ p \in {"stderr", "check"} \/ r.ok => On(fv, "o", r.out)
  BY Zenon, <1>2, <1>3
<1> QED
  BY Zenon, <1>1, <1>4, <1>5, <1>6 DEF TapeInv

LEMMA InitTape == Init => Tape
<1> SUFFICES ASSUME Init PROVE Taped
  BY Zenon DEF Tape
<1>1. On(rec.events, "e", buf)
  BY Zenon, OnNothing DEF Init
<1>2. ASSUME NEW c \in Cmds PROVE TapeInv(c)
  <2>1. pc[c] = "new" /\ ~result[c].ok
    BY <1>2 DEF Init, Pending
  <2> QED
    BY <2>1 DEF TapeInv
<1> QED
  BY Zenon, <1>1, <1>2 DEF Taped

\* The steps outside Exec.
LEMMA BesideTape ==
    ASSUME ShellInv, Tape,
           \/ syncBufWrite \/ hostStart \/ hostOut \/ hostErr \/ hostExit \/ hostHangup
           \/ closeRecorder \/ closeConn \/ Close \/ UNCHANGED vars
    PROVE  Tape'
<1> SUFFICES ASSUME Strict, rec'.open PROVE Taped'
  BY Zenon DEF Tape
<1>0. Typed /\ UNCHANGED <<pc, out, result>>
  BY Zenon DEF ShellInv, syncBufWrite, hostStart, hostOut, hostErr, hostExit, hostHangup, closeRecorder, closeConn, Close, vars
<1>1. CASE syncBufWrite
  <2>1. Head(stderr) \in Chunk
    <3>1. stderr \in Seq(Chunk) /\ stderr # <<>>
      BY Zenon, <1>0, <1>1 DEF Typed, Chunks, syncBufWrite
    <3> QED
      BY <3>1
  <2>2. CASE UNCHANGED <<buf, rec, failed>>
    <3>1. Taped /\ Grows(rec.events, rec'.events)
      BY Zenon, <2>2 DEF Tape, Grows
    <3>2. \A d \in Cmds : TapeInv(d)'
      BY Zenon, <1>0, <2>2, <3>1, TapeKept DEF Taped
    <3> QED
      BY Zenon, <2>2, <3>1, <3>2 DEF Taped
  <2>3. ASSUME NEW w \in write("e", Head(stderr)), rec' = w.r, buf' = Append(buf, Head(stderr)),
               failed' = (failed \/ (w.err /\ Strict))
        PROVE  Taped'
    <3>1. /\ Grows(rec.events, rec'.events) /\ rec'.open = rec.open
          /\ rec.open /\ ~w.err => On(rec'.events, "e", <<Head(stderr)>>)
      BY Zenon, <1>0, <2>1, <2>3, WriteTape
    <3>2. Taped /\ (~failed' => ~failed /\ ~w.err)
      BY Zenon, <2>3, <3>1 DEF Tape
    <3>3. \A d \in Cmds : TapeInv(d)'
      BY Zenon, <1>0, <3>1, <3>2, TapeKept DEF Taped
    <3>4. ASSUME ~failed' PROVE On(rec'.events, "e", buf')
      <4>1. On(rec'.events, "e", buf)
        BY Zenon, <3>1, <3>2, <3>4, OnGrows DEF Taped
      <4>2. On(rec'.events, "e", <<Head(stderr)>>)
        BY Zenon, <3>1, <3>2, <3>4
      <4>3. buf \in Chunks
        BY Zenon, <1>0 DEF Typed
      <4> QED
        BY Zenon, <2>1, <2>3, <4>1, <4>2, <4>3, OnAppend
    <3> QED
      BY Zenon, <3>3, <3>4 DEF Taped
  <2> QED
    BY Zenon, <1>1, <2>2, <2>3 DEF syncBufWrite
<1>2. CASE closeRecorder
  <2>1. rec \in Tapes /\ rec' = [rec EXCEPT !.open = FALSE]
    BY Zenon, <1>0, <1>2 DEF Typed, closeRecorder
  <2>2. ~rec'.open
    BY <2>1 DEF Tapes
  <2> QED
    BY Zenon, <2>2
<1>3. CASE UNCHANGED <<buf, rec, failed>>
  <2>1. Taped /\ Grows(rec.events, rec'.events)
    BY Zenon, <1>3 DEF Tape, Grows
  <2>2. \A d \in Cmds : TapeInv(d)'
    BY Zenon, <1>0, <1>3, <2>1, TapeKept DEF Taped
  <2> QED
    BY Zenon, <1>3, <2>1, <2>2 DEF Taped
<1> QED
  BY Zenon, <1>1, <1>2, <1>3 DEF hostStart, hostOut, hostErr, hostExit, hostHangup, closeConn, Close, vars

\* A step of the call c in Exec: the others, and the stderr captured so far.
LEMMA OthersTaped ==
    ASSUME ShellInv, Taped, NEW c \in Cmds, pc[c] \in Inside \/ mu = Free,
           \A d \in Cmds : d # c => pc'[d] = pc[d] /\ result'[d] = result[d],
           Grows(rec.events, rec'.events), failed' = failed, buf' = buf \/ buf' = <<>>
    PROVE  /\ \A d \in Cmds : d # c => TapeInv(d)'
           /\ ~failed' => On(rec'.events, "e", buf')
<1>1. \A d \in Cmds : d # c => pc[d] # "read"
  <2>1. \A d \in Cmds : d # c => pc[d] \notin Inside
    BY Zenon, Alone DEF ShellInv
  <2> QED
    BY Zenon, <2>1 DEF Inside
<1>2. ASSUME NEW d \in Cmds, d # c PROVE TapeInv(d)'
  BY Zenon, <1>1, <1>2, TapeKept DEF Taped
<1>3. ~failed' => On(rec'.events, "e", buf')
  BY ZenonT(30), OnGrows, OnNothing DEF Taped
<1> QED
  BY Zenon, <1>2, <1>3

LEMMA ReturnTaped ==
    ASSUME ShellInv, Taped, NEW c \in Cmds, pc[c] # "done", pc[c] \in Inside \/ mu = Free, Return(c),
           Grows(rec.events, rec'.events), failed' = failed, buf' = buf,
           result' = result \/ (~failed /\ pc[c] = "check" /\ result' = [result EXCEPT ![c].ok = TRUE])
    PROVE  Taped'
<1>1. pc' = [pc EXCEPT ![c] = "done"] /\ pc \in [Cmds -> Points] /\ result \in [Cmds -> Result]
  BY Zenon DEF Return, ShellInv, Typed
<1>2. pc'[c] = "done" /\ \A d \in Cmds : d # c => pc'[d] = pc[d] /\ result'[d] = result[d]
  BY <1>1
<1>3. (\A d \in Cmds : d # c => TapeInv(d)') /\ (~failed' => On(rec'.events, "e", buf'))
  BY Zenon, <1>2, OthersTaped
<1>4. ~result[c].ok
  BY Zenon DEF ShellInv, Marked, CmdInv, Answered
<1>5. TapeInv(c)'
  <2>1. CASE result' = result
    BY Zenon, <1>2, <1>4, <2>1 DEF TapeInv
  <2>2. CASE ~failed /\ pc[c] = "check" /\ result' = [result EXCEPT ![c].ok = TRUE]
    <3>1. result'[c].out = result[c].out /\ result'[c].err = result[c].err
      BY <1>1, <2>2 DEF Result
    <3>2. On(rec.events, "i", Input(c)) /\ On(rec.events, "o", result[c].out) /\ On(rec.events, "e", result[c].err)
      BY Zenon, <2>2 DEF Taped, TapeInv
    <3>3. On(rec'.events, "i", Input(c)) /\ On(rec'.events, "o", result'[c].out) /\ On(rec'.events, "e", result'[c].err)
      BY Zenon, <3>1, <3>2, OnGrows
    <3> QED
      BY Zenon, <1>2, <3>3 DEF TapeInv
  <2> QED
    BY Zenon, <2>1, <2>2
<1> QED
  BY Zenon, <1>3, <1>5 DEF Taped

LEMMA ExecTape ==
    ASSUME ShellInv, Tape, NEW c \in Cmds, Steps(c)
    PROVE  Tape'
<1> SUFFICES ASSUME Strict, rec'.open PROVE Taped'
  BY Zenon DEF Tape
<1>0. /\ Typed /\ Marked /\ pc \in [Cmds -> Points] /\ result \in [Cmds -> Result]
      /\ \A ev : Grows(ev, ev)
  BY Zenon DEF ShellInv, Typed, Grows
<1>i. \A x \in {"input", "send", "read", "stderr", "check"} : x \in Inside
  BY Zenon DEF Inside
<1>n. pc[c] # "done" => ~result[c].ok
  BY Zenon, <1>0 DEF Marked, CmdInv, Answered
<1>1. CASE Exec(c)
  <2>1. pc[c] = "new" /\ mu = Free /\ UNCHANGED <<failed, rec, result>>
    BY Zenon, <1>0, <1>1, ExecCases
  <2>2. Taped /\ Grows(rec.events, rec'.events)
    BY Zenon, <1>0, <2>1 DEF Tape
  <2>3. CASE Return(c) /\ buf' = buf
    BY Zenon, <2>1, <2>2, <2>3, ReturnTaped
  <2>4. CASE pc' = [pc EXCEPT ![c] = "input"] /\ buf' = <<>>
    <3>1. pc'[c] = "input" /\ \A d \in Cmds : d # c => pc'[d] = pc[d]
      BY <1>0, <2>4
    <3>2. (\A d \in Cmds : d # c => TapeInv(d)') /\ (~failed' => On(rec'.events, "e", buf'))
      BY Zenon, <2>1, <2>2, <2>4, <3>1, OthersTaped
    <3>3. TapeInv(c)'
      BY Zenon, <1>n, <2>1, <3>1 DEF TapeInv
    <3> QED
      BY Zenon, <3>2, <3>3 DEF Taped
  <2> QED
    BY Zenon, <1>0, <1>1, <2>3, <2>4, ExecCases
<1>2. CASE writeInput(c)
  <2>1. PICK w \in IF c \in Noops THEN {[r |-> rec, err |-> FALSE]} ELSE write("i", <<c, 0>>) :
           /\ rec' = w.r
           /\ IF w.err /\ Strict THEN Return(c) /\ abort
              ELSE pc' = [pc EXCEPT ![c] = "send"] /\ noAbort /\ UNCHANGED <<mu, out>>
    BY Zenon, <1>2 DEF writeInput
  <2>2. <<c, 0>> \in Chunk
    BY DEF Chunk
  <2>3. /\ Grows(rec.events, rec'.events) /\ rec'.open = rec.open
        /\ rec.open /\ ~w.err => On(rec'.events, "i", Input(c))
    <3>1. CASE c \in Noops
      <4>1. rec' = rec
        BY <2>1, <3>1
      <4>2. Input(c) = <<>>
        BY Zenon, <3>1 DEF Input
      <4> QED
        BY Zenon, <1>0, <4>1, <4>2, OnNothing
    <3>2. CASE c \notin Noops
      <4>1. w \in write("i", <<c, 0>>) /\ Input(c) = << <<c, 0>> >>
        BY Zenon, <3>2 DEF Input
      <4> QED
        BY Zenon, <1>0, <2>1, <2>2, <4>1, WriteTape
    <3> QED
      BY Zenon, <3>1, <3>2
  <2>4. Taped /\ pc[c] = "input" /\ pc[c] \in Inside /\ UNCHANGED <<buf, failed, result>>
    BY Zenon, <1>2, <1>i, <2>3 DEF Tape, writeInput
  <2>5. CASE Return(c)
    BY Zenon, <2>3, <2>4, <2>5, ReturnTaped
  <2>6. CASE pc' = [pc EXCEPT ![c] = "send"] /\ ~w.err
    <3>1. pc'[c] = "send" /\ \A d \in Cmds : d # c => pc'[d] = pc[d]
      BY <1>0, <2>6
    <3>2. (\A d \in Cmds : d # c => TapeInv(d)') /\ (~failed' => On(rec'.events, "e", buf'))
      BY Zenon, <2>3, <2>4, <3>1, OthersTaped
    <3>3. TapeInv(c)'
      BY Zenon, <1>n, <2>3, <2>4, <2>6, <3>1 DEF TapeInv
    <3> QED
      BY Zenon, <3>2, <3>3 DEF Taped
  <2> QED
    BY Zenon, <2>1, <2>5, <2>6
<1>3. CASE sendCommand(c)
  <2>1. pc[c] = "send" /\ pc[c] \in Inside /\ UNCHANGED <<buf, failed, rec, result>>
    BY Zenon, <1>3, <1>i DEF sendCommand
  <2>2. Taped /\ Grows(rec.events, rec'.events)
    BY Zenon, <1>0, <2>1 DEF Tape
  <2>3. CASE Return(c)
    BY Zenon, <2>1, <2>2, <2>3, ReturnTaped
  <2>4. CASE pc' = [pc EXCEPT ![c] = "read"] /\ out' = out
    <3>1. pc'[c] = "read" /\ \A d \in Cmds : d # c => pc'[d] = pc[d]
      BY <1>0, <2>4
    <3>2. (\A d \in Cmds : d # c => TapeInv(d)') /\ (~failed' => On(rec'.events, "e", buf'))
      BY Zenon, <2>1, <2>2, <3>1, OthersTaped
    <3>3. out = <<>>
      <4>1. \A d \in Cmds : d # c => pc[d] \notin Inside
        BY Zenon, <1>0, <2>1, Alone
      <4>2. \A d \in Cmds : pc[d] \notin {"read", "stderr", "check"}
        BY Zenon, <1>i, <2>1, <4>1
      <4> QED
        BY Zenon, <1>0, <4>2 DEF Marked, AtRest
    <3>4. On(rec'.events, "o", out') /\ On(rec'.events, "i", Input(c))
      <4>1. On(rec.events, "i", Input(c))
        BY Zenon, <2>1, <2>2 DEF Taped, TapeInv
      <4>2. rec' = rec /\ out' = <<>>
        BY Zenon, <2>1, <2>4, <3>3
      <4> QED
        BY Zenon, <4>1, <4>2, OnNothing
    <3>5. TapeInv(c)'
      BY Zenon, <1>n, <2>1, <3>1, <3>4 DEF TapeInv
    <3> QED
      BY Zenon, <3>2, <3>5 DEF Taped
  <2> QED
    BY Zenon, <1>3, <2>3, <2>4 DEF sendCommand
<1>4. CASE appendOut(c)
  <2>1. pc[c] = "read" /\ pc[c] \in Inside /\ UNCHANGED <<buf, failed, result>>
    BY Zenon, <1>4, <1>i DEF appendOut
  <2>2. CASE Return(c) /\ UNCHANGED rec
    <3>1. Taped /\ Grows(rec.events, rec'.events)
      BY Zenon, <1>0, <2>2 DEF Tape
    <3> QED
      BY Zenon, <2>1, <2>2, <3>1, ReturnTaped
  <2>3. ASSUME NEW w \in write("o", Head(stdout).chunk), rec' = w.r,
               IF w.err /\ Strict THEN Return(c) /\ abort
               ELSE out' = Append(out, Head(stdout).chunk) /\ noAbort /\ UNCHANGED <<mu, pc>>
        PROVE  Taped'
    <3>1. PICK x : x = Head(stdout).chunk
      BY Zenon
    <3>2. x \in Chunk
      <4>1. stdout \in Seq(Item) /\ stdout # <<>>
        BY Zenon, <1>0, <1>4 DEF appendOut, Typed, Items
      <4>2. Head(stdout) \in Item
        BY <4>1
      <4> QED
        BY <3>1, <4>2 DEF Item
    <3>3. /\ Grows(rec.events, rec'.events) /\ rec'.open = rec.open
          /\ rec.open /\ ~w.err => On(rec'.events, "o", <<x>>)
      <4>1. w \in write("o", x)
        BY Zenon, <2>3, <3>1
      <4> QED
        BY Zenon, <1>0, <2>3, <3>2, <4>1, WriteTape
    <3>4. Taped
      BY Zenon, <3>3 DEF Tape
    <3>5. CASE Return(c)
      BY Zenon, <2>1, <3>3, <3>4, <3>5, ReturnTaped
    <3>6. CASE ~w.err /\ out' = Append(out, x) /\ UNCHANGED pc
      <4>1. (\A d \in Cmds : d # c => TapeInv(d)') /\ (~failed' => On(rec'.events, "e", buf'))
        BY Zenon, <2>1, <3>3, <3>4, <3>6, OthersTaped
      <4>2. On(rec.events, "i", Input(c)) /\ On(rec.events, "o", out)
        BY Zenon, <2>1, <3>4 DEF Taped, TapeInv
      <4>3. On(rec'.events, "i", Input(c)) /\ On(rec'.events, "o", out)
        BY Zenon, <3>3, <4>2, OnGrows
      <4>4. On(rec'.events, "o", out')
        <5>1. out \in Chunks
          BY Zenon, <1>0 DEF Typed
        <5> QED
          BY Zenon, <3>2, <3>3, <3>6, <4>3, <5>1, OnAppend
      <4>5. TapeInv(c)'
        BY Zenon, <1>n, <2>1, <3>6, <4>3, <4>4 DEF TapeInv
      <4> QED
        BY Zenon, <4>1, <4>5 DEF Taped
    <3> QED
      BY Zenon, <2>3, <3>1, <3>5, <3>6
  <2> QED
    BY Zenon, <1>4, <2>2, <2>3 DEF appendOut
<1>5. CASE markerLine(c)
  <2>1. pc[c] = "read" /\ pc[c] \in Inside /\ UNCHANGED <<buf, failed, rec>>
    BY Zenon, <1>5, <1>i DEF markerLine
  <2>2. Taped /\ Grows(rec.events, rec'.events)
    BY Zenon, <1>0, <2>1 DEF Tape
  <2>3. CASE Return(c) /\ UNCHANGED result
    BY Zenon, <2>1, <2>2, <2>3, ReturnTaped
  <2>4. CASE /\ pc' = [pc EXCEPT ![c] = "stderr"]
             /\ result' = [result EXCEPT ![c].out = out, ![c].code = Head(stdout).chunk[1]]
    <3>1. PICK code : code = Head(stdout).chunk[1]
      BY Zenon
    <3>2. result' = [result EXCEPT ![c].out = out, ![c].code = code]
      BY Zenon, <2>4, <3>1
    <3>3. /\ \A d \in Cmds : d # c => result'[d] = result[d]
          /\ result'[c].out = out /\ result'[c].ok = result[c].ok
      BY <1>0, <3>2 DEF Result
    <3>4. pc'[c] = "stderr" /\ \A d \in Cmds : d # c => pc'[d] = pc[d]
      BY <1>0, <2>4
    <3>5. (\A d \in Cmds : d # c => TapeInv(d)') /\ (~failed' => On(rec'.events, "e", buf'))
      BY Zenon, <2>1, <2>2, <3>3, <3>4, OthersTaped
    <3>6. On(rec'.events, "i", Input(c)) /\ On(rec'.events, "o", out)
      BY Zenon, <2>1, <2>2 DEF Taped, TapeInv
    <3>7. TapeInv(c)'
      BY Zenon, <1>n, <2>1, <3>3, <3>4, <3>6 DEF TapeInv
    <3> QED
      BY Zenon, <3>5, <3>7 DEF Taped
  <2> QED
    BY Zenon, <1>5, <2>3, <2>4 DEF markerLine
<1>6. CASE stderrOutput(c)
  <2>1. /\ pc[c] = "stderr" /\ pc[c] \in Inside /\ UNCHANGED <<buf, failed, rec>>
        /\ pc' = [pc EXCEPT ![c] = "check"] /\ result' = [result EXCEPT ![c].err = buf]
    BY Zenon, <1>6, <1>i DEF stderrOutput
  <2>2. Taped /\ Grows(rec.events, rec'.events)
    BY Zenon, <1>0, <2>1 DEF Tape
  <2>3. /\ \A d \in Cmds : d # c => result'[d] = result[d]
        /\ result'[c].out = result[c].out /\ result'[c].ok = result[c].ok /\ result'[c].err = buf
    BY <1>0, <2>1 DEF Result
  <2>4. pc'[c] = "check" /\ \A d \in Cmds : d # c => pc'[d] = pc[d]
    BY <1>0, <2>1
  <2>5. (\A d \in Cmds : d # c => TapeInv(d)') /\ (~failed' => On(rec'.events, "e", buf'))
    BY Zenon, <2>1, <2>2, <2>3, <2>4, OthersTaped
  <2>6. On(rec'.events, "i", Input(c)) /\ On(rec'.events, "o", result'[c].out)
    BY Zenon, <2>1, <2>2, <2>3 DEF Taped, TapeInv
  <2>7. ~failed' => On(rec'.events, "e", result'[c].err)
    BY Zenon, <2>1, <2>3, <2>5
  <2>8. TapeInv(c)'
    BY Zenon, <1>n, <2>1, <2>3, <2>4, <2>6, <2>7 DEF TapeInv
  <2> QED
    BY Zenon, <2>5, <2>8 DEF Taped
<1>7. CASE stderrRecordingFailure(c) \/ interrupt(c) \/ readInterrupted(c)
  <2>1. /\ pc[c] \in {"check", "read"} /\ pc[c] \in Inside /\ Return(c) /\ UNCHANGED <<buf, failed, rec>>
        /\ result' = result \/ (~failed /\ pc[c] = "check" /\ result' = [result EXCEPT ![c].ok = TRUE])
    BY Zenon, <1>7, <1>i DEF stderrRecordingFailure, interrupt, readInterrupted
  <2>2. Taped /\ Grows(rec.events, rec'.events)
    BY Zenon, <1>0, <2>1 DEF Tape
  <2> QED
    BY Zenon, <2>1, <2>2, ReturnTaped
<1> QED
  BY Zenon, <1>1, <1>2, <1>3, <1>4, <1>5, <1>6, <1>7 DEF Steps

-----------------------------------------------------------------------------
LEMMA ShellInvariance == Spec => [](ShellInv /\ Tape)
<1>1. Init => ShellInv /\ Tape
  BY Zenon, TypeInit, InitMarked, InitTape DEF ShellInv
<1>2. ASSUME ShellInv, Tape, [Next]_vars PROVE ShellInv' /\ Tape'
  <2>1. ShellInv'
    BY Zenon, <1>2, ShellInvNext
  <2>2. Tape'
    BY Zenon, <1>2, ExecTape, BesideTape DEF Next
  <2> QED
    BY Zenon, <2>1, <2>2
<1> QED
  BY <1>1, <1>2, PTL DEF Spec

LEMMA ShellTypes == Spec => []TypeOK
<1>1. ShellInv => TypeOK
  BY Zenon, TypedIs DEF ShellInv
<1> QED
  BY <1>1, ShellInvariance, PTL

(* However Exec calls time out, overflow, are cancelled or meet a closed   *)
(* session (internal/ssh/shell.go), a result is that of its own command:   *)
(* the whole stdout of that command, nothing of another's, and its code.   *)
THEOREM WholeOutputHolds == Spec => []WholeOutput
<1>1. ShellInv => WholeOutput
  BY Zenon DEF ShellInv, Marked, CmdInv, Answered, WholeOutput
<1> QED
  BY <1>1, ShellInvariance, PTL

(* With session_recording_strict, every chunk of input, stdout and stderr  *)
(* of a result handed out while the recording is open is in the recording  *)
(* (recorder.go, syncBuf.Write and the strict checks of Exec), although a  *)
(* second goroutine records stderr and any write may fail or meet the cap. *)
THEOREM StrictRecordedHolds == Spec => []StrictRecorded
<1>1. Tape => StrictRecorded
  BY Zenon DEF Tape, Taped, TapeInv, On, StrictRecorded, Recorded
<1> QED
  BY <1>1, ShellInvariance, PTL
=============================================================================
