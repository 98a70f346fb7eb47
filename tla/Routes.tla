------------------------------- MODULE Routes -------------------------------
(***************************************************************************)
(* The broker's view of the hosts and the routes it dials                  *)
(* (internal/broker/engine.go, filetransfer.go, the session preflight of   *)
(* session.go, and the in-chat approval of ssh_execute in                  *)
(* internal/mcpserver/tools.go). The signer owns the host table; the       *)
(* broker holds a copy, e.hosts, that a background goroutine and every     *)
(* call may replace. A fetch is two steps, the answer of the signer and    *)
(* its installation, and a call reads the copy once per hop, with signing  *)
(* requests over the network in between, so the copy may change under a    *)
(* call that is resolving a chain of bastions.                             *)
(*                                                                         *)
(* The field `at` of a host stands for its addr, user and host_key.  The   *)
(* three seconds of hostRefreshCoalesce are the Boolean `fresh`, set by an *)
(* installation and cleared at any later time.                             *)
(*                                                                         *)
(* Definitions named Op_Variant are altered forms of Op used to show that  *)
(* the properties depend on what Op does.                                  *)
(***************************************************************************)
EXTENDS Naturals, Sequences, FiniteSets, Functions

CONSTANTS
  Names,      \* logical host names
  Addresses,  \* values of the physical data of a host
  Tables,     \* the host tables the signer may hold
  Workers,    \* calls in progress; each owns at most one session
  Poller,     \* the host-refresh goroutine
  Polling,    \* whether that goroutine runs
  Ops,        \* the operations called
  ElicitApprovals, \* whether ssh_execute asks the human in the MCP client
  FailClosed, \* audit_fail_mode = closed
  AuditFails, \* whether an audit append may fail: subset of BOOLEAN
  MaxEdits,   \* bound on changes of the signer's table
  MaxLost,    \* bound on failed background refreshes
  NoHost, NoTable, NoSession, NoAnswer

Info == [at : Addresses, jump : Names \cup {""}]
Table == [Names -> Info \cup {NoHost}]
Fetchers == Workers \cup {Poller}
Hop == [name : Names, info : Info]

ASSUME RoutesAssumption ==
  /\ Tables \subseteq Table /\ Tables # {} /\ NoTable \notin Table
  /\ "" \notin Names /\ NoHost \notin Info /\ Poller \notin Workers
  /\ Ops \subseteq {"execute", "transfer", "open", "exec"}
  /\ Polling \in BOOLEAN /\ ElicitApprovals \in BOOLEAN
  /\ FailClosed \in BOOLEAN
  /\ FALSE \in AuditFails /\ AuditFails \subseteq BOOLEAN
  /\ MaxEdits \in Nat /\ MaxLost \in Nat

VARIABLES
  table,    \* the host table of the signer
  cache,    \* e.hosts
  fresh,    \* whether lastHostRefresh is within hostRefreshCoalesce
  answered, \* per fetcher, the answer of the signer it has not installed yet
  polling,  \* whether the host-refresh goroutine is alive
  work,     \* per worker, the call it is executing
  session,  \* per worker, the session it opened: its host and dialled hops
  answer,   \* per worker, what its last one-shot call did and gave back
  edits, lost

vars == <<table, cache, fresh, answered, polling, work, session, answer,
          edits, lost>>

\* What the request of a client carries: nothing, or the answer of a human to
\* the question that the tool call before it brought back.
Replies == {"none", "declined", "approved"}

\* A call.  `approved` is opts.Approved; `gated` is whether the signer issued
\* only because of it; `records` is what the call has left in the audit log;
\* `since` are the tables the signer has had since a session command
\* began and those of the answers that were in flight at that moment.
Idle == [op |-> "none", host |-> "", pc |-> "idle", pass |-> 0, cur |-> "",
         chain |-> <<>>, hops |-> <<>>, since |-> {}, reply |-> "none",
         approved |-> FALSE, gated |-> FALSE, records |-> {}]
Steps == {"idle", "refresh", "install", "known", "walk", "hop", "sign",
          "dial", "vet", "target", "run"}
Records == {"executed", "file", "failed", "declined", "granted"}
Answer == [op : {"execute", "transfer"}, ran : BOOLEAN, gated : BOOLEAN,
           records : SUBSET Records, given : BOOLEAN, asked : Names \cup {""}]

Seqs(S) == UNION {[1 .. n -> S] : n \in 0 .. Cardinality(Names)}
Work == [op : Ops \cup {"none"}, host : Names \cup {""}, pc : Steps,
         pass : {0, 1, 2}, cur : Names \cup {""}, chain : Seqs(Names),
         hops : Seqs(Hop), since : SUBSET Tables, reply : Replies,
         approved : BOOLEAN, gated : BOOLEAN, records : SUBSET Records]

Init ==
  /\ table \in Tables /\ cache = table /\ fresh = TRUE
  /\ answered = [f \in Fetchers |-> NoTable]
  /\ polling = Polling
  /\ work = [w \in Workers |-> Idle]
  /\ session = [w \in Workers |-> NoSession]
  /\ answer = [w \in Workers |-> NoAnswer]
  /\ edits = 0 /\ lost = 0

-----------------------------------------------------------------------------
(* The signer's table and the broker's copy of it.                         *)

\* A reload of the signer changes the table its next answers are made from.
edit(t) ==
  /\ edits < MaxEdits /\ t # table
  /\ edits' = edits + 1 /\ table' = t
  /\ work' = [w \in Workers |->
                IF work[w].op # "exec" THEN work[w]
                ELSE [work[w] EXCEPT !.since = @ \cup {t}]]
  /\ UNCHANGED <<cache, fresh, answered, polling, session, answer, lost>>

\* More than hostRefreshCoalesce has passed since the last installation.
age ==
  /\ fresh /\ fresh' = FALSE
  /\ UNCHANGED <<table, cache, answered, polling, work, session, answer,
                 edits, lost>>

\* The goroutine's ticker fires and the signer answers its FetchHosts.
poll ==
  /\ polling /\ answered[Poller] = NoTable
  /\ answered' = [answered EXCEPT ![Poller] = table]
  /\ UNCHANGED <<table, cache, fresh, polling, work, session, answer, edits,
                 lost>>

pollFailed_Returns ==
  /\ polling /\ answered[Poller] = NoTable /\ lost < MaxLost
  /\ lost' = lost + 1 /\ polling' = FALSE
  /\ UNCHANGED <<table, cache, fresh, answered, work, session, answer, edits>>

\* A refresh that fails keeps the previous copy; the goroutine goes on.
pollFailed ==
  /\ polling /\ answered[Poller] = NoTable /\ lost < MaxLost
  /\ lost' = lost + 1
  /\ UNCHANGED <<table, cache, fresh, answered, polling, work, session,
                 answer, edits>>

\* The goroutine installs the answer it holds.
pollInstall ==
  /\ answered[Poller] # NoTable
  /\ cache' = answered[Poller] /\ fresh' = TRUE
  /\ answered' = [answered EXCEPT ![Poller] = NoTable]
  /\ UNCHANGED <<table, polling, work, session, answer, edits, lost>>

-----------------------------------------------------------------------------
(* Calls.  Go moves worker w on; Finish ends its call with answer a.       *)

Go(w, v) == work' = [work EXCEPT ![w] = v]
Finish(w, a) == Go(w, Idle) /\ answer' = [answer EXCEPT ![w] = a]

\* What a one-shot call that ends before its command ran answers: its error
\* record may be lost, and nothing is given back.
Unrun(v, bad) == [op |-> v.op, ran |-> FALSE, gated |-> v.gated, given |-> FALSE,
                  records |-> v.records \cup (IF bad THEN {} ELSE {"failed"}),
                  asked |-> ""]

Failed(w) ==
  \E bad \in AuditFails :
    Finish(w, IF work[w].op \in {"execute", "transfer"}
              THEN Unrun(work[w], bad) ELSE NoAnswer)

Begun(op, h, pc) ==
  [Idle EXCEPT !.op = op, !.host = h, !.pc = pc,
     !.since = IF op # "exec" THEN {}
               ELSE {table} \cup ({answered[f] : f \in Fetchers} \ {NoTable})]

\* Call v as it starts to resolve the chain of its host.
Walking(v, pass) == [v EXCEPT !.pc = "walk", !.pass = pass, !.cur = v.host,
                              !.chain = <<>>, !.hops = <<>>]

Asked(w, op, h) ==
  op = "execute" /\ answer[w] # NoAnswer /\ answer[w].asked = h

begin_Coalesced(w, op, h, reply) ==
  /\ work[w].pc = "idle" /\ op \in Ops
  /\ IF op = "exec" THEN session[w] # NoSession /\ h = session[w].host
     ELSE op = "open" => session[w] = NoSession
  /\ reply # "none" => Asked(w, op, h)
  /\ LET v == [Begun(op, h, IF fresh THEN "known" ELSE "refresh")
                 EXCEPT !.reply = reply]
     IN Go(w, IF fresh /\ op = "exec" THEN Walking(v, 1) ELSE v)
  /\ answer' = [answer EXCEPT ![w] = NoAnswer]
  /\ UNCHANGED <<table, cache, fresh, answered, polling, session, edits, lost>>

\* A call starts.  One-shot commands, file transfers and new sessions go
\* through refreshHostsForNewConnection, which trusts a fresh copy; the
\* preflight of a session command always refreshes.  A client that was asked
\* calls again with the answer.
begin(w, op, h, reply) ==
  /\ work[w].pc = "idle" /\ op \in Ops
  /\ IF op = "exec" THEN session[w] # NoSession /\ h = session[w].host
     ELSE op = "open" => session[w] = NoSession
  /\ reply # "none" => Asked(w, op, h)
  /\ Go(w, [Begun(op, h, IF fresh /\ op # "exec" THEN "known" ELSE "refresh")
             EXCEPT !.reply = reply])
  /\ answer' = [answer EXCEPT ![w] = NoAnswer]
  /\ UNCHANGED <<table, cache, fresh, answered, polling, session, edits, lost>>

\* refreshHostsNow, first half: the signer answers, or the call fails.
FetchHosts(w) ==
  /\ work[w].pc = "refresh"
  /\ \/ /\ answered' = [answered EXCEPT ![w] = table]
        /\ Go(w, [work[w] EXCEPT !.pc = "install"])
        /\ UNCHANGED answer
     \/ Failed(w) /\ UNCHANGED answered
  /\ UNCHANGED <<table, cache, fresh, polling, session, edits, lost>>

\* refreshHostsNow, second half: the answer replaces the copy.
refreshHostsNow(w) ==
  /\ work[w].pc = "install"
  /\ cache' = answered[w] /\ fresh' = TRUE
  /\ answered' = [answered EXCEPT ![w] = NoTable]
  /\ Go(w, IF work[w].op = "exec" THEN Walking(work[w], 1)
           ELSE [work[w] EXCEPT !.pc = "known"])
  /\ UNCHANGED <<table, polling, session, answer, edits, lost>>

\* Execute and OpenSession look the host up before they build the hops.
hostInfo(w) ==
  /\ work[w].pc = "known"
  /\ IF cache[work[w].host] = NoHost THEN Failed(w)
     ELSE Go(w, Walking(work[w], 1)) /\ UNCHANGED answer
  /\ UNCHANGED <<table, cache, fresh, answered, polling, session, edits, lost>>

\* Where a call goes with its chain resolved: the hops, or, on the second
\* walk of a session preflight, the authorisation of the bastions.
Walked(v) == IF v.cur # "" THEN v
             ELSE [v EXCEPT !.pc = IF v.pass = 2 THEN "vet" ELSE "hop"]

\* resolveChain, one iteration: a name met before is a cycle, an unknown
\* one an error; otherwise it goes in front and its jump is next.
resolveChain(w) ==
  /\ work[w].pc = "walk"
  /\ LET c == work[w].cur IN
     IF c \in Range(work[w].chain) \/ cache[c] = NoHost THEN Failed(w)
     ELSE /\ Go(w, Walked([work[w] EXCEPT !.chain = <<c>> \o @,
                                          !.cur = cache[c].jump]))
          /\ UNCHANGED answer
  /\ UNCHANGED <<table, cache, fresh, answered, polling, session, edits, lost>>

\* The comparison of the two connectivity signatures, which are injective in
\* the names of the route and in their data.
sameRoute(s, hops) == s.hops = hops

\* One hop of the chain is looked up again.  buildHops goes on to have it
\* signed; connectivitySignature only collects it, and after the last hop
\* the preflight compares the signatures and walks the chain once more.
hop(w) ==
  LET v == work[w]
      name == v.chain[Len(v.hops) + 1]
      read == [v EXCEPT !.hops = Append(@, [name |-> name,
                                            info |-> cache[name]])]
      whole == Len(read.hops) = Len(v.chain)
  IN  /\ v.pc = "hop"
      /\ IF \/ cache[name] = NoHost
            \/ v.op = "exec" /\ whole /\ ~sameRoute(session[w], read.hops)
         THEN Failed(w)
         ELSE /\ Go(w, IF v.op # "exec" THEN [read EXCEPT !.pc = "sign"]
                       ELSE IF whole THEN Walking(read, 2) ELSE read)
              /\ UNCHANGED answer
      /\ UNCHANGED <<table, cache, fresh, answered, polling, session, edits,
                     lost>>

\* SignIntent for the hop just read.  The signer does not know a host that
\* is not in its table; it may refuse any other for its own reasons.  For a
\* command that needs a human it issues only what is approved, which is told
\* of at the target hop.
SignIntent(w) ==
  LET v == work[w]
      target == Len(v.hops) = Len(v.chain)
  IN
  /\ v.pc = "sign"
  /\ \/ /\ table[v.hops[Len(v.hops)].name] # NoHost
        /\ \E gated \in BOOLEAN :
             /\ gated => target /\ v.approved
             /\ Go(w, [v EXCEPT !.pc = IF target THEN "dial" ELSE "hop",
                                !.gated = gated])
        /\ UNCHANGED answer
     \/ Failed(w)
  /\ UNCHANGED <<table, cache, fresh, answered, polling, session, edits, lost>>

\* Whether an append that failed stops what it was to record: with
\* audit_fail_mode = open it is logged and the caller goes on.
appendAudit(bad) == FailClosed /\ bad

\* elicitedApproval on the call that the signer wants approved: who has no
\* answer asks, a decline ends the call, and an approval is recorded before
\* the call is run again from its start, approved.
elicitedApproval(w, v, bad) ==
  \/ /\ v.reply = "none"
     /\ Finish(w, [Unrun(v, TRUE) EXCEPT !.asked = v.host])
  \/ /\ v.reply = "declined"
     /\ Finish(w, [Unrun(v, TRUE) EXCEPT
                     !.records = @ \cup (IF bad THEN {} ELSE {"declined"})])
  \/ /\ v.reply = "approved" /\ appendAudit(bad)
     /\ Finish(w, Unrun(v, TRUE))
  \/ /\ v.reply = "approved" /\ ~appendAudit(bad)
     /\ Go(w, [Begun(v.op, v.host, IF fresh THEN "known" ELSE "refresh") EXCEPT
                 !.reply = v.reply, !.approved = TRUE,
                 !.records = v.records \cup (IF bad THEN {} ELSE {"granted"})])
     /\ UNCHANGED answer

\* The signer withholds the certificate of the target until a human approves
\* (approvalError); Execute records that, and ssh_execute may ask.
registerExecute(w) ==
  LET v == work[w] IN
  /\ ElicitApprovals
  /\ v.pc = "sign" /\ v.op = "execute" /\ ~v.approved
  /\ Len(v.hops) = Len(v.chain) /\ table[v.host] # NoHost
  /\ \E bad1, bad2 \in AuditFails :
       elicitedApproval(w, [v EXCEPT !.records = @ \cup
                                (IF bad1 THEN {} ELSE {"failed"})], bad2)
  /\ UNCHANGED <<table, cache, fresh, answered, polling, session, edits, lost>>

\* OpenSession dials and keeps the connection with its signature.
OpenSession(w) ==
  /\ work[w].pc = "dial" /\ work[w].op = "open"
  /\ \/ /\ session' = [session EXCEPT ![w] = [host |-> work[w].host,
                                              hops |-> work[w].hops]]
        /\ Go(w, Idle) /\ UNCHANGED answer
     \/ Failed(w) /\ UNCHANGED session
  /\ UNCHANGED <<table, cache, fresh, answered, polling, edits, lost>>

\* What Dial and ExecOnce may come to: no connection (some hop cannot be
\* reached, refuses the certificate or shows another host key); a command
\* interrupted by its timeout or by the caller, which may have run; an exit
\* status.
Dial == {"unreachable", "connected"}
ExecOnce == {"interrupted", "success", "failure"}

Executed_Unaudited(v, bad) ==
  [op |-> v.op, ran |-> TRUE, gated |-> v.gated, given |-> TRUE,
   records |-> v.records \cup (IF bad THEN {} ELSE {"executed"}), asked |-> ""]

\* Execute withholds the output of a command whose record was not written,
\* unless audit_fail_mode is open.
Executed(v, bad) ==
  [op |-> v.op, ran |-> TRUE, gated |-> v.gated, given |-> ~appendAudit(bad),
   records |-> v.records \cup (IF bad THEN {} ELSE {"executed"}), asked |-> ""]

\* PutFile and GetFile: answer a of Execute, then an exit status that must
\* be zero (and a file within the limit), and a record of their own.
Transferred(a, result, bad) ==
  IF ~a.given \/ result = "failure" THEN [a EXCEPT !.given = FALSE]
  ELSE [a EXCEPT !.records = IF bad THEN @ ELSE @ \cup {"file"},
                 !.given = ~appendAudit(bad)]

\* Execute from the dial on, and what a transfer adds to it.
Execute(w) ==
  LET v == work[w] IN
  /\ v.pc = "dial" /\ v.op \in {"execute", "transfer"}
  /\ \E d \in Dial, result \in ExecOnce, bad1, bad2 \in AuditFails :
       Finish(w, IF d = "unreachable" THEN Unrun(v, bad1)
                 ELSE IF result = "interrupted"
                 THEN [Unrun(v, bad1) EXCEPT !.ran = TRUE]
                 ELSE IF v.op = "execute" THEN Executed(v, bad1)
                 ELSE Transferred(Executed(v, bad1), result, bad2))
  /\ UNCHANGED <<table, cache, fresh, answered, polling, session, edits, lost>>

\* authorizeSessionBastions: one preflight per bastion of the chain.
authorizeSessionBastions(w) ==
  LET v == work[w] IN
  /\ v.pc = "vet"
  /\ IF Len(v.chain) = 1
     THEN Go(w, [v EXCEPT !.pc = "target"]) /\ UNCHANGED answer
     ELSE \/ /\ table[Head(v.chain)] # NoHost
             /\ Go(w, [v EXCEPT !.chain = Tail(@)])
             /\ UNCHANGED answer
          \/ Failed(w)
  /\ UNCHANGED <<table, cache, fresh, answered, polling, session, edits, lost>>

\* The preflight of the command itself, by the signer.
authorizeSessionExec(w) ==
  /\ work[w].pc = "target"
  /\ \/ /\ table[work[w].host] # NoHost
        /\ Go(w, [work[w] EXCEPT !.pc = "run"]) /\ UNCHANGED answer
     \/ Failed(w)
  /\ UNCHANGED <<table, cache, fresh, answered, polling, session, edits, lost>>

\* The command runs on the connection of the session.
SessionExec(w) ==
  /\ work[w].pc = "run" /\ Finish(w, NoAnswer)
  /\ UNCHANGED <<table, cache, fresh, answered, polling, session, edits, lost>>

CloseSession(w) ==
  /\ work[w].pc = "idle" /\ session[w] # NoSession
  /\ session' = [session EXCEPT ![w] = NoSession]
  /\ UNCHANGED <<table, cache, fresh, answered, polling, work, answer, edits,
                 lost>>

step(w) ==
  \/ FetchHosts(w) \/ refreshHostsNow(w) \/ hostInfo(w) \/ resolveChain(w)
  \/ hop(w) \/ SignIntent(w) \/ registerExecute(w)
  \/ OpenSession(w) \/ Execute(w)
  \/ authorizeSessionBastions(w) \/ authorizeSessionExec(w) \/ SessionExec(w)

Next ==
  \/ \E t \in Tables : edit(t)
  \/ age \/ poll \/ pollFailed \/ pollInstall
  \/ \E w \in Workers :
       \/ \E op \in Ops, h \in Names, reply \in Replies : begin(w, op, h, reply)
       \/ step(w)
       \/ CloseSession(w)

Spec == Init /\ [][Next]_vars

\* Every request to the signer and every dial has a timeout, so a call that
\* has begun goes on; the ticker of the refresh goroutine fires again and
\* again, and its requests fail at most MaxLost times.
Fairness == /\ \A w \in Workers : WF_vars(step(w))
            /\ WF_vars(poll) /\ WF_vars(pollInstall)

FairSpec == Spec /\ Fairness

-----------------------------------------------------------------------------
(* Properties.                                                             *)

\* TypeOK: every variable keeps its type; a chain under construction never
\* has more hops than there are names.
TypeOK ==
  /\ table \in Tables /\ cache \in Tables
  /\ fresh \in BOOLEAN /\ polling \in BOOLEAN
  /\ answered \in [Fetchers -> Tables \cup {NoTable}]
  /\ work \in [Workers -> Work]
  /\ \A w \in Workers :
       /\ session[w] = NoSession \/ session[w] \in [host : Names,
                                                    hops : Seqs(Hop)]
       /\ answer[w] \in Answer \cup {NoAnswer}
  /\ edits \in 0 .. MaxEdits /\ lost \in 0 .. MaxLost

\* RouteSound: however the copy of the table changes while resolveChain and
\* buildHops work, what is dialled ends at the host that was asked for,
\* passes no host twice, and every hop but the first is behind the one
\* before it in some table the signer has.
DialSound(v) ==
  /\ v.hops[Len(v.hops)].name = v.host
  /\ \A i, j \in DOMAIN v.hops : v.hops[i].name = v.hops[j].name => i = j
  /\ \A i \in 2 .. Len(v.hops) :
       \E t \in Tables : /\ t[v.hops[i].name] # NoHost
                         /\ t[v.hops[i].name].jump = v.hops[i - 1].name

\* And every hop of the connection a session command runs on is as the signer
\* had it when the call began or later, or as an answer says that was on its
\* way at that moment ("so a host addr/user/host_key/jump change cannot
\* silently keep using the old connection", internal/broker/session.go:86;
\* without the answers in flight this fails).
RunBounded(w) ==
  \A i \in DOMAIN session[w].hops :
    \E t \in work[w].since : t[session[w].hops[i].name] = session[w].hops[i].info

RouteSound ==
  \A w \in Workers : /\ work[w].pc = "dial" => DialSound(work[w])
                     /\ work[w].pc = "run" => RunBounded(w)

\* OutputTraced: a one-shot call or a transfer gives back only the output of
\* what ran.  With audit_fail_mode = closed what it gives back has left all
\* its audit records, whichever append failed, and what ran only because a
\* human approved it in the chat has the record of that approval, even if the
\* record of its completion was lost ("Record the approval BEFORE acting on
\* it", internal/mcpserver/tools.go:235).  With "open" the result is
\* "return[ed] anyway" (docs/reference/config.md:22), and so is an approved
\* command run: nothing is promised of the records.
OutputTraced ==
  \A w \in Workers :
    answer[w] # NoAnswer =>
      /\ answer[w].given => answer[w].ran
      /\ FailClosed =>
           /\ answer[w].given =>
                (IF answer[w].op = "transfer" THEN {"executed", "file"}
                 ELSE {"executed"}) \subseteq answer[w].records
           /\ answer[w].ran /\ answer[w].gated => "granted" \in answer[w].records

\* Converges: once the signer's table stops changing, the broker's copy is
\* that table from some moment on, whatever old answers were in flight and
\* however often a background refresh failed before.
Converges == <>[](cache = table)
=============================================================================
