--------------------------- MODULE Routes_proofs ----------------------------
(***************************************************************************)
(* Proofs about Routes, for any hosts, tables, calls, edits of the         *)
(* signer's table and failures of the audit log.                           *)
(*                                                                         *)
(* A chain is linked as it is built, whatever table each of its names was  *)
(* looked up in, and the hops follow the chain.  A session command keeps   *)
(* the tables the signer has had since it began and the answers then in    *)
(* flight; once its own refresh is installed the copy is one of these,     *)
(* so every hop it reads is vouched for.                                   *)
(***************************************************************************)
EXTENDS Routes, TLAPS

(* "" by name: the jump of a host reached directly.                        *)
Nil == ""

CallT == [op : {"none", "execute", "transfer", "open", "exec"}, host : Names \cup {Nil}, pc : Steps,
          pass : {0, 1, 2}, cur : Names \cup {Nil}, chain : Seq(Names), hops : Seq(Hop),
          since : SUBSET Tables, reply : Replies, approved : BOOLEAN, gated : BOOLEAN,
          records : SUBSET Records]

RouteTypes ==
  /\ table \in Tables /\ cache \in Tables
  /\ answered \in [Fetchers -> Tables \cup {NoTable}]
  /\ work \in [Workers -> CallT]
  /\ DOMAIN session = Workers /\ DOMAIN answer = Workers

(* A chain, as resolveChain builds it from the target back.                *)
BehindIn(n, m) == \E t \in Tables : t[n] # NoHost /\ t[n].jump = m

Linked(q) ==
  /\ \A i, j \in DOMAIN q : q[i] = q[j] => i = j
  /\ \A i \in 2 .. Len(q) : BehindIn(q[i], q[i - 1])

WalkInv(v) ==
  /\ v.cur \in Names /\ v.hops = <<>> /\ Linked(v.chain)
  /\ IF v.chain = <<>> THEN v.cur = v.host
     ELSE v.chain[Len(v.chain)] = v.host /\ BehindIn(v.chain[1], v.cur)

HopsInv(v) ==
  /\ v.chain # <<>> /\ Linked(v.chain) /\ v.chain[Len(v.chain)] = v.host
  /\ Len(v.hops) <= Len(v.chain)
  /\ v.pc = "hop" => Len(v.hops) < Len(v.chain)
  /\ v.pc = "sign" => v.hops # <<>>
  /\ v.pc = "dial" => Len(v.hops) = Len(v.chain)
  /\ \A i \in DOMAIN v.hops : v.hops[i].name = v.chain[i]

(* What a session command has seen, against the tables since it began.     *)
Vouched(q, since) == \A i \in DOMAIN q : \E t \in since : t[q[i].name] = q[i].info

Vetting(v) == (v.pc = "walk" /\ v.pass = 2) \/ v.pc \in {"vet", "target", "run"}

Own(v, q) ==
  /\ v.pc \in {"refresh", "install", "known"} => v.host \in Names
  /\ v.pc \in {"known", "sign", "dial"} => v.op # "exec"
  /\ v.pc = "walk" => WalkInv(v)
  /\ v.pc \in {"hop", "sign", "dial"} => HopsInv(v)
  /\ v.pc = "vet" => v.chain # <<>>
  /\ v.pc = "hop" /\ v.op = "exec" => Vouched(v.hops, v.since)
  /\ Vetting(v) => v.op = "exec" /\ Vouched(q, v.since)

Env(tb, an, ca, v) ==
  /\ tb \in v.since
  /\ \A f \in Fetchers : an[f] # NoTable => an[f] \in v.since
  /\ v.pc \notin {"refresh", "install"} => ca \in v.since

RouteInv ==
  /\ RouteTypes
  /\ \A w \in Workers :
       /\ work[w].pc = "install" => answered[w] # NoTable
       /\ Own(work[w], session[w].hops)
       /\ work[w].op = "exec" => Env(table, answered, cache, work[w])

(* What an approved call carries, and what an answer may say.              *)
Approvals(v) == (FailClosed /\ v.approved => "granted" \in v.records) /\ (v.gated => v.approved)

Faithful(a) ==
  /\ a.given => a.ran
  /\ FailClosed =>
       /\ a.given => (IF a.op = "transfer" THEN {"executed", "file"} ELSE {"executed"}) \subseteq a.records
       /\ a.ran /\ a.gated => "granted" \in a.records

TraceInv == \A w \in Workers : Approvals(work[w]) /\ (answer[w] # NoAnswer => Faithful(answer[w]))

-----------------------------------------------------------------------------
(* The records of the module with "" by name.                              *)
LEMMA NilFacts ==
    /\ Nil \notin Names
    /\ Info = [at : Addresses, jump : Names \cup {Nil}]
    /\ Idle = [op |-> "none", host |-> Nil, pc |-> "idle", pass |-> 0, cur |-> Nil,
               chain |-> <<>>, hops |-> <<>>, since |-> {}, reply |-> "none",
               approved |-> FALSE, gated |-> FALSE, records |-> {}]
BY Zenon, RoutesAssumption DEF RoutesAssumption, Nil, Info, Idle

LEMMA IdleFacts ==
    /\ Idle \in CallT /\ Idle.op = "none" /\ Idle.pc = "idle" /\ Idle.approved = FALSE /\ Idle.gated = FALSE
    /\ \A q : Own(Idle, q)
<1>1. Idle \in CallT
  BY NilFacts DEF CallT, Steps, Replies
<1>2. Idle.op = "none" /\ Idle.pc = "idle" /\ Idle.approved = FALSE /\ Idle.gated = FALSE
  BY Zenon, NilFacts
<1>3. ASSUME NEW q PROVE Own(Idle, q)
  BY <1>2 DEF Own, Vetting
<1> QED
  BY Zenon, <1>1, <1>2, <1>3

LEMMA TableFacts ==
    ASSUME NEW t \in Tables, NEW n \in Names, t[n] # NoHost
    PROVE  t[n] \in Info /\ t[n].jump \in Names \cup {Nil}
<1>1. t[n] \in Info
  BY Zenon, RoutesAssumption DEF RoutesAssumption, Table
<1>2. Info = [at : Addresses, jump : Names \cup {Nil}]
  BY Zenon, NilFacts
<1> QED
  BY <1>1, <1>2

LEMMA NoTableFacts == NoTable \notin Tables
BY Zenon, RoutesAssumption DEF RoutesAssumption

(* The tables a session command vouches for: what may happen to the copy   *)
(* and to the answers in flight keeps within them.                         *)
Refreshes ==
  /\ table' = table
  /\ \/ UNCHANGED <<answered, cache>>
     \/ \E f \in Fetchers : answered' = [answered EXCEPT ![f] = table] /\ cache' = cache
     \/ \E f \in Fetchers : /\ answered[f] # NoTable
                            /\ answered' = [answered EXCEPT ![f] = NoTable] /\ cache' = answered[f]

LEMMA EnvKept ==
    ASSUME RouteTypes, Refreshes, NEW v, Env(table, answered, cache, v)
    PROVE  Env(table', answered', cache', v)
<1>1. answered \in [Fetchers -> Tables \cup {NoTable}]
  BY Zenon DEF RouteTypes
<1>2. CASE UNCHANGED <<answered, cache>>
  BY Zenon, <1>2 DEF Refreshes, Env
<1>3. CASE \E f \in Fetchers : answered' = [answered EXCEPT ![f] = table] /\ cache' = cache
  <2>1. PICK f \in Fetchers : answered' = [answered EXCEPT ![f] = table] /\ cache' = cache
    BY Zenon, <1>3
  <2>2. \A g \in Fetchers : answered'[g] = IF g = f THEN table ELSE answered[g]
    BY <1>1, <2>1
  <2> QED
    BY Zenon, <2>1, <2>2 DEF Refreshes, Env
<1>4. CASE \E f \in Fetchers : /\ answered[f] # NoTable
                               /\ answered' = [answered EXCEPT ![f] = NoTable] /\ cache' = answered[f]
  <2>1. PICK f \in Fetchers : /\ answered[f] # NoTable
                              /\ answered' = [answered EXCEPT ![f] = NoTable] /\ cache' = answered[f]
    BY Zenon, <1>4
  <2>2. \A g \in Fetchers : answered'[g] = IF g = f THEN NoTable ELSE answered[g]
    BY <1>1, <2>1
  <2> QED
    BY Zenon, <2>1, <2>2 DEF Refreshes, Env
<1> QED
  BY Zenon, <1>2, <1>3, <1>4 DEF Refreshes

LEMMA RefreshTypes ==
    ASSUME RouteTypes, Refreshes
    PROVE  table' \in Tables /\ cache' \in Tables /\ answered' \in [Fetchers -> Tables \cup {NoTable}]
<1>1. answered \in [Fetchers -> Tables \cup {NoTable}] /\ table \in Tables /\ cache \in Tables
  BY Zenon DEF RouteTypes
<1>2. \A f \in Fetchers : answered[f] # NoTable => answered[f] \in Tables
  BY Zenon, <1>1
<1> QED
  BY <1>1, <1>2 DEF Refreshes

(* A step of call w to v: what is asked of v alone.                        *)
LEMMA CallStep ==
    ASSUME RouteInv, Refreshes, NEW w \in Workers, NEW v \in CallT, Go(w, v),
           \A d \in Workers : d # w => answered'[d] = answered[d] /\ session'[d] = session[d],
           DOMAIN session' = Workers, DOMAIN answer' = Workers,
           v.pc = "install" => answered'[w] # NoTable,
           Own(v, session'[w].hops),
           v.op = "exec" => Env(table', answered', cache', v)
    PROVE  RouteInv'
<1>1. RouteTypes /\ work \in [Workers -> CallT]
  BY Zenon DEF RouteInv, RouteTypes
<1>2. work' \in [Workers -> CallT] /\ work'[w] = v /\ \A d \in Workers : d # w => work'[d] = work[d]
  BY <1>1 DEF Go
<1>3. RouteTypes'
  BY Zenon, <1>1, <1>2, RefreshTypes DEF RouteTypes
<1>4. ASSUME NEW d \in Workers
      PROVE  /\ work'[d].pc = "install" => answered'[d] # NoTable
             /\ Own(work'[d], session'[d].hops)
             /\ work'[d].op = "exec" => Env(table', answered', cache', work'[d])
  <2>1. CASE d = w
    BY Zenon, <1>2, <2>1
  <2>2. CASE d # w
    <3>1. work'[d] = work[d] /\ answered'[d] = answered[d] /\ session'[d] = session[d]
      BY Zenon, <1>2, <2>2
    <3>2. /\ work[d].pc = "install" => answered[d] # NoTable
          /\ Own(work[d], session[d].hops)
          /\ work[d].op = "exec" => Env(table, answered, cache, work[d])
      BY Zenon DEF RouteInv
    <3>3. work[d].op = "exec" => Env(table', answered', cache', work[d])
      BY Zenon, <1>1, <3>2, EnvKept
    <3> QED
      BY Zenon, <3>1, <3>2, <3>3
  <2> QED
    BY Zenon, <2>1, <2>2
<1> QED
  BY Zenon, <1>3, <1>4 DEF RouteInv

LEMMA FailedStep ==
    ASSUME RouteInv, NEW w \in Workers, Failed(w), UNCHANGED <<table, cache, answered, session>>
    PROVE  RouteInv'
<1>1. Refreshes
  BY Zenon DEF Refreshes
<1>2. PICK a : Go(w, Idle) /\ answer' = [answer EXCEPT ![w] = a]
  BY Zenon DEF Failed, Finish
<1>3. DOMAIN answer' = Workers /\ DOMAIN session' = Workers
  BY <1>2 DEF RouteInv, RouteTypes
<1>4. Idle.pc # "install" /\ Idle.op # "exec"
  BY IdleFacts
<1> QED
  BY Zenon, <1>1, <1>2, <1>3, <1>4, IdleFacts, CallStep

-----------------------------------------------------------------------------
(* Where a call starts.                                                    *)
Starts(v, op, h, pc) ==
  /\ v \in CallT /\ v.op = op /\ v.host = h /\ v.pc = pc /\ v.approved = FALSE /\ v.gated = FALSE
  /\ v.op = "exec" => Env(table, answered, cache, v)

LEMMA BegunFacts ==
    ASSUME RouteTypes, NEW op \in {"execute", "transfer", "open", "exec"}, NEW h \in Names, NEW pc \in {"known", "refresh"}, op = "exec" => pc = "refresh",
           NEW v, v = Begun(op, h, pc)
    PROVE  Starts(v, op, h, pc)
<1>1. PICK s : s = IF op # "exec" THEN {} ELSE {table} \cup ({answered[f] : f \in Fetchers} \ {NoTable})
  BY Zenon
<1>2. s \in SUBSET Tables
  <2>1. \A f \in Fetchers : answered[f] # NoTable => answered[f] \in Tables
    BY DEF RouteTypes
  <2>2. table \in Tables
    BY Zenon DEF RouteTypes
  <2> QED
    BY <1>1, <2>1, <2>2
<1>3. v = [Idle EXCEPT !.op = op, !.host = h, !.pc = pc, !.since = s]
  BY Zenon, <1>1 DEF Begun
<1>5. v.op = op /\ v.host = h /\ v.pc = pc /\ v.since = s /\ v.approved = FALSE /\ v.gated = FALSE
  BY <1>3, NilFacts
<1>6. v \in CallT
  <2>1. op \in {"none", "execute", "transfer", "open", "exec"} /\ pc \in Steps
    BY DEF Steps
  <2> QED
    BY ZenonT(30), <1>2, <1>3, <2>1, IdleFacts DEF CallT
<1>7. ASSUME op = "exec" PROVE Env(table, answered, cache, v)
  <2>1. s = {table} \cup ({answered[f] : f \in Fetchers} \ {NoTable}) /\ v.pc = "refresh"
    BY Zenon, <1>1, <1>5, <1>7
  <2> QED
    BY Zenon, <1>5, <2>1 DEF Env
<1> QED
  BY Zenon, <1>5, <1>6, <1>7 DEF Starts

Replied(u, v) ==
  /\ u \in CallT /\ u.op = v.op /\ u.host = v.host /\ u.pc = v.pc /\ u.since = v.since
  /\ u.approved = v.approved /\ u.gated = v.gated /\ u.records = v.records

LEMMA WithReply ==
    ASSUME NEW v \in CallT, NEW r \in Replies, NEW u, u = [v EXCEPT !.reply = r]
    PROVE  Replied(u, v)
BY SMTT(20) DEF CallT, Replied

WalksOf(u, v, pass) ==
  /\ u \in CallT /\ u.op = v.op /\ u.host = v.host /\ u.pc = "walk" /\ u.pass = pass /\ u.since = v.since
  /\ u.approved = v.approved /\ u.gated = v.gated /\ u.records = v.records
  /\ WalkInv(u)

LEMMA WalkingFacts ==
    ASSUME NEW v \in CallT, v.host \in Names, NEW pass \in {1, 2}, NEW u, u = Walking(v, pass)
    PROVE  WalksOf(u, v, pass)
<1>1. u = [v EXCEPT !.pc = "walk", !.pass = pass, !.cur = v.host, !.chain = <<>>, !.hops = <<>>]
  BY Zenon DEF Walking
<1>3. /\ u.op = v.op /\ u.host = v.host /\ u.pc = "walk" /\ u.pass = pass /\ u.since = v.since
      /\ u.approved = v.approved /\ u.gated = v.gated /\ u.records = v.records
      /\ u.cur = v.host /\ u.chain = <<>> /\ u.hops = <<>>
  BY <1>1 DEF CallT
<1>4. u \in CallT
  <2>1. "walk" \in Steps
    BY DEF Steps
  <2>2. PICK e, h, p : e = <<>> /\ h = v.host /\ p = "walk"
    BY Zenon
  <2>3. e \in Seq(Names) /\ e \in Seq(Hop) /\ h \in Names \cup {Nil} /\ p \in Steps /\ pass \in {0, 1, 2}
    BY <2>1, <2>2
  <2>4. u = [v EXCEPT !.pc = p, !.pass = pass, !.cur = h, !.chain = e, !.hops = e]
    BY Zenon, <1>1, <2>2
  <2> QED
    BY ZenonT(30), <2>3, <2>4 DEF CallT
<1>5. Linked(<<>>)
  BY DEF Linked
<1>6. WalkInv(u)
  BY Zenon, <1>3, <1>5 DEF WalkInv
<1> QED
  BY Zenon, <1>3, <1>4, <1>6 DEF WalksOf

LEMMA BeginStep ==
    ASSUME RouteInv, NEW w \in Workers, NEW op \in Ops, NEW h \in Names, NEW reply \in Replies, begin(w, op, h, reply)
    PROVE  RouteInv'
<1>1. RouteTypes
  BY Zenon DEF RouteInv
<1>2. PICK pc \in {"known", "refresh"} : pc = IF fresh /\ op # "exec" THEN "known" ELSE "refresh"
  BY Zenon
<1>3. op = "exec" => pc = "refresh"
  BY Zenon, <1>2
<1>a. PICK v, u : v = Begun(op, h, pc) /\ u = [v EXCEPT !.reply = reply]
  BY Zenon
<1>4. /\ v \in CallT /\ v = Begun(op, h, pc) /\ v.op = op /\ v.host = h /\ v.pc = pc
      /\ (v.op = "exec" => Env(table, answered, cache, v))
  <2>1. Starts(v, op, h, pc)
    <3>1. op \in {"execute", "transfer", "open", "exec"}
      BY Zenon, RoutesAssumption DEF RoutesAssumption
    <3> QED
      BY Zenon, <1>1, <1>3, <1>a, <3>1, BegunFacts
  <2> QED
    BY Zenon, <1>a, <2>1 DEF Starts
<1>5. u \in CallT /\ u = [v EXCEPT !.reply = reply] /\ u.op = op /\ u.host = h /\ u.pc = pc /\ u.since = v.since
  <2>1. Replied(u, v)
    BY Zenon, <1>4, <1>a, WithReply
  <2> QED
    BY Zenon, <1>4, <1>a, <2>1 DEF Replied
<1>6. Go(w, u) /\ UNCHANGED <<table, cache, answered, session>> /\ answer' = [answer EXCEPT ![w] = NoAnswer]
  BY Zenon, <1>2, <1>4, <1>5 DEF begin
<1>7. Refreshes
  BY Zenon, <1>6 DEF Refreshes
<1>8. DOMAIN answer' = Workers /\ DOMAIN session' = Workers
  BY <1>1, <1>6 DEF RouteTypes
<1>9. u.op = "exec" => Env(table', answered', cache', u)
  BY Zenon, <1>4, <1>5, <1>6 DEF Env
<1>10. u.pc # "install" /\ \A q : Own(u, q)
  <2>1. u.pc \in {"known", "refresh"} /\ u.host \in Names /\ (u.pc = "known" => u.op # "exec")
    BY Zenon, <1>3, <1>5
  <2> QED
    BY <2>1 DEF Own, Vetting
<1> QED
  BY Zenon, <1>5, <1>6, <1>7, <1>8, <1>9, <1>10, CallStep

-----------------------------------------------------------------------------
(* The steps of a call up to its chain.                                    *)
LEMMA CallFacts ==
    ASSUME RouteInv, NEW w \in Workers
    PROVE  /\ RouteTypes /\ work[w] \in CallT /\ Own(work[w], session[w].hops)
           /\ work[w].op = "exec" => Env(table, answered, cache, work[w])
           /\ w \in Fetchers
<1>1. w \in Fetchers
  BY Zenon DEF Fetchers
<1> QED
  BY Zenon, <1>1 DEF RouteInv, RouteTypes

MovesTo(u, v, pc) ==
  /\ u \in CallT /\ u.pc = pc /\ u.op = v.op /\ u.host = v.host /\ u.pass = v.pass /\ u.cur = v.cur
  /\ u.chain = v.chain /\ u.hops = v.hops /\ u.since = v.since
  /\ u.approved = v.approved /\ u.gated = v.gated /\ u.records = v.records

LEMMA Moved ==
    ASSUME NEW v \in CallT, NEW pc \in Steps, NEW u, u = [v EXCEPT !.pc = pc]
    PROVE  MovesTo(u, v, pc)
BY SMTT(20) DEF CallT, MovesTo

LEMMA FetchStep ==
    ASSUME RouteInv, NEW w \in Workers, FetchHosts(w)
    PROVE  RouteInv'
<1>1. CASE Failed(w) /\ UNCHANGED <<table, cache, answered, session>>
  BY Zenon, <1>1, FailedStep
<1>2. CASE /\ answered' = [answered EXCEPT ![w] = table] /\ Go(w, [work[w] EXCEPT !.pc = "install"])
           /\ UNCHANGED <<table, cache, session, answer>> /\ work[w].pc = "refresh"
  <2>1. /\ RouteTypes /\ work[w] \in CallT /\ Own(work[w], session[w].hops)
        /\ work[w].op = "exec" => Env(table, answered, cache, work[w])
        /\ w \in Fetchers
    BY Zenon, CallFacts
  <2>2. Refreshes
    BY Zenon, <1>2, <2>1 DEF Refreshes
  <2>3. PICK u : u = [work[w] EXCEPT !.pc = "install"]
    BY Zenon
  <2>4. MovesTo(u, work[w], "install")
    <3>1. "install" \in Steps
      BY DEF Steps
    <3> QED
      BY Zenon, <2>1, <2>3, <3>1, Moved
  <2>5. /\ answered'[w] = table /\ table \in Tables /\ (\A d \in Workers : d # w => answered'[d] = answered[d])
        /\ DOMAIN session' = Workers /\ DOMAIN answer' = Workers
    BY <1>2, <2>1 DEF RouteTypes
  <2>6. u.op = "exec" => Env(table', answered', cache', u)
    <3>1. u.op = "exec" => Env(table', answered', cache', work[w])
      BY Zenon, <2>1, <2>2, <2>4, EnvKept DEF MovesTo
    <3> QED
      BY Zenon, <2>4, <3>1 DEF MovesTo, Env
  <2>7. \A q : Own(u, q)
    <3>1. u.host \in Names /\ u.pc = "install"
      BY Zenon, <1>2, <2>1, <2>4 DEF Own, MovesTo
    <3> QED
      BY <3>1 DEF Own, Vetting
  <2>8. answered'[w] # NoTable
    BY Zenon, <2>5, NoTableFacts
  <2>9. u \in CallT /\ Go(w, u) /\ \A d \in Workers : session'[d] = session[d]
    BY Zenon, <1>2, <2>3, <2>4 DEF MovesTo
  <2> QED
    BY Zenon, <2>2, <2>5, <2>6, <2>7, <2>8, <2>9, CallStep
<1> QED
  BY Zenon, <1>1, <1>2 DEF FetchHosts

LEMMA InstallStep ==
    ASSUME RouteInv, NEW w \in Workers, refreshHostsNow(w)
    PROVE  RouteInv'
<1>1. /\ RouteTypes /\ work[w] \in CallT /\ Own(work[w], session[w].hops)
      /\ work[w].op = "exec" => Env(table, answered, cache, work[w])
      /\ w \in Fetchers
  BY Zenon, CallFacts
<1>2. /\ cache' = answered[w] /\ answered' = [answered EXCEPT ![w] = NoTable]
      /\ UNCHANGED <<table, session, answer>> /\ work[w].pc = "install"
  BY Zenon DEF refreshHostsNow
<1>3. answered[w] # NoTable
  BY Zenon, <1>2 DEF RouteInv
<1>4. Refreshes
  BY Zenon, <1>1, <1>2, <1>3 DEF Refreshes
<1>5. /\ (\A d \in Workers : d # w => answered'[d] = answered[d])
      /\ DOMAIN session' = Workers /\ DOMAIN answer' = Workers
  BY <1>1, <1>2 DEF RouteTypes
<1>6. work[w].host \in Names
  BY Zenon, <1>1, <1>2 DEF Own
<1>7. \A d \in Workers : session'[d] = session[d]
  BY Zenon, <1>2
<1>8. CASE work[w].op = "exec"
  <2>1. PICK u : u = Walking(work[w], 1)
    BY Zenon
  <2>2. WalksOf(u, work[w], 1)
    BY Zenon, <1>1, <1>6, <2>1, WalkingFacts
  <2>3. Go(w, u) /\ u \in CallT /\ u.pc = "walk" /\ u.op = "exec"
    BY Zenon, <1>8, <2>1, <2>2 DEF refreshHostsNow, WalksOf
  <2>4. Env(table', answered', cache', u)
    <3>1. Env(table', answered', cache', work[w])
      BY Zenon, <1>1, <1>4, <1>8, EnvKept
    <3>2. cache' \in work[w].since
      BY Zenon, <1>1, <1>2, <1>3, <1>8 DEF Env
    <3> QED
      BY Zenon, <2>2, <3>1, <3>2 DEF Env, WalksOf
  <2>5. \A q : Own(u, q)
    <3>1. u.pc = "walk" /\ u.pass = 1 /\ WalkInv(u)
      BY Zenon, <2>2 DEF WalksOf
    <3>2. u.pass # 2
      BY <3>1
    <3> QED
      BY <3>1, <3>2 DEF Own, Vetting
  <2> QED
    BY Zenon, <1>4, <1>5, <1>7, <2>3, <2>4, <2>5, CallStep
<1>9. CASE work[w].op # "exec"
  <2>1. PICK u : u = [work[w] EXCEPT !.pc = "known"]
    BY Zenon
  <2>2. MovesTo(u, work[w], "known")
    <3>1. "known" \in Steps
      BY DEF Steps
    <3> QED
      BY Zenon, <1>1, <2>1, <3>1, Moved
  <2>3. Go(w, u) /\ u \in CallT /\ u.pc = "known" /\ u.op # "exec" /\ u.host \in Names
    BY Zenon, <1>6, <1>9, <2>1, <2>2 DEF refreshHostsNow, MovesTo
  <2>4. \A q : Own(u, q)
    BY <2>3 DEF Own, Vetting
  <2> QED
    BY Zenon, <1>4, <1>5, <1>7, <2>3, <2>4, CallStep
<1> QED
  BY Zenon, <1>8, <1>9

LEMMA KnownStep ==
    ASSUME RouteInv, NEW w \in Workers, hostInfo(w)
    PROVE  RouteInv'
<1>1. CASE Failed(w) /\ UNCHANGED <<table, cache, answered, session>>
  BY Zenon, <1>1, FailedStep
<1>2. CASE Go(w, Walking(work[w], 1)) /\ UNCHANGED <<table, cache, answered, session, answer>> /\ work[w].pc = "known"
  <2>1. /\ RouteTypes /\ work[w] \in CallT /\ work[w].host \in Names /\ work[w].op # "exec"
    BY Zenon, <1>2, CallFacts DEF Own
  <2>2. PICK u : u = Walking(work[w], 1)
    BY Zenon
  <2>3. WalksOf(u, work[w], 1)
    BY Zenon, <2>1, <2>2, WalkingFacts
  <2>4. Go(w, u) /\ u \in CallT /\ u.pc = "walk" /\ u.op # "exec" /\ u.pass = 1 /\ WalkInv(u)
    BY Zenon, <1>2, <2>1, <2>2, <2>3 DEF WalksOf
  <2>5. \A q : Own(u, q)
    <3>1. u.pass # 2
      BY <2>4
    <3> QED
      BY <2>4, <3>1 DEF Own, Vetting
  <2>6. Refreshes /\ DOMAIN session' = Workers /\ DOMAIN answer' = Workers
    BY Zenon, <1>2, <2>1 DEF Refreshes, RouteTypes
  <2> QED
    BY Zenon, <1>2, <2>4, <2>5, <2>6, CallStep
<1> QED
  BY Zenon, <1>1, <1>2 DEF hostInfo

-----------------------------------------------------------------------------
(* resolveChain puts a name it has not met in front of the chain.          *)
Prepended(p, c, q) ==
    /\ Linked(p) /\ p \in Seq(Names) /\ p # <<>> /\ p[1] = c
    /\ p[Len(p)] = IF q = <<>> THEN c ELSE q[Len(q)]

LEMMA LinkedGrows ==
    ASSUME NEW q \in Seq(Names), NEW c \in Names, Linked(q), c \notin Range(q), q # <<>> => BehindIn(q[1], c),
           NEW p, p = <<c>> \o q
    PROVE  Prepended(p, c, q)
<1>1. /\ p \in Seq(Names) /\ Len(p) = Len(q) + 1 /\ p[1] = c /\ DOMAIN p = 1 .. Len(p)
      /\ Len(q) \in Nat /\ DOMAIN q = 1 .. Len(q)
  OBVIOUS
<1>2. \A i \in 2 .. Len(p) : p[i] = q[i - 1] /\ i - 1 \in DOMAIN q
  OBVIOUS
<1>3. \A i \in DOMAIN q : q[i] # c
  BY Zenon DEF Range
<1>4. ASSUME NEW i \in DOMAIN p, NEW j \in DOMAIN p, p[i] = p[j] PROVE i = j
  <2>1. CASE i = 1 /\ j # 1
    <3>1. j \in 2 .. Len(p)
      BY <1>1, <2>1
    <3> QED
      BY Zenon, <1>1, <1>2, <1>3, <1>4, <2>1, <3>1
  <2>2. CASE i # 1 /\ j = 1
    <3>1. i \in 2 .. Len(p)
      BY <1>1, <2>2
    <3> QED
      BY Zenon, <1>1, <1>2, <1>3, <1>4, <2>2, <3>1
  <2>3. CASE i # 1 /\ j # 1
    <3>1. i \in 2 .. Len(p) /\ j \in 2 .. Len(p)
      BY <1>1, <2>3
    <3>2. i - 1 = j - 1
      BY Zenon, <1>2, <1>4, <3>1 DEF Linked
    <3> QED
      BY <1>1, <3>1, <3>2
  <2> QED
    BY Zenon, <2>1, <2>2, <2>3
<1>5. ASSUME NEW i \in 2 .. Len(p) PROVE BehindIn(p[i], p[i - 1])
  <2>1. CASE i = 2
    <3>1. p[i] = q[1] /\ p[i - 1] = c /\ q # <<>>
      BY <1>1, <1>2, <2>1
    <3> QED
      BY Zenon, <3>1
  <2>2. CASE i # 2
    <3>1. i - 1 \in 2 .. Len(q) /\ i - 1 \in 2 .. Len(p)
      BY <1>1, <1>5, <2>2
    <3>2. p[i] = q[i - 1] /\ p[i - 1] = q[(i - 1) - 1]
      BY Zenon, <1>2, <1>5, <3>1
    <3>3. BehindIn(q[i - 1], q[(i - 1) - 1])
      BY Zenon, <3>1 DEF Linked
    <3> QED
      BY Zenon, <3>2, <3>3
  <2> QED
    BY Zenon, <2>1, <2>2
<1>6. p[Len(p)] = IF q = <<>> THEN c ELSE q[Len(q)]
  <2>1. CASE q = <<>>
    BY <1>1, <2>1
  <2>2. CASE q # <<>>
    <3>1. Len(p) \in 2 .. Len(p) /\ Len(p) - 1 = Len(q)
      BY <1>1, <2>2
    <3> QED
      BY Zenon, <1>2, <2>2, <3>1
  <2> QED
    BY Zenon, <2>1, <2>2
<1>7. p # <<>>
  BY <1>1
<1> QED
  BY Zenon, <1>1, <1>4, <1>5, <1>6, <1>7 DEF Linked, Prepended

LEMMA ChainStep ==
    ASSUME RouteInv, NEW w \in Workers, resolveChain(w)
    PROVE  RouteInv'
<1>1. CASE Failed(w) /\ UNCHANGED <<table, cache, answered, session>>
  BY Zenon, <1>1, FailedStep
<1>2. ASSUME work[w].pc = "walk", ~(work[w].cur \in Range(work[w].chain) \/ cache[work[w].cur] = NoHost),
             Go(w, Walked([work[w] EXCEPT !.chain = <<work[w].cur>> \o @, !.cur = cache[work[w].cur].jump])),
             UNCHANGED <<table, cache, answered, session, answer>>
      PROVE  RouteInv'
  <2>1. PICK v, c : v = work[w] /\ c = work[w].cur
    BY Zenon
  <2>2. /\ RouteTypes /\ v \in CallT /\ WalkInv(v) /\ v.pc = "walk"
        /\ Own(v, session[w].hops) /\ (v.op = "exec" => Env(table, answered, cache, v))
    BY Zenon, <1>2, <2>1, CallFacts DEF Own
  <2>3. PICK p, j, u : p = <<c>> \o v.chain /\ j = cache[c].jump /\ u = [v EXCEPT !.chain = p, !.cur = j]
    BY Zenon
  <2>4. Go(w, Walked(u))
    BY Zenon, <1>2, <2>1, <2>3
  <2>5. /\ c \in Names /\ c \notin Range(v.chain) /\ v.chain \in Seq(Names) /\ v.hops = <<>> /\ Linked(v.chain)
        /\ v.chain # <<>> => BehindIn(v.chain[1], c) /\ v.chain[Len(v.chain)] = v.host
        /\ v.chain = <<>> => c = v.host
    <3>1. v.chain \in Seq(Names)
      BY <2>2 DEF CallT
    <3> QED
      BY Zenon, <1>2, <2>1, <2>2, <3>1 DEF WalkInv
  <2>6. Linked(p) /\ p \in Seq(Names) /\ p # <<>> /\ p[1] = c /\ p[Len(p)] = v.host
    <3>1. PICK q : q = v.chain
      BY Zenon
    <3>2. q \in Seq(Names) /\ c \in Names /\ Linked(q) /\ c \notin Range(q) /\ (q # <<>> => BehindIn(q[1], c)) /\ p = <<c>> \o q
      BY Zenon, <2>3, <2>5, <3>1
    <3>3. Prepended(p, c, q)
      BY Zenon, <3>2, LinkedGrows
    <3> QED
      BY Zenon, <2>5, <3>1, <3>3 DEF Prepended
  <2>7. j \in Names \cup {Nil} /\ BehindIn(c, j)
    <3>1. cache \in Tables /\ cache[c] # NoHost
      BY Zenon, <1>2, <2>1, <2>2 DEF RouteTypes
    <3> QED
      BY Zenon, <2>3, <2>5, <3>1, TableFacts DEF BehindIn
  <2>8. /\ u \in CallT /\ u.chain = p /\ u.cur = j /\ u.pc = "walk" /\ u.op = v.op /\ u.host = v.host
        /\ u.pass = v.pass /\ u.hops = <<>> /\ u.since = v.since
    BY Zenon, <2>2, <2>3, <2>5, <2>6, <2>7 DEF CallT
  <2>9. Vetting(v) => v.op = "exec" /\ Vouched(session[w].hops, v.since)
    BY Zenon, <2>2 DEF Own
  <2>10. Refreshes /\ DOMAIN session' = Workers /\ DOMAIN answer' = Workers
    BY Zenon, <1>2, <2>2 DEF Refreshes, RouteTypes
  <2>11. v.op = "exec" => Env(table', answered', cache', v)
    BY Zenon, <2>2, <2>10, EnvKept
  <2>12. v.op = "exec" => cache \in v.since /\ table \in v.since /\ \A f \in Fetchers : answered[f] # NoTable => answered[f] \in v.since
    <3>1. v.pc \notin {"refresh", "install"}
      BY <2>2
    <3> QED
      BY Zenon, <2>2, <3>1 DEF Env
  <2>13. CASE j # Nil
    <3>1. Walked(u) = u
      BY Zenon, <2>8, <2>13 DEF Walked, Nil
    <3>2. WalkInv(u)
      BY Zenon, <2>6, <2>7, <2>8, <2>13 DEF WalkInv
    <3>3. Own(u, session'[w].hops)
      <4>1. Vetting(u) => v.op = "exec" /\ Vouched(session'[w].hops, u.since)
        BY Zenon, <1>2, <2>2, <2>8, <2>9 DEF Vetting
      <4> QED
        BY <2>8, <3>2, <4>1 DEF Own
    <3>4. u.op = "exec" => Env(table', answered', cache', u)
      BY Zenon, <1>2, <2>8, <2>12 DEF Env
    <3>5. u.pc # "install" /\ Go(w, u) /\ u \in CallT
      BY <2>4, <2>8, <3>1
    <3> QED
      BY Zenon, <1>2, <2>10, <3>3, <3>4, <3>5, CallStep
  <2>14. CASE j = Nil
    <3>1. PICK pc, x : pc = (IF v.pass = 2 THEN "vet" ELSE "hop") /\ x = Walked(u)
      BY Zenon
    <3>2. x = [u EXCEPT !.pc = pc] /\ pc \in Steps
      <4>1. x = [u EXCEPT !.pc = pc]
        BY Zenon, <2>8, <2>14, <3>1 DEF Walked, Nil
      <4>2. pc \in Steps
        BY <3>1 DEF Steps
      <4> QED
        BY Zenon, <4>1, <4>2
    <3>3. MovesTo(x, u, pc)
      BY Zenon, <2>8, <3>2, Moved
    <3>4. /\ x \in CallT /\ x.pc = pc /\ x.op = v.op /\ x.host = v.host /\ x.hops = <<>> /\ x.chain = p
          /\ x.since = v.since
      BY Zenon, <2>8, <3>3 DEF MovesTo
    <3>5. pc = "vet" => v.op = "exec" /\ Vouched(session'[w].hops, x.since)
      <4>1. pc = "vet" => v.pass = 2
        BY <3>1
      <4>2. Vetting(v) => v.op = "exec" /\ Vouched(session'[w].hops, x.since)
        BY Zenon, <1>2, <2>9, <3>4
      <4> QED
        BY Zenon, <2>2, <4>1, <4>2 DEF Vetting
    <3>6. pc = "hop" => HopsInv(x)
      <4>1. Len(<<>>) <= Len(p) /\ Len(<<>>) < Len(p) /\ DOMAIN <<>> = {}
        BY <2>6
      <4>2. ASSUME pc = "hop" PROVE x.pc # "sign" /\ x.pc # "dial"
        BY <3>4, <4>2
      <4>3. \A i \in DOMAIN x.hops : x.hops[i].name = x.chain[i]
        BY Zenon, <3>4, <4>1
      <4> QED
        BY Zenon, <2>6, <3>4, <4>1, <4>2, <4>3 DEF HopsInv
    <3>7. Vouched(<<>>, x.since)
      BY DEF Vouched
    <3>8. Own(x, session'[w].hops)
      <4>1. CASE pc = "vet"
        BY <2>6, <3>4, <3>5, <4>1 DEF Own, Vetting
      <4>2. CASE pc = "hop"
        BY <3>4, <3>6, <3>7, <4>2 DEF Own, Vetting
      <4> QED
        BY Zenon, <3>1, <4>1, <4>2
    <3>9. x.op = "exec" => Env(table', answered', cache', x)
      BY Zenon, <1>2, <2>12, <3>4 DEF Env
    <3>10. x.pc # "install" /\ Go(w, x)
      BY <2>4, <3>1, <3>4
    <3> QED
      BY Zenon, <1>2, <2>10, <3>4, <3>8, <3>9, <3>10, CallStep
  <2> QED
    BY Zenon, <2>13, <2>14
<1> QED
  BY Zenon, <1>1, <1>2 DEF resolveChain

-----------------------------------------------------------------------------
(* A step of a call that reads the tables and changes nothing but itself.  *)
LEMMA OwnStep ==
    ASSUME RouteInv, NEW w \in Workers, NEW u \in CallT, Go(w, u), UNCHANGED <<table, cache, answered, session, answer>>,
           u.pc # "install", Own(u, session[w].hops), u.op = "exec" => Env(table, answered, cache, u)
    PROVE  RouteInv'
<1>1. Refreshes /\ DOMAIN session' = Workers /\ DOMAIN answer' = Workers
  BY Zenon DEF Refreshes, RouteInv, RouteTypes
<1>2. /\ Own(u, session'[w].hops) /\ (u.op = "exec" => Env(table', answered', cache', u))
      /\ \A d \in Workers : answered'[d] = answered[d] /\ session'[d] = session[d]
  BY Zenon
<1> QED
  BY Zenon, <1>1, <1>2, CallStep

(* A hop read: it is the one due, as the copy has it.                      *)
HopRead(r, v, hp) ==
  /\ r \in CallT /\ r.pc = v.pc /\ r.op = v.op /\ r.host = v.host /\ r.pass = v.pass /\ r.cur = v.cur
  /\ r.chain = v.chain /\ r.hops \in Seq(Hop) /\ r.hops # <<>> /\ r.since = v.since
  /\ r.approved = v.approved /\ r.gated = v.gated /\ r.records = v.records
  /\ Len(r.hops) = Len(v.hops) + 1 /\ DOMAIN r.hops = 1 .. Len(v.hops) + 1
  /\ r.hops[Len(v.hops) + 1] = hp /\ \A i \in DOMAIN v.hops : r.hops[i] = v.hops[i]

LEMMA ReadFacts ==
    ASSUME NEW v \in CallT, NEW hp \in Hop, NEW r, r = [v EXCEPT !.hops = Append(@, hp)]
    PROVE  HopRead(r, v, hp)
<1>1. PICK q : q = Append(v.hops, hp)
  BY Zenon
<1>2. v.hops \in Seq(Hop)
  BY DEF CallT
<1>3. /\ q \in Seq(Hop) /\ q # <<>> /\ Len(q) = Len(v.hops) + 1 /\ DOMAIN q = 1 .. Len(v.hops) + 1
      /\ q[Len(v.hops) + 1] = hp /\ \A i \in DOMAIN v.hops : q[i] = v.hops[i]
  BY <1>1, <1>2
<1>4. r = [v EXCEPT !.hops = q]
  BY Zenon, <1>1
<1>5. /\ r \in CallT /\ r.pc = v.pc /\ r.op = v.op /\ r.host = v.host /\ r.pass = v.pass /\ r.cur = v.cur
      /\ r.chain = v.chain /\ r.hops = q /\ r.since = v.since
      /\ r.approved = v.approved /\ r.gated = v.gated /\ r.records = v.records
  <2>1. q \in Seq(Hop)
    BY Zenon, <1>3
  <2> QED
    BY ZenonT(30), <1>4, <2>1 DEF CallT
<1> QED
  BY Zenon, <1>3, <1>5 DEF HopRead

LEMMA HopStep ==
    ASSUME RouteInv, NEW w \in Workers, hop(w)
    PROVE  RouteInv'
<1>1. CASE Failed(w) /\ UNCHANGED <<table, cache, answered, session>>
  BY Zenon, <1>1, FailedStep
<1>2. PICK v, n, hp, r : /\ v = work[w] /\ n = v.chain[Len(v.hops) + 1] /\ hp = [name |-> n, info |-> cache[n]]
                         /\ r = [v EXCEPT !.hops = Append(@, hp)]
  BY Zenon
<1>3. ASSUME v.pc = "hop", cache[n] # NoHost,
             ~(v.op = "exec" /\ Len(r.hops) = Len(v.chain) /\ ~sameRoute(session[w], r.hops)),
             Go(w, IF v.op # "exec" THEN [r EXCEPT !.pc = "sign"]
                   ELSE IF Len(r.hops) = Len(v.chain) THEN Walking(r, 2) ELSE r),
             UNCHANGED <<table, cache, answered, session, answer>>
      PROVE  RouteInv'
  <2>1. /\ RouteTypes /\ v \in CallT /\ HopsInv(v) /\ (v.op = "exec" => Vouched(v.hops, v.since))
        /\ v.op = "exec" => Env(table, answered, cache, v)
    BY Zenon, <1>2, <1>3, CallFacts DEF Own
  <2>2. v.chain \in Seq(Names) /\ v.hops \in Seq(Hop)
    BY <2>1 DEF CallT
  <2>3. Len(v.hops) < Len(v.chain) /\ v.chain # <<>>
    BY Zenon, <1>3, <2>1 DEF HopsInv
  <2>4. Len(v.hops) \in Nat /\ Len(v.chain) \in Nat /\ DOMAIN v.hops = 1 .. Len(v.hops) /\ DOMAIN v.chain = 1 .. Len(v.chain)
    BY <2>2
  <2>5. n \in Names
    <3>1. Len(v.hops) + 1 \in 1 .. Len(v.chain)
      BY SMTT(20), <2>3, <2>4
    <3> QED
      BY <1>2, <2>2, <3>1
  <2>6. hp \in Hop /\ hp.name = n /\ hp.info = cache[n]
    <3>1. cache[n] \in Info
      BY Zenon, <1>3, <2>1, <2>5, TableFacts DEF RouteTypes
    <3> QED
      BY <1>2, <2>5, <3>1 DEF Hop
  <2>7. HopRead(r, v, hp)
    BY Zenon, <1>2, <2>1, <2>6, ReadFacts
  <2>8. ASSUME NEW x, x.chain = v.chain, x.host = v.host, x.hops = r.hops,
               x.pc = "sign" \/ (x.pc = "hop" /\ Len(r.hops) # Len(v.chain))
        PROVE  HopsInv(x)
    <3>1. Linked(v.chain) /\ v.chain[Len(v.chain)] = v.host /\ \A i \in DOMAIN v.hops : v.hops[i].name = v.chain[i]
      BY Zenon, <2>1 DEF HopsInv
    <3>2. Len(r.hops) = Len(v.hops) + 1 /\ r.hops # <<>> /\ DOMAIN r.hops = 1 .. Len(v.hops) + 1
      BY Zenon, <2>7 DEF HopRead
    <3>3. Len(r.hops) <= Len(v.chain) /\ (Len(r.hops) # Len(v.chain) => Len(r.hops) < Len(v.chain))
      BY <2>3, <2>4, <3>2
    <3>4. ASSUME NEW i \in DOMAIN r.hops PROVE r.hops[i].name = v.chain[i]
      <4>1. i \in DOMAIN v.hops \/ i = Len(v.hops) + 1
        BY <2>4, <3>2
      <4>2. CASE i \in DOMAIN v.hops
        <5>1. r.hops[i] = v.hops[i]
          BY Zenon, <2>7, <4>2 DEF HopRead
        <5> QED
          BY Zenon, <3>1, <4>2, <5>1
      <4>3. CASE i = Len(v.hops) + 1
        <5>1. r.hops[i] = hp /\ v.chain[i] = n
          BY Zenon, <1>2, <2>7, <4>3 DEF HopRead
        <5> QED
          BY Zenon, <2>6, <5>1
      <4> QED
        BY Zenon, <4>1, <4>2, <4>3
    <3>5. x.pc # "dial" /\ (x.pc = "hop" => Len(r.hops) # Len(v.chain))
      BY <2>8
    <3> QED
      BY Zenon, <2>3, <2>8, <3>1, <3>2, <3>3, <3>4, <3>5 DEF HopsInv
  <2>9. v.op = "exec" => Vouched(r.hops, v.since)
    <3>1. ASSUME v.op = "exec", NEW i \in DOMAIN r.hops PROVE \E t \in v.since : t[r.hops[i].name] = r.hops[i].info
      <4>1. i \in DOMAIN v.hops \/ i = Len(v.hops) + 1
        BY <2>4, <2>7 DEF HopRead
      <4>2. CASE i \in DOMAIN v.hops
        BY Zenon, <2>1, <2>7, <3>1, <4>2 DEF HopRead, Vouched
      <4>3. CASE i = Len(v.hops) + 1
        <5>1. v.pc \notin {"refresh", "install"}
          BY <1>3
        <5>2. cache \in v.since
          BY Zenon, <2>1, <3>1, <5>1 DEF Env
        <5> QED
          BY Zenon, <2>6, <2>7, <4>3, <5>2 DEF HopRead
      <4> QED
        BY Zenon, <4>1, <4>2, <4>3
    <3> QED
      BY Zenon, <3>1 DEF Vouched
  <2>10. CASE v.op # "exec"
    <3>1. PICK u : u = [r EXCEPT !.pc = "sign"]
      BY Zenon
    <3>2. MovesTo(u, r, "sign")
      <4>1. "sign" \in Steps
        BY DEF Steps
      <4> QED
        BY Zenon, <2>7, <3>1, <4>1, Moved DEF HopRead
    <3>3. u \in CallT /\ u.pc = "sign" /\ u.op # "exec" /\ u.chain = v.chain /\ u.host = v.host /\ u.hops = r.hops
      BY Zenon, <2>7, <2>10, <3>2 DEF MovesTo, HopRead
    <3>4. HopsInv(u)
      BY Zenon, <2>8, <3>3
    <3>5. Own(u, session[w].hops) /\ u.pc # "install"
      BY <3>3, <3>4 DEF Own, Vetting
    <3> QED
      BY Zenon, <1>3, <2>10, <3>1, <3>3, <3>5, OwnStep
  <2>11. CASE v.op = "exec" /\ Len(r.hops) # Len(v.chain)
    <3>1. r \in CallT /\ r.pc = "hop" /\ r.op = "exec" /\ r.chain = v.chain /\ r.host = v.host /\ r.since = v.since
      BY Zenon, <1>3, <2>7, <2>11 DEF HopRead
    <3>2. HopsInv(r)
      BY Zenon, <2>8, <2>11, <3>1
    <3>3. Vouched(r.hops, r.since)
      BY Zenon, <2>9, <2>11, <3>1
    <3>4. Own(r, session[w].hops) /\ r.pc # "install"
      BY <3>1, <3>2, <3>3 DEF Own, Vetting
    <3>5. Env(table, answered, cache, r)
      BY Zenon, <1>3, <2>1, <2>11, <3>1 DEF Env
    <3> QED
      BY Zenon, <1>3, <2>11, <3>1, <3>4, <3>5, OwnStep
  <2>12. CASE v.op = "exec" /\ Len(r.hops) = Len(v.chain)
    <3>1. session[w].hops = r.hops
      BY Zenon, <1>3, <2>12 DEF sameRoute
    <3>2. r \in CallT /\ r.op = "exec" /\ r.host = v.host /\ r.since = v.since
      BY Zenon, <2>7, <2>12 DEF HopRead
    <3>3. v.host \in Names
      <4>1. v.chain[Len(v.chain)] = v.host /\ Len(v.chain) \in 1 .. Len(v.chain)
        BY <2>1, <2>3, <2>4 DEF HopsInv
      <4> QED
        BY <2>2, <4>1
    <3>4. PICK u : u = Walking(r, 2)
      BY Zenon
    <3>5. WalksOf(u, r, 2)
      <4>1. 2 \in {1, 2}
        OBVIOUS
      <4> QED
        BY Zenon, <3>2, <3>3, <3>4, <4>1, WalkingFacts
    <3>6. u \in CallT /\ u.pc = "walk" /\ u.op = "exec" /\ u.since = v.since /\ WalkInv(u)
      BY Zenon, <3>2, <3>5 DEF WalksOf
    <3>7. Vouched(session[w].hops, u.since)
      BY Zenon, <2>9, <2>12, <3>1, <3>6
    <3>8. Own(u, session[w].hops) /\ u.pc # "install"
      BY <3>6, <3>7 DEF Own
    <3>9. Env(table, answered, cache, u)
      <4>1. v.pc \notin {"refresh", "install"}
        BY <1>3
      <4> QED
        BY Zenon, <2>1, <2>12, <3>6, <4>1 DEF Env
    <3> QED
      BY Zenon, <1>3, <2>12, <3>4, <3>6, <3>8, <3>9, OwnStep
  <2> QED
    BY Zenon, <2>10, <2>11, <2>12
<1> QED
  BY Zenon, <1>1, <1>2, <1>3 DEF hop

-----------------------------------------------------------------------------
(* From the certificates to the end of a call.                             *)
LEMMA SignStep ==
    ASSUME RouteInv, NEW w \in Workers, SignIntent(w)
    PROVE  RouteInv'
<1>1. CASE Failed(w) /\ UNCHANGED <<table, cache, answered, session>>
  BY Zenon, <1>1, FailedStep
<1>2. PICK v, p : v = work[w] /\ p = IF Len(v.hops) = Len(v.chain) THEN "dial" ELSE "hop"
  BY Zenon
<1>3. ASSUME v.pc = "sign", NEW g \in BOOLEAN, Go(w, [v EXCEPT !.pc = p, !.gated = g]),
             UNCHANGED <<table, cache, answered, session, answer>>
      PROVE  RouteInv'
  <2>1. v \in CallT /\ HopsInv(v) /\ v.op # "exec"
    BY Zenon, <1>2, <1>3, CallFacts DEF Own
  <2>2. PICK u : u = [v EXCEPT !.pc = p, !.gated = g]
    BY Zenon
  <2>3. p \in Steps
    BY <1>2 DEF Steps
  <2>4. u \in CallT /\ u.pc = p /\ u.op = v.op /\ u.host = v.host /\ u.chain = v.chain /\ u.hops = v.hops
    BY Zenon, <2>1, <2>2, <2>3 DEF CallT
  <2>5. v.chain \in Seq(Names) /\ v.hops \in Seq(Hop)
    BY <2>1 DEF CallT
  <2>6. HopsInv(u)
    <3>1. Len(v.hops) <= Len(v.chain) /\ Len(v.hops) \in Nat /\ Len(v.chain) \in Nat
      BY <2>1, <2>5 DEF HopsInv
    <3>2. (u.pc = "hop" => Len(u.hops) < Len(u.chain)) /\ (u.pc = "dial" => Len(u.hops) = Len(u.chain)) /\ u.pc # "sign"
      BY <1>2, <2>4, <3>1
    <3> QED
      BY Zenon, <2>1, <2>4, <3>2 DEF HopsInv
  <2>7. Own(u, session[w].hops) /\ u.pc # "install" /\ u.op # "exec"
    <3>1. u.pc \in {"hop", "dial"} /\ u.op # "exec"
      BY <1>2, <2>1, <2>4
    <3> QED
      BY <2>6, <3>1 DEF Own, Vetting
  <2> QED
    BY Zenon, <1>3, <2>2, <2>4, <2>7, OwnStep
<1> QED
  BY Zenon, <1>1, <1>2, <1>3 DEF SignIntent

(* A call that ends, whatever it answers.                                  *)
LEMMA FinishStep ==
    ASSUME RouteInv, NEW w \in Workers, NEW a, Finish(w, a), UNCHANGED <<table, cache, answered, session>>
    PROVE  RouteInv'
<1>1. Refreshes
  BY Zenon DEF Refreshes
<1>2. Go(w, Idle) /\ answer' = [answer EXCEPT ![w] = a]
  BY Zenon DEF Finish
<1>3. DOMAIN answer' = Workers /\ DOMAIN session' = Workers
  BY <1>2 DEF RouteInv, RouteTypes
<1>4. Idle.pc # "install" /\ Idle.op # "exec"
  BY IdleFacts
<1> QED
  BY Zenon, <1>1, <1>2, <1>3, <1>4, IdleFacts, CallStep

(* An approved call as it runs again.                                      *)
Again(u, v, g) ==
  /\ u \in CallT /\ u.op = v.op /\ u.host = v.host /\ u.pc \in {"known", "refresh"}
  /\ u.gated = FALSE /\ u.approved = TRUE /\ g \subseteq u.records

LEMMA AgainFacts ==
    ASSUME RouteTypes, NEW v \in CallT, v.op = "execute", v.host \in Names, NEW p \in {"known", "refresh"},
           NEW g \in SUBSET {"granted"}, NEW u,
           u = [Begun(v.op, v.host, p) EXCEPT !.reply = v.reply, !.approved = TRUE, !.records = v.records \cup g]
    PROVE  Again(u, v, g)
<1>1. PICK b, s : b = Begun(v.op, v.host, p) /\ s = v.records \cup g
  BY Zenon
<1>2. Starts(b, v.op, v.host, p)
  <2>1. PICK op : op = v.op
    BY Zenon
  <2>2. op \in {"execute", "transfer", "open", "exec"} /\ (op = "exec" => p = "refresh")
    BY <2>1
  <2> QED
    BY Zenon, <1>1, <2>1, <2>2, BegunFacts
<1>3. s \in SUBSET Records /\ g \subseteq s
  <2>1. v.records \in SUBSET Records
    BY DEF CallT
  <2> QED
    BY Zenon, <1>1, <2>1 DEF Records
<1>4. u = [b EXCEPT !.reply = v.reply, !.approved = TRUE, !.records = s]
  BY Zenon, <1>1
<1>5. b \in CallT /\ b.op = v.op /\ b.host = v.host /\ b.pc = p /\ b.gated = FALSE
  BY Zenon, <1>2 DEF Starts
<1>6. v.reply \in Replies
  BY DEF CallT
<1>7. /\ u \in CallT /\ u.op = b.op /\ u.host = b.host /\ u.pc = b.pc /\ u.gated = b.gated
      /\ u.approved = TRUE /\ u.records = s
  BY ZenonT(30), <1>3, <1>4, <1>5, <1>6 DEF CallT
<1> QED
  BY Zenon, <1>3, <1>5, <1>7 DEF Again

LEMMA ApprovalStep ==
    ASSUME RouteInv, NEW w \in Workers, registerExecute(w)
    PROVE  RouteInv'
<1>1. /\ work[w].pc = "sign" /\ work[w].op = "execute" /\ UNCHANGED <<table, cache, answered, session>>
      /\ RouteTypes /\ work[w] \in CallT /\ HopsInv(work[w])
  BY Zenon, CallFacts DEF registerExecute, Own
<1>2. PICK bad1 \in AuditFails, bad2 \in AuditFails :
        elicitedApproval(w, [work[w] EXCEPT !.records = @ \cup (IF bad1 THEN {} ELSE {"failed"})], bad2)
  BY Zenon DEF registerExecute
<1>3. PICK s, v : s = work[w].records \cup (IF bad1 THEN {} ELSE {"failed"}) /\ v = [work[w] EXCEPT !.records = s]
  BY Zenon
<1>4. elicitedApproval(w, v, bad2)
  BY Zenon, <1>2, <1>3
<1>5. CASE \E a : Finish(w, a)
  BY Zenon, <1>1, <1>5, FinishStep
<1>6. PICK p \in {"known", "refresh"} : p = IF fresh THEN "known" ELSE "refresh"
  BY Zenon
<1>7. PICK g, u : /\ g = IF bad2 THEN {} ELSE {"granted"}
                 /\ u = [Begun(v.op, v.host, p) EXCEPT !.reply = v.reply, !.approved = TRUE, !.records = v.records \cup g]
  BY Zenon
<1>8. CASE Go(w, u) /\ UNCHANGED answer
  <2>1. v \in CallT /\ v.op = "execute" /\ v.host = work[w].host
    <3>1. s \in SUBSET Records
      BY <1>1, <1>3 DEF CallT, Records
    <3> QED
      BY <1>1, <1>3, <3>1 DEF CallT
  <2>2. work[w].host \in Names
    <3>1. PICK q : q = work[w].chain
      BY Zenon
    <3>2. q \in Seq(Names)
      BY <1>1, <3>1 DEF CallT
    <3>3. q # <<>> /\ q[Len(q)] = work[w].host
      BY Zenon, <1>1, <3>1 DEF HopsInv
    <3> QED
      BY <3>2, <3>3
  <2>3. Again(u, v, g)
    <3>1. g \in SUBSET {"granted"}
      BY Zenon, <1>7
    <3> QED
      BY Zenon, <1>1, <1>7, <2>1, <2>2, <3>1, AgainFacts
  <2>4. u \in CallT /\ u.op = "execute" /\ u.host \in Names /\ u.pc \in {"known", "refresh"}
    BY Zenon, <2>1, <2>2, <2>3 DEF Again
  <2>5. Own(u, session[w].hops) /\ u.pc # "install" /\ u.op # "exec"
    BY <2>4 DEF Own, Vetting
  <2> QED
    BY Zenon, <1>1, <1>8, <2>4, <2>5, OwnStep
<1> QED
  BY Zenon, <1>4, <1>5, <1>6, <1>7, <1>8 DEF elicitedApproval

LEMMA OpenStep ==
    ASSUME RouteInv, NEW w \in Workers, OpenSession(w)
    PROVE  RouteInv'
<1>1. CASE Failed(w) /\ UNCHANGED <<table, cache, answered, session>>
  BY Zenon, <1>1, FailedStep
<1>2. ASSUME NEW sn, session' = [session EXCEPT ![w] = sn], Go(w, Idle), UNCHANGED <<table, cache, answered, answer>>
      PROVE  RouteInv'
  <2>1. /\ DOMAIN session' = Workers /\ DOMAIN answer' = Workers /\ Refreshes
        /\ \A d \in Workers : d # w => answered'[d] = answered[d] /\ session'[d] = session[d]
    <3>1. DOMAIN session = Workers /\ DOMAIN answer = Workers
      BY Zenon DEF RouteInv, RouteTypes
    <3>2. DOMAIN session' = Workers /\ \A d \in Workers : d # w => session'[d] = session[d]
      BY <1>2, <3>1
    <3> QED
      BY Zenon, <1>2, <3>1, <3>2 DEF Refreshes
  <2>2. Idle.pc # "install" /\ Idle.op # "exec"
    BY IdleFacts
  <2> QED
    BY Zenon, <1>2, <2>1, <2>2, IdleFacts, CallStep
<1> QED
  BY Zenon, <1>1, <1>2 DEF OpenSession

LEMMA ExecuteStep ==
    ASSUME RouteInv, NEW w \in Workers, Execute(w) \/ SessionExec(w)
    PROVE  RouteInv'
<1>1. UNCHANGED <<table, cache, answered, session>> /\ \E a : Finish(w, a)
  BY Zenon DEF Execute, SessionExec
<1> QED
  BY Zenon, <1>1, FinishStep

LEMMA EmptyLen == Len(<<>>) = 0
OBVIOUS

LEMMA TailLen ==
    ASSUME NEW S, NEW k \in Seq(S), k # <<>>
    PROVE  Tail(k) \in Seq(S) /\ Len(Tail(k)) = Len(k) - 1
OBVIOUS

LEMMA Shortened ==
    ASSUME NEW k \in Seq(Names), k # <<>>, Len(k) # 1
    PROVE  Tail(k) \in Seq(Names) /\ Tail(k) # <<>>
<1>1. Tail(k) \in Seq(Names) /\ Len(Tail(k)) = Len(k) - 1
  BY Zenon, TailLen
<1>2. Len(k) \in Nat /\ Len(k) # 0
  OBVIOUS
<1>3. PICK t, n, m : t = Tail(k) /\ n = Len(k) /\ m = Len(Tail(k))
  BY Zenon
<1>4. n \in Nat /\ n # 0 /\ n # 1 /\ m = n - 1
  BY Zenon, <1>1, <1>2, <1>3
<1>5. m # 0
  BY <1>4
<1> QED
  BY Zenon, <1>1, <1>3, <1>5, EmptyLen

LEMMA VetStep ==
    ASSUME RouteInv, NEW w \in Workers, authorizeSessionBastions(w)
    PROVE  RouteInv'
<1>1. CASE Failed(w) /\ UNCHANGED <<table, cache, answered, session>>
  BY Zenon, <1>1, FailedStep
<1>2. PICK v : v = work[w]
  BY Zenon
<1>3. UNCHANGED <<table, cache, answered, session>> /\ v.pc = "vet"
  BY Zenon, <1>2 DEF authorizeSessionBastions
<1>4. /\ v \in CallT /\ v.chain # <<>> /\ v.op = "exec" /\ Vouched(session[w].hops, v.since)
      /\ Env(table, answered, cache, v)
  <2>1. v \in CallT /\ Own(v, session[w].hops) /\ (v.op = "exec" => Env(table, answered, cache, v))
    BY Zenon, <1>2, CallFacts
  <2>2. Vetting(v)
    BY <1>3 DEF Vetting
  <2> QED
    BY Zenon, <1>3, <2>1, <2>2 DEF Own
<1>5. cache \in v.since
  <2>1. v.pc \notin {"refresh", "install"}
    BY <1>3
  <2> QED
    BY Zenon, <1>4, <2>1 DEF Env
<1>6. CASE Go(w, [v EXCEPT !.pc = "target"]) /\ UNCHANGED answer
  <2>1. PICK u : u = [v EXCEPT !.pc = "target"]
    BY Zenon
  <2>2. MovesTo(u, v, "target")
    <3>1. "target" \in Steps
      BY DEF Steps
    <3> QED
      BY Zenon, <1>4, <2>1, <3>1, Moved
  <2>3. u \in CallT /\ u.pc = "target" /\ u.op = "exec" /\ u.since = v.since
    BY Zenon, <1>4, <2>2 DEF MovesTo
  <2>4. Own(u, session[w].hops) /\ u.pc # "install"
    <3>1. Vouched(session[w].hops, u.since)
      BY Zenon, <1>4, <2>3
    <3> QED
      BY <2>3, <3>1 DEF Own
  <2>5. Env(table, answered, cache, u)
    BY Zenon, <1>4, <1>5, <2>3 DEF Env
  <2> QED
    BY Zenon, <1>3, <1>6, <2>1, <2>3, <2>4, <2>5, OwnStep
<1>7. CASE Len(v.chain) # 1 /\ Go(w, [v EXCEPT !.chain = Tail(@)]) /\ UNCHANGED answer
  <2>1. PICK q, u : q = Tail(v.chain) /\ u = [v EXCEPT !.chain = q]
    BY Zenon
  <2>2. q \in Seq(Names) /\ q # <<>>
    <3>1. PICK k : k = v.chain
      BY Zenon
    <3>2. k \in Seq(Names)
      BY <1>4, <3>1 DEF CallT
    <3>3. k # <<>> /\ Len(k) # 1 /\ q = Tail(k)
      BY Zenon, <1>4, <1>7, <2>1, <3>1
    <3> QED
      BY Zenon, <3>2, <3>3, Shortened
  <2>3. u \in CallT /\ u.pc = "vet" /\ u.op = "exec" /\ u.since = v.since /\ u.chain = q
    BY Zenon, <1>3, <1>4, <2>1, <2>2 DEF CallT
  <2>4. Own(u, session[w].hops) /\ u.pc # "install"
    <3>1. Vouched(session[w].hops, u.since) /\ u.chain # <<>>
      BY Zenon, <1>4, <2>2, <2>3
    <3> QED
      BY <2>3, <3>1 DEF Own
  <2>5. Env(table, answered, cache, u)
    BY Zenon, <1>4, <1>5, <2>3 DEF Env
  <2> QED
    BY Zenon, <1>3, <1>7, <2>1, <2>3, <2>4, <2>5, OwnStep
<1> QED
  BY Zenon, <1>1, <1>2, <1>3, <1>6, <1>7 DEF authorizeSessionBastions

LEMMA TargetStep ==
    ASSUME RouteInv, NEW w \in Workers, authorizeSessionExec(w)
    PROVE  RouteInv'
<1>1. CASE Failed(w) /\ UNCHANGED <<table, cache, answered, session>>
  BY Zenon, <1>1, FailedStep
<1>2. CASE Go(w, [work[w] EXCEPT !.pc = "run"]) /\ UNCHANGED <<table, cache, answered, session, answer>> /\ work[w].pc = "target"
  <2>1. PICK v, u : v = work[w] /\ u = [v EXCEPT !.pc = "run"]
    BY Zenon
  <2>2. v \in CallT /\ v.op = "exec" /\ Vouched(session[w].hops, v.since) /\ Env(table, answered, cache, v)
    <3>1. v \in CallT /\ Own(v, session[w].hops) /\ (v.op = "exec" => Env(table, answered, cache, v))
      BY Zenon, <2>1, CallFacts
    <3>2. Vetting(v)
      BY <1>2, <2>1 DEF Vetting
    <3> QED
      BY Zenon, <3>1, <3>2 DEF Own
  <2>3. MovesTo(u, v, "run")
    <3>1. "run" \in Steps
      BY DEF Steps
    <3> QED
      BY Zenon, <2>1, <2>2, <3>1, Moved
  <2>4. u \in CallT /\ u.pc = "run" /\ u.op = "exec" /\ u.since = v.since
    BY Zenon, <2>2, <2>3 DEF MovesTo
  <2>5. Own(u, session[w].hops) /\ u.pc # "install"
    <3>1. Vouched(session[w].hops, u.since)
      BY Zenon, <2>2, <2>4
    <3> QED
      BY <2>4, <3>1 DEF Own
  <2>6. Env(table, answered, cache, u)
    <3>1. v.pc \notin {"refresh", "install"}
      BY <1>2, <2>1
    <3> QED
      BY Zenon, <2>2, <2>4, <3>1 DEF Env
  <2> QED
    BY Zenon, <1>2, <2>1, <2>4, <2>5, <2>6, OwnStep
<1> QED
  BY Zenon, <1>1, <1>2 DEF authorizeSessionExec

-----------------------------------------------------------------------------
(* What happens beside the calls.                                          *)
LEMMA BesideStep ==
    ASSUME RouteInv, Refreshes, UNCHANGED work, DOMAIN session' = Workers, DOMAIN answer' = Workers,
           \A d \in Workers : answered'[d] = answered[d] /\ (work[d].pc # "idle" => session'[d] = session[d])
    PROVE  RouteInv'
<1>1. RouteTypes'
  BY Zenon, RefreshTypes DEF RouteTypes, RouteInv
<1>2. ASSUME NEW d \in Workers
      PROVE  /\ work'[d].pc = "install" => answered'[d] # NoTable
             /\ Own(work'[d], session'[d].hops)
             /\ work'[d].op = "exec" => Env(table', answered', cache', work'[d])
  <2>1. /\ work[d].pc = "install" => answered[d] # NoTable
        /\ Own(work[d], session[d].hops)
        /\ work[d].op = "exec" => Env(table, answered, cache, work[d])
    BY Zenon DEF RouteInv
  <2>2. work[d].op = "exec" => Env(table', answered', cache', work[d])
    BY Zenon, <2>1, EnvKept DEF RouteInv
  <2>3. Own(work[d], session'[d].hops)
    <3>1. CASE work[d].pc = "idle"
      BY <3>1 DEF Own, Vetting
    <3> QED
      BY Zenon, <2>1, <3>1
  <2> QED
    BY Zenon, <2>1, <2>2, <2>3
<1> QED
  BY Zenon, <1>1, <1>2 DEF RouteInv

LEMMA PollStep ==
    ASSUME RouteInv, age \/ poll \/ pollFailed \/ pollInstall \/ UNCHANGED vars
    PROVE  RouteInv'
<1>1. UNCHANGED <<table, work, session, answer>>
  BY Zenon DEF age, poll, pollFailed, pollInstall, vars
<1>2. Poller \in Fetchers /\ Poller \notin Workers
  BY Zenon, RoutesAssumption DEF RoutesAssumption, Fetchers
<1>3. \/ UNCHANGED <<answered, cache>>
      \/ answered' = [answered EXCEPT ![Poller] = table] /\ cache' = cache
      \/ /\ answered[Poller] # NoTable
         /\ answered' = [answered EXCEPT ![Poller] = NoTable] /\ cache' = answered[Poller]
  BY Zenon DEF age, poll, pollFailed, pollInstall, vars
<1>4. Refreshes
  BY Zenon, <1>1, <1>2, <1>3 DEF Refreshes
<1>5. \A d \in Workers : answered'[d] = answered[d]
  <2>1. DOMAIN answered = Fetchers /\ Workers \subseteq Fetchers
    BY DEF RouteInv, RouteTypes, Fetchers
  <2> QED
    BY <1>2, <1>3, <2>1
<1>6. DOMAIN session' = Workers /\ DOMAIN answer' = Workers
  BY Zenon, <1>1 DEF RouteInv, RouteTypes
<1> QED
  BY Zenon, <1>1, <1>4, <1>5, <1>6, BesideStep

LEMMA CloseStep ==
    ASSUME RouteInv, NEW w \in Workers, CloseSession(w)
    PROVE  RouteInv'
<1>1. /\ UNCHANGED <<table, cache, answered, work, answer>> /\ work[w].pc = "idle"
      /\ session' = [session EXCEPT ![w] = NoSession]
  BY Zenon DEF CloseSession
<1>2. DOMAIN session = Workers /\ DOMAIN answer = Workers
  BY Zenon DEF RouteInv, RouteTypes
<1>3. DOMAIN session' = Workers /\ \A d \in Workers : d # w => session'[d] = session[d]
  BY <1>1, <1>2
<1>4. Refreshes
  BY Zenon, <1>1 DEF Refreshes
<1>5. \A d \in Workers : answered'[d] = answered[d] /\ (work[d].pc # "idle" => session'[d] = session[d])
  BY Zenon, <1>1, <1>3
<1> QED
  BY Zenon, <1>1, <1>2, <1>3, <1>4, <1>5, BesideStep

(* A table more: what was vouched for stays so.                            *)
Widened(u, v, t) ==
  /\ u \in CallT /\ u.pc = v.pc /\ u.op = v.op /\ u.host = v.host /\ u.pass = v.pass /\ u.cur = v.cur
  /\ u.chain = v.chain /\ u.hops = v.hops /\ v.since \subseteq u.since
  /\ u.approved = v.approved /\ u.gated = v.gated /\ u.records = v.records
  /\ v.op = "exec" => t \in u.since

LEMMA WidenedFacts ==
    ASSUME NEW v \in CallT, NEW t \in Tables, NEW u, u = IF v.op # "exec" THEN v ELSE [v EXCEPT !.since = @ \cup {t}]
    PROVE  Widened(u, v, t)
<1>1. CASE v.op # "exec"
  <2>1. u = v
    BY Zenon, <1>1
  <2> QED
    BY Zenon, <1>1, <2>1 DEF Widened
<1>2. CASE v.op = "exec"
  <2>1. PICK s : s = v.since \cup {t}
    BY Zenon
  <2>2. s \in SUBSET Tables /\ v.since \subseteq s /\ t \in s
    BY <2>1 DEF CallT
  <2>3. u = [v EXCEPT !.since = s]
    BY Zenon, <1>2, <2>1
  <2>4. /\ u \in CallT /\ u.pc = v.pc /\ u.op = v.op /\ u.host = v.host /\ u.pass = v.pass /\ u.cur = v.cur
        /\ u.chain = v.chain /\ u.hops = v.hops /\ u.since = s
        /\ u.approved = v.approved /\ u.gated = v.gated /\ u.records = v.records
    BY SMTT(20), <2>2, <2>3 DEF CallT
  <2> QED
    BY Zenon, <2>2, <2>4 DEF Widened
<1> QED
  BY Zenon, <1>1, <1>2

LEMMA WidenedKeeps ==
    ASSUME NEW v, NEW t, NEW u, Widened(u, v, t), NEW q
    PROVE  /\ Own(v, q) => Own(u, q)
           /\ v.op = "exec" /\ Env(table, answered, cache, v) => Env(t, answered, cache, u)
<1>1. v.since \subseteq u.since
  BY Zenon DEF Widened
<1>2. \A k : Vouched(k, v.since) => Vouched(k, u.since)
  BY Zenon, <1>1 DEF Vouched
<1>3. WalkInv(v) => WalkInv(u)
  BY Zenon DEF WalkInv, Widened
<1>4. HopsInv(v) => HopsInv(u)
  BY Zenon DEF HopsInv, Widened
<1>5. Vetting(u) = Vetting(v)
  BY Zenon DEF Vetting, Widened
<1>6. ASSUME Own(v, q) PROVE Own(u, q)
  <2>1. u.pc = v.pc /\ u.op = v.op /\ u.host = v.host /\ u.hops = v.hops /\ u.chain = v.chain
    BY Zenon DEF Widened
  <2> QED
    BY Zenon, <1>2, <1>3, <1>4, <1>5, <1>6, <2>1 DEF Own
<1>7. ASSUME v.op = "exec", Env(table, answered, cache, v) PROVE Env(t, answered, cache, u)
  BY Zenon, <1>1, <1>7 DEF Env, Widened
<1> QED
  BY Zenon, <1>6, <1>7

LEMMA EditStep ==
    ASSUME RouteInv, NEW t \in Tables, edit(t)
    PROVE  RouteInv'
<1>1. /\ table' = t /\ UNCHANGED <<cache, answered, session, answer>>
      /\ work' = [w \in Workers |-> IF work[w].op # "exec" THEN work[w] ELSE [work[w] EXCEPT !.since = @ \cup {t}]]
  BY Zenon DEF edit
<1>2. \A w \in Workers : Widened(work'[w], work[w], t)
  <2>1. ASSUME NEW w \in Workers PROVE Widened(work'[w], work[w], t)
    <3>1. PICK v, u : v = work[w] /\ u = work'[w]
      BY Zenon
    <3>2. u = IF v.op # "exec" THEN v ELSE [v EXCEPT !.since = @ \cup {t}]
      BY Zenon, <1>1, <3>1
    <3>3. v \in CallT
      BY Zenon, <3>1, CallFacts
    <3> QED
      BY Zenon, <3>1, <3>2, <3>3, WidenedFacts
  <2> QED
    BY Zenon, <2>1
<1>3. RouteTypes'
  <2>1. DOMAIN work' = Workers /\ \A w \in Workers : work'[w] \in CallT
    BY Zenon, <1>1, <1>2 DEF Widened
  <2>2. work' \in [Workers -> CallT]
    <3>1. work' = [w \in Workers |-> work'[w]]
      BY Zenon, <1>1
    <3> QED
      BY Zenon, <2>1, <3>1
  <2> QED
    BY Zenon, <1>1, <2>2 DEF RouteInv, RouteTypes
<1>4. ASSUME NEW d \in Workers
      PROVE  /\ work'[d].pc = "install" => answered'[d] # NoTable
             /\ Own(work'[d], session'[d].hops)
             /\ work'[d].op = "exec" => Env(table', answered', cache', work'[d])
  <2>1. /\ work[d].pc = "install" => answered[d] # NoTable
        /\ Own(work[d], session[d].hops)
        /\ work[d].op = "exec" => Env(table, answered, cache, work[d])
    BY Zenon DEF RouteInv
  <2>2. Widened(work'[d], work[d], t)
    BY Zenon, <1>2
  <2>3. work'[d].pc = work[d].pc /\ work'[d].op = work[d].op
    BY Zenon, <2>2 DEF Widened
  <2>4. PICK v, u, q : v = work[d] /\ u = work'[d] /\ q = session[d].hops
    BY Zenon
  <2>5. Own(u, q) /\ (v.op = "exec" => Env(t, answered, cache, u))
    BY Zenon, <2>1, <2>2, <2>4, WidenedKeeps
  <2> QED
    BY Zenon, <1>1, <2>1, <2>3, <2>4, <2>5
<1> QED
  BY Zenon, <1>3, <1>4 DEF RouteInv

LEMMA RouteInit == Init => RouteInv
<1> SUFFICES ASSUME Init PROVE RouteInv
  OBVIOUS
<1>1. /\ table \in Tables /\ cache = table /\ answered = [f \in Fetchers |-> NoTable]
      /\ work = [w \in Workers |-> Idle] /\ DOMAIN session = Workers /\ DOMAIN answer = Workers
  BY Zenon DEF Init
<1>2. RouteTypes
  <2>1. work \in [Workers -> CallT]
    BY Zenon, <1>1, IdleFacts
  <2>2. answered \in [Fetchers -> Tables \cup {NoTable}]
    BY <1>1
  <2> QED
    BY Zenon, <1>1, <2>1, <2>2 DEF RouteTypes
<1>3. Idle.pc # "install" /\ Idle.op # "exec"
  BY IdleFacts
<1> QED
  BY Zenon, <1>1, <1>2, <1>3, IdleFacts DEF RouteInv

LEMMA RouteNext == RouteInv /\ [Next]_vars => RouteInv'
<1> SUFFICES ASSUME RouteInv, [Next]_vars PROVE RouteInv'
  OBVIOUS
<1>1. ASSUME NEW t \in Tables, edit(t) PROVE RouteInv'
  BY Zenon, <1>1, EditStep
<1>2. CASE age \/ poll \/ pollFailed \/ pollInstall \/ UNCHANGED vars
  BY Zenon, <1>2, PollStep
<1>3. ASSUME NEW w \in Workers, NEW op \in Ops, NEW h \in Names, NEW reply \in Replies, begin(w, op, h, reply)
      PROVE  RouteInv'
  BY Zenon, <1>3, BeginStep
<1>4. ASSUME NEW w \in Workers, step(w) PROVE RouteInv'
  BY Zenon, <1>4, FetchStep, InstallStep, KnownStep, ChainStep, HopStep, SignStep, ApprovalStep, OpenStep,
     ExecuteStep, VetStep, TargetStep DEF step
<1>5. ASSUME NEW w \in Workers, CloseSession(w) PROVE RouteInv'
  BY Zenon, <1>5, CloseStep
<1> QED
  BY Zenon, <1>1, <1>2, <1>3, <1>4, <1>5 DEF Next

LEMMA RouteHolds == Spec => []RouteInv
BY RouteInit, RouteNext, PTL DEF Spec

LEMMA DialedSound ==
    ASSUME NEW v \in CallT, v.pc = "dial", HopsInv(v)
    PROVE  DialSound(v)
<1>1. PICK q, k : q = v.hops /\ k = v.chain
  BY Zenon
<1>2. q \in Seq(Hop) /\ k \in Seq(Names)
  BY <1>1 DEF CallT
<1>3. Len(q) = Len(k) /\ k # <<>> /\ Linked(k) /\ k[Len(k)] = v.host /\ \A i \in DOMAIN q : q[i].name = k[i]
  BY Zenon, <1>1 DEF HopsInv
<1>4. Len(q) \in Nat /\ DOMAIN q = 1 .. Len(q) /\ DOMAIN k = 1 .. Len(q) /\ Len(q) \in 1 .. Len(q)
  BY <1>2, <1>3
<1>5. q[Len(q)].name = v.host
  BY Zenon, <1>3, <1>4
<1>6. \A i, j \in DOMAIN q : q[i].name = q[j].name => i = j
  BY Zenon, <1>3, <1>4 DEF Linked
<1>7. ASSUME NEW i \in 2 .. Len(q) PROVE \E t \in Tables : t[q[i].name] # NoHost /\ t[q[i].name].jump = q[i - 1].name
  <2>1. i \in DOMAIN q /\ i - 1 \in DOMAIN q /\ i \in 2 .. Len(k)
    BY <1>3, <1>4, <1>7
  <2>2. BehindIn(k[i], k[i - 1])
    BY Zenon, <1>3, <2>1 DEF Linked
  <2> QED
    BY Zenon, <1>3, <2>1, <2>2 DEF BehindIn
<1> QED
  BY Zenon, <1>1, <1>5, <1>6, <1>7 DEF DialSound

(* RouteSound (RouteSound of the routes run, for any tables, calls and     *)
(* edits): what resolveChain and buildHops dial ends at the host asked     *)
(* for, passes no host twice and puts every hop behind the one before it   *)
(* in some table of the signer; and a session command only runs on a       *)
(* connection each of whose hops is as the signer had it since the call    *)
(* began, or as an answer then in flight has it.                           *)
THEOREM RouteSoundHolds == Spec => []RouteSound
<1>1. RouteInv => RouteSound
  <2> SUFFICES ASSUME RouteInv, NEW w \in Workers
               PROVE  (work[w].pc = "dial" => DialSound(work[w])) /\ (work[w].pc = "run" => RunBounded(w))
    BY Zenon DEF RouteSound
  <2>1. work[w] \in CallT /\ Own(work[w], session[w].hops)
    BY Zenon, CallFacts
  <2>2. ASSUME work[w].pc = "dial" PROVE DialSound(work[w])
    <3>1. HopsInv(work[w])
      BY Zenon, <2>1, <2>2 DEF Own
    <3> QED
      BY Zenon, <2>1, <2>2, <3>1, DialedSound
  <2>3. ASSUME work[w].pc = "run" PROVE RunBounded(w)
    <3>1. Vetting(work[w])
      BY <2>3 DEF Vetting
    <3> QED
      BY Zenon, <2>1, <3>1 DEF Own, Vouched, RunBounded
  <2> QED
    BY Zenon, <2>2, <2>3
<1> QED
  BY <1>1, RouteHolds, PTL

-----------------------------------------------------------------------------
(* What a call gives back and what it has recorded.                        *)
LEMMA TraceStep ==
    ASSUME RouteTypes, TraceInv, NEW w \in Workers, NEW u, Go(w, u), Approvals(u),
           UNCHANGED answer \/ \E a : answer' = [answer EXCEPT ![w] = a] /\ (a # NoAnswer => Faithful(a))
    PROVE  TraceInv'
<1>1. DOMAIN work = Workers /\ DOMAIN answer = Workers
  BY DEF RouteTypes
<1>2. work'[w] = u /\ \A d \in Workers : d # w => work'[d] = work[d]
  BY <1>1 DEF Go
<1>3. \A d \in Workers : answer'[d] # NoAnswer => Faithful(answer'[d])
  <2>1. \A d \in Workers : answer[d] # NoAnswer => Faithful(answer[d])
    BY Zenon DEF TraceInv
  <2>2. CASE UNCHANGED answer
    BY Zenon, <2>1, <2>2
  <2>3. ASSUME NEW a, answer' = [answer EXCEPT ![w] = a], a # NoAnswer => Faithful(a)
        PROVE  \A d \in Workers : answer'[d] # NoAnswer => Faithful(answer'[d])
    <3>1. answer'[w] = a /\ \A d \in Workers : d # w => answer'[d] = answer[d]
      BY <1>1, <2>3
    <3> QED
      BY Zenon, <2>1, <2>3, <3>1
  <2> QED
    BY Zenon, <2>2, <2>3
<1> QED
  BY Zenon, <1>2, <1>3 DEF TraceInv

LEMMA IdleApproved == Approvals(Idle)
BY IdleFacts DEF Approvals

LEMMA FinishTraced ==
    ASSUME RouteTypes, TraceInv, NEW w \in Workers, NEW a, Finish(w, a), a # NoAnswer => Faithful(a)
    PROVE  TraceInv'
<1>1. Go(w, Idle) /\ answer' = [answer EXCEPT ![w] = a]
  BY Zenon DEF Finish
<1> QED
  BY Zenon, <1>1, IdleApproved, TraceStep

(* The answers of Execute and of a transfer.                               *)
Said(a, v, given, ran, added) ==
  /\ a.op = v.op /\ a.ran = ran /\ a.given = given /\ a.gated = v.gated
  /\ a.records = v.records \cup added
  /\ DOMAIN a = {"op", "ran", "gated", "given", "records", "asked"}

LEMMA UnrunFacts ==
    ASSUME NEW v, NEW bad, NEW a, a = Unrun(v, bad)
    PROVE  Said(a, v, FALSE, FALSE, IF bad THEN {} ELSE {"failed"})
BY Zenon DEF Unrun, Said

LEMMA UnrunFaithful ==
    ASSUME NEW a, ~a.ran, ~a.given
    PROVE  Faithful(a)
BY Zenon DEF Faithful

LEMMA ExecutedFacts ==
    ASSUME NEW v, NEW bad \in BOOLEAN, NEW a, a = Executed(v, bad)
    PROVE  Said(a, v, ~appendAudit(bad), TRUE, IF bad THEN {} ELSE {"executed"})
BY Zenon DEF Executed, Said

LEMMA FailedTraced ==
    ASSUME RouteTypes, TraceInv, NEW w \in Workers, Failed(w)
    PROVE  TraceInv'
<1>1. PICK bad \in AuditFails :
        Finish(w, IF work[w].op \in {"execute", "transfer"} THEN Unrun(work[w], bad) ELSE NoAnswer)
  BY Zenon DEF Failed
<1>2. PICK a, b : b = Unrun(work[w], bad) /\ a = IF work[w].op \in {"execute", "transfer"} THEN b ELSE NoAnswer
  BY Zenon
<1>3. Faithful(b)
  <2>1. ~b.ran /\ ~b.given
    BY Zenon, <1>2, UnrunFacts DEF Said
  <2> QED
    BY Zenon, <2>1, UnrunFaithful
<1>4. Finish(w, a) /\ (a # NoAnswer => Faithful(a))
  BY Zenon, <1>1, <1>2, <1>3
<1> QED
  BY Zenon, <1>4, FinishTraced

LEMMA InterruptedFaithful ==
    ASSUME NEW v, Approvals(v), NEW bad, NEW a, a = [Unrun(v, bad) EXCEPT !.ran = TRUE]
    PROVE  Faithful(a)
<1>1. PICK b : b = Unrun(v, bad)
  BY Zenon
<1>2. /\ b.given = FALSE /\ b.gated = v.gated /\ v.records \subseteq b.records
      /\ DOMAIN b = {"op", "ran", "gated", "given", "records", "asked"}
  <2>1. Said(b, v, FALSE, FALSE, IF bad THEN {} ELSE {"failed"})
    BY Zenon, <1>1, UnrunFacts
  <2>2. PICK added : added = IF bad THEN {} ELSE {"failed"}
    BY Zenon
  <2>3. b.records = v.records \cup added
    BY Zenon, <2>1, <2>2 DEF Said
  <2>4. v.records \subseteq b.records
    BY Zenon, <2>3
  <2> QED
    BY Zenon, <2>1, <2>4 DEF Said
<1>3. a = [b EXCEPT !.ran = TRUE]
  BY Zenon, <1>1
<1>4. a.given = b.given /\ a.gated = b.gated /\ a.records = b.records
  BY <1>2, <1>3
<1> QED
  BY Zenon, <1>2, <1>4 DEF Faithful, Approvals

LEMMA ExecutedFaithful ==
    ASSUME NEW v, Approvals(v), v.op = "execute", NEW bad \in BOOLEAN, NEW a, a = Executed(v, bad)
    PROVE  Faithful(a)
<1>1. /\ a.op = v.op /\ a.ran = TRUE /\ a.given = ~appendAudit(bad) /\ a.gated = v.gated
      /\ a.records = v.records \cup (IF bad THEN {} ELSE {"executed"})
  <2>1. Said(a, v, ~appendAudit(bad), TRUE, IF bad THEN {} ELSE {"executed"})
    BY Zenon, ExecutedFacts
  <2> QED
    BY Zenon, <2>1 DEF Said
<1>2. a.op # "transfer"
  BY <1>1
<1>3. FailClosed /\ a.given => {"executed"} \subseteq a.records
  BY Zenon, <1>1 DEF appendAudit
<1>4. FailClosed /\ a.gated => "granted" \in a.records
  BY Zenon, <1>1 DEF Approvals
<1> QED
  BY Zenon, <1>1, <1>2, <1>3, <1>4 DEF Faithful

LEMMA TransferredFaithful ==
    ASSUME NEW v, Approvals(v), v.op = "transfer", NEW bad \in BOOLEAN, NEW result, NEW bad2 \in BOOLEAN, NEW e, e = Executed(v, bad),
           NEW a, a = Transferred(e, result, bad2)
    PROVE  Faithful(a)
<1>1. /\ e.op = v.op /\ e.ran = TRUE /\ e.given = ~appendAudit(bad) /\ e.gated = v.gated
      /\ e.records = v.records \cup (IF bad THEN {} ELSE {"executed"})
      /\ DOMAIN e = {"op", "ran", "gated", "given", "records", "asked"}
  <2>1. Said(e, v, ~appendAudit(bad), TRUE, IF bad THEN {} ELSE {"executed"})
    BY Zenon, ExecutedFacts
  <2> QED
    BY Zenon, <2>1 DEF Said
<1>2. FailClosed /\ e.gated => "granted" \in e.records
  BY Zenon, <1>1 DEF Approvals
<1>3. CASE ~e.given \/ result = "failure"
  <2>1. a = [e EXCEPT !.given = FALSE]
    BY Zenon, <1>3 DEF Transferred
  <2>2. a.given = FALSE /\ a.gated = e.gated /\ a.records = e.records
    BY <1>1, <2>1
  <2> QED
    BY Zenon, <1>2, <2>2 DEF Faithful
<1>4. CASE ~(~e.given \/ result = "failure")
  <2>1. PICK s, g : s = (IF bad2 THEN e.records ELSE e.records \cup {"file"}) /\ g = ~appendAudit(bad2)
    BY Zenon
  <2>2. a = [e EXCEPT !.records = s, !.given = g]
    BY Zenon, <1>4, <2>1 DEF Transferred
  <2>3. a.given = g /\ a.gated = e.gated /\ a.records = s /\ a.ran = e.ran
    BY <1>1, <2>2
  <2>4. FailClosed => "executed" \in e.records
    BY Zenon, <1>1, <1>4 DEF appendAudit
  <2>5. e.records \subseteq s /\ (FailClosed /\ g => "file" \in s)
    BY Zenon, <2>1 DEF appendAudit
  <2>6. FailClosed /\ g => {"executed", "file"} \subseteq s /\ {"executed"} \subseteq s
    BY Zenon, <2>4, <2>5
  <2>7. FailClosed /\ a.gated => "granted" \in a.records
    BY Zenon, <1>2, <2>3, <2>5
  <2> QED
    BY Zenon, <1>1, <2>3, <2>6, <2>7 DEF Faithful
<1> QED
  BY Zenon, <1>3, <1>4

LEMMA ExecuteTraced ==
    ASSUME RouteTypes, TraceInv, NEW w \in Workers, Execute(w)
    PROVE  TraceInv'
<1>1. PICK v : v = work[w]
  BY Zenon
<1>2. Approvals(v) /\ v.op \in {"execute", "transfer"}
  BY Zenon, <1>1 DEF TraceInv, Execute
<1>3. PICK d \in Dial, result \in ExecOnce, bad1 \in AuditFails, bad2 \in AuditFails :
        Finish(w, IF d = "unreachable" THEN Unrun(v, bad1)
                  ELSE IF result = "interrupted"
                  THEN [Unrun(v, bad1) EXCEPT !.ran = TRUE]
                  ELSE IF v.op = "execute" THEN Executed(v, bad1)
                  ELSE Transferred(Executed(v, bad1), result, bad2))
  BY Zenon, <1>1 DEF Execute
<1>4. bad1 \in BOOLEAN /\ bad2 \in BOOLEAN
  BY Zenon, RoutesAssumption DEF RoutesAssumption
<1>5. PICK a1, a2, a3, a4 : /\ a1 = Unrun(v, bad1) /\ a2 = [Unrun(v, bad1) EXCEPT !.ran = TRUE]
                            /\ a3 = Executed(v, bad1) /\ a4 = Transferred(Executed(v, bad1), result, bad2)
  BY Zenon
<1>6. Faithful(a1)
  <2>1. ~a1.ran /\ ~a1.given
    BY Zenon, <1>5, UnrunFacts DEF Said
  <2> QED
    BY Zenon, <2>1, UnrunFaithful
<1>7. Faithful(a2)
  BY Zenon, <1>2, <1>5, InterruptedFaithful
<1>8. v.op = "execute" => Faithful(a3)
  BY Zenon, <1>2, <1>4, <1>5, ExecutedFaithful
<1>9. v.op # "execute" => Faithful(a4)
  <2>1. v.op # "execute" => v.op = "transfer"
    BY Zenon, <1>2
  <2>2. a4 = Transferred(a3, result, bad2)
    BY Zenon, <1>5
  <2> QED
    BY Zenon, <1>2, <1>4, <1>5, <2>1, <2>2, TransferredFaithful
<1>10. \E a : Finish(w, a) /\ Faithful(a)
  BY Zenon, <1>3, <1>5, <1>6, <1>7, <1>8, <1>9
<1> QED
  BY Zenon, <1>10, FinishTraced

(* A step of a call that neither approves nor records.                     *)
Same(u, v) == u.approved = v.approved /\ u.gated = v.gated /\ u.records = v.records

LEMMA SameTraced ==
    ASSUME RouteTypes, TraceInv, NEW w \in Workers, NEW u, Same(u, work[w]), Go(w, u), UNCHANGED answer
    PROVE  TraceInv'
<1>1. Approvals(work[w])
  BY Zenon DEF TraceInv
<1>2. Approvals(u)
  BY Zenon, <1>1 DEF Approvals, Same
<1> QED
  BY Zenon, <1>2, TraceStep

LEMMA SameFacts ==
    ASSUME NEW v \in CallT
    PROVE  /\ \A p : Same([v EXCEPT !.pc = p], v)
           /\ \A q : Same([v EXCEPT !.chain = q], v)
           /\ \A q, c : Same([v EXCEPT !.chain = q, !.cur = c], v)
           /\ \A q, c, p : Same([[v EXCEPT !.chain = q, !.cur = c] EXCEPT !.pc = p], v)
           /\ \A q : Same([v EXCEPT !.hops = q], v)
           /\ \A q, p : Same([[v EXCEPT !.hops = q] EXCEPT !.pc = p], v)
           /\ \A p, k, c, q : Same([v EXCEPT !.pc = p, !.pass = k, !.cur = c, !.chain = q, !.hops = q], v)
<1>1. PICK D : D = {"op", "host", "pc", "pass", "cur", "chain", "hops", "since", "reply", "approved", "gated", "records"}
  BY Zenon
<1>2. DOMAIN v = D
  BY <1>1 DEF CallT
<1>3. {"approved", "gated", "records"} \subseteq D
  BY <1>1
<1> QED
  BY <1>1, <1>2, <1>3 DEF Same

LEMMA BeginTraced ==
    ASSUME RouteInv, TraceInv, NEW w \in Workers, NEW op \in Ops, NEW h \in Names, NEW reply \in Replies, begin(w, op, h, reply)
    PROVE  TraceInv'
<1>1. RouteTypes
  BY Zenon DEF RouteInv
<1>2. PICK p \in {"known", "refresh"} : p = IF fresh /\ op # "exec" THEN "known" ELSE "refresh"
  BY Zenon
<1>3. op = "exec" => p = "refresh"
  BY Zenon, <1>2
<1>4. PICK v, u : v = Begun(op, h, p) /\ u = [v EXCEPT !.reply = reply]
  BY Zenon
<1>5. Starts(v, op, h, p)
  <2>1. op \in {"execute", "transfer", "open", "exec"}
    BY Zenon, RoutesAssumption DEF RoutesAssumption
  <2> QED
    BY Zenon, <1>1, <1>3, <1>4, <2>1, BegunFacts
<1>6. u.approved = FALSE /\ u.gated = FALSE
  <2>1. v \in CallT /\ v.approved = FALSE /\ v.gated = FALSE
    BY Zenon, <1>5 DEF Starts
  <2>2. Replied(u, v)
    BY Zenon, <1>4, <2>1, WithReply
  <2> QED
    BY Zenon, <2>1, <2>2 DEF Replied
<1>7. Go(w, u) /\ answer' = [answer EXCEPT ![w] = NoAnswer]
  BY Zenon, <1>2, <1>4 DEF begin
<1>8. Approvals(u)
  BY Zenon, <1>6 DEF Approvals
<1> QED
  BY Zenon, <1>1, <1>7, <1>8, TraceStep

LEMMA SignTraced ==
    ASSUME RouteInv, TraceInv, NEW w \in Workers, SignIntent(w)
    PROVE  TraceInv'
<1>1. RouteTypes /\ work[w] \in CallT /\ Approvals(work[w])
  BY Zenon, CallFacts DEF TraceInv
<1>2. CASE Failed(w)
  BY Zenon, <1>1, <1>2, FailedTraced
<1>3. PICK v, p : v = work[w] /\ p = IF Len(v.hops) = Len(v.chain) THEN "dial" ELSE "hop"
  BY Zenon
<1>4. ASSUME NEW g \in BOOLEAN, g => v.approved, Go(w, [v EXCEPT !.pc = p, !.gated = g]), UNCHANGED answer
      PROVE  TraceInv'
  <2>1. PICK u : u = [v EXCEPT !.pc = p, !.gated = g]
    BY Zenon
  <2>2. u.approved = v.approved /\ u.gated = g /\ u.records = v.records
    BY <1>1, <1>3, <2>1 DEF CallT
  <2>3. Approvals(u)
    BY Zenon, <1>1, <1>3, <1>4, <2>2 DEF Approvals
  <2> QED
    BY Zenon, <1>1, <1>4, <2>1, <2>3, TraceStep
<1> QED
  BY Zenon, <1>2, <1>3, <1>4 DEF SignIntent

LEMMA ApprovalTraced ==
    ASSUME RouteInv, TraceInv, NEW w \in Workers, registerExecute(w)
    PROVE  TraceInv'
<1>1. /\ work[w].pc = "sign" /\ work[w].op = "execute" /\ RouteTypes /\ work[w] \in CallT /\ HopsInv(work[w])
  BY Zenon, CallFacts DEF registerExecute, Own
<1>2. PICK bad1 \in AuditFails, bad2 \in AuditFails :
        elicitedApproval(w, [work[w] EXCEPT !.records = @ \cup (IF bad1 THEN {} ELSE {"failed"})], bad2)
  BY Zenon DEF registerExecute
<1>3. PICK s, v : s = work[w].records \cup (IF bad1 THEN {} ELSE {"failed"}) /\ v = [work[w] EXCEPT !.records = s]
  BY Zenon
<1>4. elicitedApproval(w, v, bad2)
  BY Zenon, <1>2, <1>3
<1>5. ASSUME NEW a, ~a.ran, ~a.given, Finish(w, a) PROVE TraceInv'
  BY Zenon, <1>1, <1>5, UnrunFaithful, FinishTraced
<1>6. PICK b : b = Unrun(v, TRUE)
  BY Zenon
<1>7. ~b.ran /\ ~b.given /\ DOMAIN b = {"op", "ran", "gated", "given", "records", "asked"}
  BY Zenon, <1>6, UnrunFacts DEF Said
<1>8. PICK p \in {"known", "refresh"} : p = IF fresh THEN "known" ELSE "refresh"
  BY Zenon
<1>9. PICK g, u : /\ g = IF bad2 THEN {} ELSE {"granted"}
                 /\ u = [Begun(v.op, v.host, p) EXCEPT !.reply = v.reply, !.approved = TRUE, !.records = v.records \cup g]
  BY Zenon
<1>10. CASE Go(w, u) /\ UNCHANGED answer /\ ~appendAudit(bad2)
  <2>1. v \in CallT /\ v.op = "execute" /\ v.host = work[w].host
    <3>1. s \in SUBSET Records
      BY SMTT(20), <1>1, <1>3 DEF CallT, Records
    <3> QED
      BY Zenon, <1>1, <1>3, <3>1 DEF CallT
  <2>2. work[w].host \in Names
    <3>1. PICK q : q = work[w].chain
      BY Zenon
    <3>2. q \in Seq(Names)
      BY <1>1, <3>1 DEF CallT
    <3>3. q # <<>> /\ q[Len(q)] = work[w].host
      BY Zenon, <1>1, <3>1 DEF HopsInv
    <3> QED
      BY <3>2, <3>3
  <2>3. Again(u, v, g)
    <3>1. g \in SUBSET {"granted"}
      BY Zenon, <1>9
    <3> QED
      BY Zenon, <1>1, <1>9, <2>1, <2>2, <3>1, AgainFacts
  <2>4. Approvals(u)
    <3>1. FailClosed => "granted" \in g
      BY Zenon, <1>9, <1>10 DEF appendAudit
    <3> QED
      BY Zenon, <2>3, <3>1 DEF Again, Approvals
  <2> QED
    BY Zenon, <1>1, <1>10, <2>4, TraceStep
<1>11. CASE \E x : Finish(w, [b EXCEPT !.asked = x])
  <2>1. PICK x, a : a = [b EXCEPT !.asked = x] /\ Finish(w, a)
    BY Zenon, <1>11
  <2>2. ~a.ran /\ ~a.given
    BY <1>7, <2>1
  <2> QED
    BY Zenon, <1>5, <2>1, <2>2
<1>12. CASE \E x : Finish(w, [b EXCEPT !.records = x])
  <2>1. PICK x, a : a = [b EXCEPT !.records = x] /\ Finish(w, a)
    BY Zenon, <1>12
  <2>2. ~a.ran /\ ~a.given
    BY <1>7, <2>1
  <2> QED
    BY Zenon, <1>5, <2>1, <2>2
<1>13. CASE Finish(w, b)
  BY Zenon, <1>5, <1>7, <1>13
<1> QED
  BY Zenon, <1>4, <1>6, <1>8, <1>9, <1>10, <1>11, <1>12, <1>13 DEF elicitedApproval

LEMMA WalkingSame ==
    ASSUME NEW r, NEW k,
           DOMAIN r = {"op", "host", "pc", "pass", "cur", "chain", "hops", "since", "reply", "approved", "gated", "records"}
    PROVE  Same(Walking(r, k), r)
BY DEF Walking, Same

LEMMA CallTraced ==
    ASSUME RouteInv, TraceInv, NEW w \in Workers, step(w)
    PROVE  TraceInv'
<1>1. RouteTypes /\ work[w] \in CallT
  BY Zenon, CallFacts
<1>2. PICK v : v = work[w]
  BY Zenon
<1>3. ASSUME NEW u, Same(u, v), Go(w, u), UNCHANGED answer PROVE TraceInv'
  BY Zenon, <1>1, <1>2, <1>3, SameTraced
<1>4. CASE Failed(w)
  BY Zenon, <1>1, <1>4, FailedTraced
<1>5. /\ \A p : Same([v EXCEPT !.pc = p], v)
      /\ \A q : Same([v EXCEPT !.chain = q], v)
      /\ \A q, c : Same([v EXCEPT !.chain = q, !.cur = c], v)
      /\ \A q, c, p : Same([[v EXCEPT !.chain = q, !.cur = c] EXCEPT !.pc = p], v)
      /\ \A q : Same([v EXCEPT !.hops = q], v)
      /\ \A q, p : Same([[v EXCEPT !.hops = q] EXCEPT !.pc = p], v)
  BY Zenon, <1>1, <1>2, SameFacts
<1>6. \A k : Same(Walking(v, k), v)
  BY Zenon, <1>1, <1>2, SameFacts DEF Walking
<1>7. ASSUME NEW q, NEW k PROVE Same(Walking([v EXCEPT !.hops = q], k), v)
  <2>1. PICK r : r = [v EXCEPT !.hops = q]
    BY Zenon
  <2>2. DOMAIN v = {"op", "host", "pc", "pass", "cur", "chain", "hops", "since", "reply", "approved", "gated", "records"}
    BY <1>1, <1>2 DEF CallT
  <2>3. DOMAIN r = DOMAIN v
    BY Zenon, <2>1
  <2>4. Same(r, v)
    BY Zenon, <1>5, <2>1
  <2>5. Same(Walking(r, k), r)
    BY Zenon, <2>2, <2>3, WalkingSame
  <2> QED
    BY Zenon, <2>1, <2>4, <2>5 DEF Same
<1>8. CASE FetchHosts(w)
  BY Zenon, <1>2, <1>3, <1>4, <1>5, <1>8 DEF FetchHosts
<1>9. CASE refreshHostsNow(w)
  <2>1. UNCHANGED answer /\ (Go(w, Walking(v, 1)) \/ Go(w, [v EXCEPT !.pc = "known"]))
    BY Zenon, <1>2, <1>9 DEF refreshHostsNow
  <2>2. Same(Walking(v, 1), v) /\ Same([v EXCEPT !.pc = "known"], v)
    BY Zenon, <1>5, <1>6
  <2> QED
    BY Zenon, <1>3, <2>1, <2>2
<1>10. CASE hostInfo(w)
  BY Zenon, <1>2, <1>3, <1>4, <1>6, <1>10 DEF hostInfo
<1>11. CASE resolveChain(w)
  <2>1. PICK q, c : q = <<v.cur>> \o v.chain /\ c = cache[v.cur].jump
    BY Zenon
  <2>2. Failed(w) \/ (Go(w, Walked([v EXCEPT !.chain = q, !.cur = c])) /\ UNCHANGED answer)
    BY Zenon, <1>2, <1>11, <2>1 DEF resolveChain
  <2>3. Same(Walked([v EXCEPT !.chain = q, !.cur = c]), v)
    BY Zenon, <1>5 DEF Walked
  <2> QED
    BY Zenon, <1>3, <1>4, <2>2, <2>3
<1>12. CASE hop(w)
  <2>1. PICK n, q : n = v.chain[Len(v.hops) + 1] /\ q = Append(v.hops, [name |-> n, info |-> cache[n]])
    BY Zenon
  <2>2. PICK r : r = [v EXCEPT !.hops = q]
    BY Zenon
  <2>3. \/ Failed(w)
        \/ /\ Go(w, IF v.op # "exec" THEN [r EXCEPT !.pc = "sign"] ELSE IF Len(r.hops) = Len(v.chain) THEN Walking(r, 2) ELSE r)
           /\ UNCHANGED answer
    BY Zenon, <1>2, <1>12, <2>1, <2>2 DEF hop
  <2>4. Same(r, v) /\ Same([r EXCEPT !.pc = "sign"], v) /\ Same(Walking(r, 2), v)
    BY Zenon, <1>5, <1>7, <2>2
  <2> QED
    BY Zenon, <1>3, <1>4, <2>3, <2>4
<1>13. CASE authorizeSessionBastions(w)
  BY Zenon, <1>2, <1>3, <1>4, <1>5, <1>13 DEF authorizeSessionBastions
<1>14. CASE authorizeSessionExec(w)
  BY Zenon, <1>2, <1>3, <1>4, <1>5, <1>14 DEF authorizeSessionExec
<1>15. CASE OpenSession(w)
  <2>1. CASE Go(w, Idle) /\ UNCHANGED answer
    BY Zenon, <1>1, <2>1, IdleApproved, TraceStep
  <2> QED
    BY Zenon, <1>4, <1>15, <2>1 DEF OpenSession
<1>16. CASE SessionExec(w)
  BY Zenon, <1>1, <1>16, FinishTraced DEF SessionExec
<1> QED
  BY Zenon, <1>1, <1>8, <1>9, <1>10, <1>11, <1>12, <1>13, <1>14, <1>15, <1>16, SignTraced, ApprovalTraced,
     ExecuteTraced DEF step

LEMMA TraceNext == RouteInv /\ TraceInv /\ [Next]_vars => TraceInv'
<1> SUFFICES ASSUME RouteInv, TraceInv, [Next]_vars PROVE TraceInv'
  OBVIOUS
<1>1. ASSUME NEW t \in Tables, edit(t) PROVE TraceInv'
  <2>1. /\ answer' = answer
        /\ work' = [w \in Workers |-> IF work[w].op # "exec" THEN work[w] ELSE [work[w] EXCEPT !.since = @ \cup {t}]]
    BY Zenon, <1>1 DEF edit
  <2>2. ASSUME NEW w \in Workers PROVE Approvals(work'[w])
    <3>1. PICK v, u : v = work[w] /\ u = work'[w]
      BY Zenon
    <3>2. u = IF v.op # "exec" THEN v ELSE [v EXCEPT !.since = @ \cup {t}]
      BY Zenon, <2>1, <3>1
    <3>3. v \in CallT /\ Approvals(v)
      BY Zenon, <3>1, CallFacts DEF TraceInv
    <3>4. Widened(u, v, t)
      BY Zenon, <1>1, <3>2, <3>3, WidenedFacts
    <3> QED
      BY Zenon, <3>1, <3>3, <3>4 DEF Widened, Approvals
  <2> QED
    BY Zenon, <2>1, <2>2 DEF TraceInv
<1>2. CASE age \/ poll \/ pollFailed \/ pollInstall \/ (\E w \in Workers : CloseSession(w)) \/ UNCHANGED vars
  <2>1. UNCHANGED <<work, answer>>
    BY Zenon, <1>2 DEF age, poll, pollFailed, pollInstall, CloseSession, vars
  <2> QED
    BY Zenon, <2>1 DEF TraceInv
<1>3. ASSUME NEW w \in Workers, NEW op \in Ops, NEW h \in Names, NEW reply \in Replies, begin(w, op, h, reply)
      PROVE  TraceInv'
  BY Zenon, <1>3, BeginTraced
<1>4. ASSUME NEW w \in Workers, step(w) PROVE TraceInv'
  BY Zenon, <1>4, CallTraced
<1> QED
  BY Zenon, <1>1, <1>2, <1>3, <1>4 DEF Next

(* OutputTraced (OutputTraced of the routes run, for any calls, any audit  *)
(* failures and both values of audit_fail_mode): only the output of what   *)
(* ran is given back; with the mode "closed" what a one-shot call or a     *)
(* transfer gives back has left all its audit records, and what ran only   *)
(* because a human approved it in the chat has the record of that          *)
(* approval, even if the record of its completion was lost.                *)
THEOREM OutputTracedHolds == Spec => []OutputTraced
<1>1. Init => TraceInv
  <2> SUFFICES ASSUME Init PROVE TraceInv
    OBVIOUS
  <2>1. work = [w \in Workers |-> Idle] /\ answer = [w \in Workers |-> NoAnswer]
    BY Zenon DEF Init
  <2> QED
    BY Zenon, <2>1, IdleApproved DEF TraceInv
<1>2. TraceInv => OutputTraced
  BY Zenon DEF TraceInv, OutputTraced, Faithful
<1> QED
  BY <1>1, <1>2, RouteHolds, TraceNext, PTL DEF Spec
=============================================================================
