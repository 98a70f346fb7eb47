--------------------------- MODULE Sessions_proofs ---------------------------
(***************************************************************************)
(* No connection of a session is left behind, the reaper spares a session  *)
(* in use, and a session's life is told once in the audit log: for every   *)
(* number of sessions, callers and goroutines, every limit, and every set  *)
(* of failing appends.                                                     *)
(*                                                                         *)
(* A session ends through exactly one of five hands: it is in the map, or  *)
(* a call of CloseSession, the reaper, the kill switch or Engine.Close has *)
(* taken it out.  OneEnd says that no two of them have it at once and that *)
(* its end is not recorded while one has.  Queues says that none has it    *)
(* twice, Opening that a session under construction is in no hand yet,     *)
(* Telling that commands run only in sessions told to a caller, and        *)
(* Counted that busy is the number of calls that have the session checked  *)
(* out.  The three properties follow from these together and from none of  *)
(* them alone.                                                             *)
(***************************************************************************)
EXTENDS Sessions, TLAPS

In(q, v) == \E i \in DOMAIN q : q[i] = v

Distinct(q) == \A i, j \in DOMAIN q : q[i] = q[j] => i = j

InReap(q, id) == \E i \in DOMAIN q : q[i].id = id

DistinctReap(q) == \A i, j \in DOMAIN q : q[i].id = q[j].id => i = j

\* The hands that may have a session, other than the map.
Called(id) == \E x \in Execs : exec[x].pc = "closing" /\ exec[x].id = id
Reaped(id) == InReap(reap, id)
Killed(id) == In(poll.todo, id) \/ In(poll.done, id)
Stopped(id) == In(shut.todo, id) \/ In(shut.done, id)

Touched(id) == id \in live \/ Called(id) \/ Reaped(id) \/ Killed(id) \/ Stopped(id)

Queues ==
  /\ \A x, y \in Execs :
       exec[x].pc = "closing" /\ exec[y].pc = "closing" /\ exec[y].id = exec[x].id => x = y
  /\ DistinctReap(reap)
  /\ Distinct(poll.todo) /\ Distinct(poll.done)
  /\ Distinct(shut.todo) /\ Distinct(shut.done)
  /\ \A id \in Ids : ~(In(poll.todo, id) /\ In(poll.done, id))
  /\ \A id \in Ids : ~(In(shut.todo, id) /\ In(shut.done, id))
  /\ poll.pc # "killing" => poll.todo = <<>>
  /\ poll.pc \in {"idle", "fetched"} => poll.done = <<>>
  /\ shut.pc # "closing" => shut.todo = <<>>
  /\ shut.pc = "up" => shut.done = <<>>

OneEnd ==
  \A id \in Ids :
    /\ id \in live => ~Called(id) /\ ~Reaped(id) /\ ~Killed(id) /\ ~Stopped(id)
    /\ Called(id) => ~Reaped(id) /\ ~Killed(id) /\ ~Stopped(id)
    /\ Reaped(id) => ~Killed(id) /\ ~Stopped(id)
    /\ Killed(id) => ~Stopped(id)
    /\ Touched(id) => log[id].ends = 0
    /\ log[id].ends <= 1

Untouched(id) == ~Touched(id) /\ log[id].ends = 0

Opening ==
  /\ \A o \in Openers : open[o].pc # "idle" =>
       /\ open[o].id \in Ids
       /\ obj[open[o].id] # NoSession
       /\ open[o].id \notin told
       /\ open[o].pc \in {"signed", "dialed", "refused"} => Untouched(open[o].id)
  /\ \A o, p \in Openers :
       open[o].pc # "idle" /\ open[p].pc # "idle" /\ open[o].id = open[p].id => o = p
  /\ \A id \in Ids : obj[id] = NoSession => Untouched(id) /\ id \notin told

Telling ==
  /\ ran \subseteq told
  /\ \A id \in told : FailClosed => log[id].open
  /\ \A x \in Execs : IF exec[x].pc = "idle" THEN exec[x].id = NoId ELSE exec[x].id \in told

Using(id) == {x \in Execs : exec[x].id = id /\ exec[x].pc # "closing"}

\* n numbers are enough to give every member of S one.
Covers(n, S) ==
  \E g \in [1 .. n -> Execs] : \A x \in S : \E k \in 1 .. n : g[k] = x

Counted ==
  \A id \in Ids : obj[id] # NoSession => Covers(obj[id].busy, Using(id))

\* NoOrphanConn without its sets: the ends of a queue are in the queue.
Held(id) ==
  \E o \in Openers : open[o].id = id /\ open[o].pc \in {"dialed", "refused", "rollback"}

Guarded(id) ==
  id \in live \/ Held(id) \/ Called(id) \/ Reaped(id) \/ In(poll.todo, id) \/ In(shut.todo, id)

Connected(id) == obj[id] # NoSession /\ obj[id].conn \in {"open", "down"}

NoOrphan == Up => \A id \in Ids : Connected(id) => Guarded(id)

SessionsInv ==
  /\ TypeOK /\ Queues /\ OneEnd /\ Opening /\ Telling
  /\ Counted /\ SparedWhileBusy /\ NoOrphan

-----------------------------------------------------------------------------
(* Sequences in which no value is twice. *)

LEMMA InSeq ==
  ASSUME NEW S, NEW q \in Seq(S), NEW i \in DOMAIN q
  PROVE  q[i] \in S
OBVIOUS

(* Head and Tail by index.                                                 *)
LEMMA HeadTailFacts ==
  ASSUME NEW S, NEW q \in Seq(S), q # <<>>
  PROVE  /\ Head(q) \in S /\ Tail(q) \in Seq(S) /\ Len(q) \in Nat /\ Len(q) > 0
         /\ DOMAIN q = 1 .. Len(q) /\ DOMAIN Tail(q) = 1 .. Len(q) - 1
         /\ Head(q) = q[1] /\ \A i \in 1 .. Len(q) - 1 : Tail(q)[i] = q[i + 1]
<1>1. Head(q) \in S /\ Tail(q) \in Seq(S) /\ Len(Tail(q)) = Len(q) - 1
  OBVIOUS
<1>2. Len(q) \in Nat /\ Len(q) > 0 /\ DOMAIN q = 1 .. Len(q)
  OBVIOUS
<1>3. DOMAIN Tail(q) = 1 .. Len(q) - 1
  BY <1>1
<1>4. \A i \in 1 .. Len(q) - 1 : Tail(q)[i] = q[i + 1]
  BY <1>1, <1>2
<1>5. Head(q) = q[1]
  OBVIOUS
<1> QED
  BY <1>1, <1>2, <1>3, <1>4, <1>5

(* Taking the first of a queue leaves the others, each once (onReap, the   *)
(* loops of enforceRevocations and Engine.Close).                          *)
LEMMA HeadTail ==
  ASSUME NEW S, NEW q \in Seq(S), q # <<>>, Distinct(q)
  PROVE  /\ Head(q) \in S /\ Tail(q) \in Seq(S)
         /\ Distinct(Tail(q))
         /\ ~In(Tail(q), Head(q))
         /\ \A v : In(q, v) <=> v = Head(q) \/ In(Tail(q), v)
<1>1. /\ Head(q) \in S /\ Tail(q) \in Seq(S) /\ Len(q) \in Nat /\ Len(q) > 0
      /\ DOMAIN q = 1 .. Len(q) /\ DOMAIN Tail(q) = 1 .. Len(q) - 1
      /\ Head(q) = q[1] /\ \A i \in 1 .. Len(q) - 1 : Tail(q)[i] = q[i + 1]
  BY HeadTailFacts
<1>2. Distinct(Tail(q)) /\ ~In(Tail(q), Head(q))
  BY SMTT(20), <1>1 DEF Distinct, In
<1>3. ASSUME NEW v, In(q, v) PROVE v = Head(q) \/ In(Tail(q), v)
  <2>1. PICK i \in 1 .. Len(q) : q[i] = v
    BY <1>1, <1>3 DEF In
  <2>2. CASE i = 1
    BY <2>1, <2>2, <1>1
  <2>3. CASE i # 1
    <3>1. i - 1 \in DOMAIN Tail(q) /\ Tail(q)[i - 1] = v
      BY <2>1, <2>3, <1>1
    <3> QED
      BY Zenon, <3>1 DEF In
  <2> QED
    BY <2>2, <2>3
<1>4. ASSUME NEW v, In(Tail(q), v) PROVE In(q, v)
  <2>1. PICK i \in 1 .. Len(q) - 1 : Tail(q)[i] = v
    BY <1>1, <1>4 DEF In
  <2>2. i + 1 \in DOMAIN q /\ q[i + 1] = v
    BY <2>1, <1>1
  <2> QED
    BY <2>2 DEF In
<1>5. In(q, Head(q))
  BY <1>1 DEF In
<1> QED
  BY <1>1, <1>2, <1>3, <1>4, <1>5

(* The same for the reaper's queue, whose entries carry a reason.          *)
LEMMA ReapHeadTail ==
  ASSUME NEW q \in Seq([id : Ids, reason : Reasons]), q # <<>>, DistinctReap(q)
  PROVE  /\ Head(q) \in [id : Ids, reason : Reasons]
         /\ Tail(q) \in Seq([id : Ids, reason : Reasons])
         /\ DistinctReap(Tail(q))
         /\ ~InReap(Tail(q), Head(q).id)
         /\ \A v : InReap(q, v) <=> v = Head(q).id \/ InReap(Tail(q), v)
         /\ \A i \in DOMAIN Tail(q) : \E j \in DOMAIN q : Tail(q)[i] = q[j]
<1>1. /\ Head(q) \in [id : Ids, reason : Reasons]
      /\ Tail(q) \in Seq([id : Ids, reason : Reasons]) /\ Len(q) \in Nat /\ Len(q) > 0
      /\ DOMAIN q = 1 .. Len(q) /\ DOMAIN Tail(q) = 1 .. Len(q) - 1
      /\ Head(q) = q[1] /\ \A i \in 1 .. Len(q) - 1 : Tail(q)[i] = q[i + 1]
  BY Zenon, HeadTailFacts
<1>2. DistinctReap(Tail(q)) /\ ~InReap(Tail(q), Head(q).id)
  BY SMTT(20), <1>1 DEF DistinctReap, InReap
<1>3. ASSUME NEW v, InReap(q, v) PROVE v = Head(q).id \/ InReap(Tail(q), v)
  <2>1. PICK i \in 1 .. Len(q) : q[i].id = v
    BY <1>1, <1>3 DEF InReap
  <2>2. CASE i = 1
    BY <2>1, <2>2, <1>1
  <2>3. CASE i # 1
    <3>1. i - 1 \in DOMAIN Tail(q) /\ Tail(q)[i - 1].id = v
      BY <2>1, <2>3, <1>1
    <3> QED
      BY Zenon, <3>1 DEF InReap
  <2> QED
    BY <2>2, <2>3
<1>4. ASSUME NEW v, InReap(Tail(q), v) PROVE InReap(q, v)
  <2>1. PICK i \in 1 .. Len(q) - 1 : Tail(q)[i].id = v
    BY <1>1, <1>4 DEF InReap
  <2>2. i + 1 \in DOMAIN q /\ q[i + 1].id = v
    BY <2>1, <1>1
  <2> QED
    BY <2>2 DEF InReap
<1>5. InReap(q, Head(q).id)
  BY <1>1 DEF InReap
<1>6. \A i \in DOMAIN Tail(q) : i + 1 \in DOMAIN q /\ Tail(q)[i] = q[i + 1]
  BY <1>1
<1> QED
  BY <1>1, <1>2, <1>3, <1>4, <1>5, <1>6

(* A value that a queue does not have is put at its end (the closed        *)
(* sessions that killMatching and closeAll return for auditing).           *)
LEMMA AppendOne ==
  ASSUME NEW S, NEW q \in Seq(S), NEW e \in S, Distinct(q), ~In(q, e)
  PROVE  /\ Append(q, e) \in Seq(S) /\ Distinct(Append(q, e))
         /\ \A v : In(Append(q, e), v) <=> v = e \/ In(q, v)
<1>1. /\ Append(q, e) \in Seq(S) /\ Len(q) \in Nat /\ DOMAIN q = 1 .. Len(q)
      /\ DOMAIN Append(q, e) = 1 .. Len(q) + 1
      /\ \A i \in 1 .. Len(q) : Append(q, e)[i] = q[i]
      /\ Append(q, e)[Len(q) + 1] = e
  OBVIOUS
<1>2. Distinct(Append(q, e))
  <2> SUFFICES ASSUME NEW i \in 1 .. Len(q) + 1, NEW j \in 1 .. Len(q) + 1,
                      Append(q, e)[i] = Append(q, e)[j]
               PROVE  i = j
    BY <1>1 DEF Distinct
  <2>1. i \in 1 .. Len(q) \/ i = Len(q) + 1
    BY <1>1
  <2>2. j \in 1 .. Len(q) \/ j = Len(q) + 1
    BY <1>1
  <2> QED
    BY <1>1, <2>1, <2>2 DEF Distinct, In
<1>3. ASSUME NEW v, In(Append(q, e), v) PROVE v = e \/ In(q, v)
  <2>1. PICK i \in 1 .. Len(q) + 1 : Append(q, e)[i] = v
    BY <1>1, <1>3 DEF In
  <2>2. i \in 1 .. Len(q) \/ i = Len(q) + 1
    BY <1>1
  <2> QED
    BY <1>1, <2>1, <2>2 DEF In
<1>4. ASSUME NEW v, v = e \/ In(q, v) PROVE In(Append(q, e), v)
  <2>1. Len(q) + 1 \in DOMAIN Append(q, e) /\ DOMAIN q \subseteq DOMAIN Append(q, e)
    BY <1>1
  <2> QED
    BY <1>1, <1>4, <2>1 DEF In
<1> QED
  BY <1>1, <1>2, <1>3, <1>4

LEMMA SeqWidens ==
  ASSUME NEW S, NEW T, S \subseteq T, NEW q \in Seq(S)
  PROVE  q \in Seq(T)
<1>1. Len(q) \in Nat /\ q \in [1 .. Len(q) -> S]
  OBVIOUS
<1>2. q \in [1 .. Len(q) -> T]
  BY <1>1
<1> QED
  BY <1>1, <1>2

(* A walk over a Go map meets every key once.                              *)
LEMMA OrderOf ==
  ASSUME NEW S, NEW q \in Orders(S)
  PROVE  /\ q \in Seq(S) /\ Distinct(q)
         /\ \A v : In(q, v) <=> v \in S
<1>1. /\ q \in Seq(S)
      /\ \A v \in S : \E i \in DOMAIN q : q[i] = v
      /\ \A i, j \in DOMAIN q : q[i] = q[j] => i = j
  BY Zenon DEF Orders
<1>2. \A i \in DOMAIN q : q[i] \in S
  BY <1>1
<1> QED
  BY ZenonT(30), <1>1, <1>2 DEF Distinct, In

-----------------------------------------------------------------------------
(* Counting the calls that use a session: one more, and one fewer. *)

LEMMA CoverNone ==
  ASSUME NEW S, \A x : x \notin S
  PROVE  Covers(0, S)
<1>1. [k \in 1 .. 0 |-> CHOOSE x \in Execs : TRUE] \in [1 .. 0 -> Execs]
  OBVIOUS
<1> QED
  BY Zenon, <1>1 DEF Covers

LEMMA CoverZero ==
  ASSUME NEW n, n = 0, NEW S, Covers(n, S)
  PROVE  \A x : x \notin S
BY DEF Covers

LEMMA CoverMore ==
  ASSUME NEW n \in Nat, NEW S, NEW x \in Execs, Covers(n, S)
  PROVE  Covers(n + 1, S \cup {x})
<1>1. PICK g \in [1 .. n -> Execs] : \A y \in S : \E k \in 1 .. n : g[k] = y
  BY DEF Covers
<1>2. PICK h : h = [k \in 1 .. n + 1 |-> IF k = n + 1 THEN x ELSE g[k]]
  BY Zenon
<1>3. h \in [1 .. n + 1 -> Execs] /\ h[n + 1] = x /\ \A k \in 1 .. n : h[k] = g[k]
  BY <1>2
<1>4. n + 1 \in 1 .. n + 1 /\ \A k \in 1 .. n : k \in 1 .. n + 1
  OBVIOUS
<1>5. \A y \in S \cup {x} : \E k \in 1 .. n + 1 : h[k] = y
  BY Zenon, <1>1, <1>3, <1>4
<1> QED
  BY Zenon, <1>3, <1>5 DEF Covers

\* The number of the one that leaves goes to the last.
LEMMA CoverFewer ==
  ASSUME NEW n \in Nat, NEW S, NEW x \in S, Covers(n, S)
  PROVE  n > 0 /\ Covers(n - 1, S \ {x})
<1>1. PICK g \in [1 .. n -> Execs] : \A y \in S : \E k \in 1 .. n : g[k] = y
  BY DEF Covers
<1>2. PICK m \in 1 .. n : g[m] = x
  BY <1>1
<1>3. n > 0 /\ n - 1 \in Nat
  BY <1>2
<1>4. PICK h : h = [k \in 1 .. n - 1 |-> IF k = m THEN g[n] ELSE g[k]]
  BY Zenon
<1>5. h \in [1 .. n - 1 -> Execs]
  BY <1>3, <1>4
<1>6. ASSUME NEW y \in S \ {x}
      PROVE  \E k \in 1 .. n - 1 : h[k] = y
  <2>1. PICK k \in 1 .. n : g[k] = y
    BY <1>1
  <2>2. k # m
    BY <1>2, <2>1
  <2>3. CASE k = n
    <3>1. m \in 1 .. n - 1 /\ h[m] = y
      BY <1>3, <1>4, <2>1, <2>2, <2>3
    <3> QED
      BY <3>1
  <2>4. CASE k # n
    <3>1. k \in 1 .. n - 1 /\ h[k] = y
      BY <1>3, <1>4, <2>1, <2>2, <2>4
    <3> QED
      BY <3>1
  <2> QED
    BY <2>3, <2>4
<1> QED
  BY Zenon, <1>3, <1>5, <1>6 DEF Covers

-----------------------------------------------------------------------------
(* What a step that leaves a part of the state alone keeps. *)

LEMMA SameHands ==
  ASSUME UNCHANGED <<live, exec, reap, poll, shut>>
  PROVE  \A id : /\ Called(id)' <=> Called(id)
                 /\ Reaped(id)' <=> Reaped(id)
                 /\ Killed(id)' <=> Killed(id)
                 /\ Stopped(id)' <=> Stopped(id)
                 /\ Touched(id)' <=> Touched(id)
BY DEF Touched, Called, Reaped, Killed, Stopped

LEMMA SameQueues ==
  ASSUME Queues, UNCHANGED <<exec, reap, poll, shut>>
  PROVE  Queues'
BY DEF Queues

LEMMA SameEnds ==
  ASSUME OneEnd, UNCHANGED <<live, exec, reap, poll, shut>>,
         \A id \in Ids : log'[id].ends = log[id].ends
  PROVE  /\ OneEnd'
         /\ \A id \in Ids : Untouched(id)' <=> Untouched(id)
BY SameHands DEF OneEnd, Untouched

LEMMA SameTelling ==
  ASSUME Telling, UNCHANGED <<ran, told, log, exec>>
  PROVE  Telling'
BY DEF Telling

LEMMA SameSpared ==
  ASSUME SparedWhileBusy, UNCHANGED <<reap, exec>>
  PROVE  SparedWhileBusy'
BY Zenon DEF SparedWhileBusy

LEMMA SameOpening ==
  ASSUME Opening, UNCHANGED <<open, told>>,
         \A id \in Ids : obj'[id] = NoSession <=> obj[id] = NoSession,
         \A id \in Ids : Untouched(id) => Untouched(id)'
  PROVE  Opening'
<1>1. \A o \in Openers : open[o].pc # "idle" =>
        /\ open[o].id \in Ids
        /\ obj'[open[o].id] # NoSession
        /\ open[o].id \notin told
        /\ open[o].pc \in {"signed", "dialed", "refused"} => Untouched(open[o].id)'
  <2> SUFFICES ASSUME NEW o \in Openers, open[o].pc # "idle"
               PROVE  /\ open[o].id \in Ids
                      /\ obj'[open[o].id] # NoSession
                      /\ open[o].id \notin told
                      /\ open[o].pc \in {"signed", "dialed", "refused"} => Untouched(open[o].id)'
    OBVIOUS
  <2>1. PICK id \in Ids : id = open[o].id
    BY DEF Opening
  <2> QED
    BY <2>1 DEF Opening
<1> QED
  BY <1>1 DEF Opening

-----------------------------------------------------------------------------
LEMMA InitSessions == Init => SessionsInv
<1> SUFFICES ASSUME Init PROVE SessionsInv
  OBVIOUS
<1>1. TypeOK
  BY SessionsAssumption DEF Init, TypeOK
<1>3. Queues
  BY DEF Init, Queues, Distinct, DistinctReap, In
<1>4. \A id \in Ids : Untouched(id)
  BY DEF Init, Untouched, Touched, Called, Reaped, Killed, Stopped, In, InReap
<1>5. OneEnd
  BY <1>4 DEF OneEnd, Untouched, Touched
<1>6. Opening
  BY <1>4 DEF Init, Opening
<1>7. Telling
  BY DEF Init, Telling
<1>8. Counted
  BY DEF Init, Counted
<1>9. SparedWhileBusy
  <2>1. DOMAIN reap = {}
    BY DEF Init
  <2> QED
    BY Zenon, <2>1 DEF SparedWhileBusy
<1>10. NoOrphan
  BY DEF Init, NoOrphan, Connected
<1> QED
  BY <1>1, <1>3, <1>5, <1>6, <1>7, <1>8, <1>9, <1>10 DEF SessionsInv

-----------------------------------------------------------------------------
(* Steps that touch only the sessions themselves: liveSession.close and    *)
(* the passage of time.                                                    *)

LEMMA ObjOnly ==
  ASSUME SessionsInv,
         UNCHANGED <<live, open, exec, reap, poll, shut, frozen, told, log, ran>>,
         obj' \in [Ids -> Session \cup {NoSession}],
         \A id \in Ids : /\ obj'[id] = NoSession <=> obj[id] = NoSession
                         /\ obj[id] # NoSession => obj'[id].busy = obj[id].busy
                         /\ Connected(id)' => Connected(id)
  PROVE  SessionsInv'
<1>1. TypeOK'
  BY Zenon DEF SessionsInv, TypeOK
<1>2. Queues' /\ OneEnd' /\ Telling' /\ SparedWhileBusy'
  BY SameQueues, SameEnds, SameTelling, SameSpared DEF SessionsInv
<1>3. Opening'
  BY SameEnds, SameOpening DEF SessionsInv
<1>4. Counted'
  BY Zenon DEF SessionsInv, Counted, Using
<1>5. NoOrphan'
  BY SameHands DEF SessionsInv, NoOrphan, Guarded, Held, Up
<1> QED
  BY Zenon, <1>1, <1>2, <1>3, <1>4, <1>5 DEF SessionsInv

(* A session that is being closed exists.                                  *)
LEMMA ClosingExists ==
  ASSUME SessionsInv, NEW i \in Ids, i \in Closing
  PROVE  obj[i] # NoSession
<1>1. CASE \E o \in Openers : open[o].pc \in {"refused", "rollback"} /\ open[o].id = i
  BY <1>1 DEF SessionsInv, Opening
<1>2. CASE \E x \in Execs : exec[x].pc = "closing" /\ exec[x].id = i
  BY <1>2 DEF SessionsInv, Opening, Untouched, Touched, Called
<1>3. CASE reap # <<>> /\ Head(reap).id = i
  <2>1. Reaped(i)
    BY Zenon, <1>3, ReapHeadTail DEF SessionsInv, TypeOK, Queues, Reaped
  <2> QED
    BY <2>1 DEF SessionsInv, Opening, Untouched, Touched
<1>4. CASE poll.todo # <<>> /\ Head(poll.todo) = i
  <2>1. poll.todo \in Seq(Ids) /\ Distinct(poll.todo)
    BY DEF SessionsInv, TypeOK, Queues
  <2>2. In(poll.todo, i)
    BY Zenon, <1>4, <2>1, HeadTail
  <2> QED
    BY <2>2 DEF SessionsInv, Opening, Untouched, Touched, Killed
<1>5. CASE shut.todo # <<>> /\ Head(shut.todo) = i
  <2>1. shut.todo \in Seq(Ids) /\ Distinct(shut.todo)
    BY DEF SessionsInv, TypeOK, Queues
  <2>2. In(shut.todo, i)
    BY <1>5, <2>1, HeadTail
  <2> QED
    BY <2>2 DEF SessionsInv, Opening, Untouched, Touched, Stopped
<1> QED
  BY <1>1, <1>2, <1>3, <1>4, <1>5 DEF Closing

(* A session record with other ages, another connection state or another   *)
(* counter is a session record.                                            *)
WithConn(s, k) == [s EXCEPT !.conn = k]
WithUse(s, n) == [s EXCEPT !.idle = 0, !.busy = n]
WithAges(s, d, l, c) == [s EXCEPT !.idle = d, !.life = l, !.cert = c]

LEMMA SessionFields ==
  ASSUME NEW s \in Session, NEW d \in Age(IdleTTL), NEW l \in Age(MaxLife),
         NEW c \in Age(CertTTL), NEW n \in Nat, NEW k \in {"none", "open", "down", "closed"}
  PROVE  /\ WithConn(s, k) \in Session
         /\ WithConn(s, k).conn = k /\ WithConn(s, k).busy = s.busy
         /\ WithAges(s, d, l, c) \in Session
         /\ WithAges(s, d, l, c).conn = s.conn /\ WithAges(s, d, l, c).busy = s.busy
BY Zenon DEF Session, WithConn, WithAges

LEMMA AgeTypes ==
  /\ 0 \in Age(IdleTTL) /\ 0 \in Age(MaxLife) /\ 0 \in Age(CertTTL)
  /\ \A a \in Age(IdleTTL) : Older(a, IdleTTL) \in Age(IdleTTL)
  /\ \A a \in Age(MaxLife) : Older(a, MaxLife) \in Age(MaxLife)
  /\ \A a \in Age(CertTTL) : Older(a, CertTTL) \in Age(CertTTL)
BY SessionsAssumption DEF Age, Older

LEMMA UseFields ==
  ASSUME NEW s \in Session, NEW n \in Nat
  PROVE  WithUse(s, n) \in Session /\ WithUse(s, n).conn = s.conn /\ WithUse(s, n).busy = n
BY Zenon, AgeTypes DEF Session, WithUse

LEMMA CloseTransportInv ==
  ASSUME SessionsInv, NEW i \in Ids, closeTransport(i)
  PROVE  SessionsInv'
<1>1. obj \in [Ids -> Session \cup {NoSession}] /\ obj[i] \in Session /\ obj[i].conn = "open"
  BY ClosingExists DEF SessionsInv, TypeOK, closeTransport
<1>2. PICK s : s = WithConn(obj[i], "down")
  OBVIOUS
<1>3. s \in Session /\ s.busy = obj[i].busy
  BY <1>1, <1>2, SessionFields, AgeTypes
<1>4. obj' = [obj EXCEPT ![i] = s]
  BY <1>2 DEF closeTransport, WithConn
<1>5. obj' \in [Ids -> Session \cup {NoSession}] /\ s # NoSession /\ obj[i] # NoSession
  BY <1>1, <1>3, <1>4, NoSessionAssumption
<1>6. \A id \in Ids : /\ obj'[id] = NoSession <=> obj[id] = NoSession
                      /\ obj[id] # NoSession => obj'[id].busy = obj[id].busy
                      /\ Connected(id)' => Connected(id)
  BY <1>1, <1>3, <1>4, <1>5 DEF Connected
<1> QED
  BY <1>5, <1>6, ObjOnly DEF closeTransport

LEMMA CloseShellInv ==
  ASSUME SessionsInv, NEW i \in Ids, closeShell(i)
  PROVE  SessionsInv'
<1>1. obj \in [Ids -> Session \cup {NoSession}] /\ obj[i] \in Session /\ obj[i].conn = "down"
  BY ClosingExists DEF SessionsInv, TypeOK, closeShell
<1>2. PICK s : s = WithAges(WithConn(obj[i], "closed"), 0, 0, 0)
  OBVIOUS
<1>3. s \in Session /\ s.busy = obj[i].busy
  BY SMTT(20), <1>1, <1>2, SessionFields, AgeTypes
<1>4. obj' = [obj EXCEPT ![i] = s]
  BY <1>2 DEF closeShell, WithConn, WithAges
<1>5. obj' \in [Ids -> Session \cup {NoSession}] /\ s # NoSession /\ obj[i] # NoSession
  BY <1>1, <1>3, <1>4, NoSessionAssumption
<1>6. \A id \in Ids : /\ obj'[id] = NoSession <=> obj[id] = NoSession
                      /\ obj[id] # NoSession => obj'[id].busy = obj[id].busy
                      /\ Connected(id)' => Connected(id)
  BY <1>1, <1>3, <1>4, <1>5 DEF Connected
<1> QED
  BY <1>5, <1>6, ObjOnly DEF closeShell

LEMMA TickInv ==
  ASSUME SessionsInv, Tick
  PROVE  SessionsInv'
<1>1. obj \in [Ids -> Session \cup {NoSession}]
  BY DEF SessionsInv, TypeOK
<1>2. ASSUME NEW s \in Session
      PROVE  Aged(s) \in Session /\ Aged(s).busy = s.busy /\ Aged(s).conn = s.conn
  <2>1. s # NoSession /\ s.idle \in Age(IdleTTL) /\ s.life \in Age(MaxLife) /\ s.cert \in Age(CertTTL)
    BY NoSessionAssumption DEF Session
  <2>2. PICK d \in Age(IdleTTL), l \in Age(MaxLife), c \in Age(CertTTL) :
          d = Older(s.idle, IdleTTL) /\ l = Older(s.life, MaxLife) /\ c = Older(s.cert, CertTTL)
    BY <2>1, AgeTypes
  <2>3. Aged(s) = s \/ Aged(s) = WithAges(s, d, l, c)
    BY <2>1, <2>2 DEF Aged, WithAges
  <2> QED
    BY <2>3, SessionFields
<1>3. Aged(NoSession) = NoSession
  BY DEF Aged
<1>4. \A id \in Ids : obj'[id] = Aged(obj[id])
  BY DEF Tick
<1>5. obj' \in [Ids -> Session \cup {NoSession}]
  BY <1>1, <1>2, <1>3 DEF Tick
<1>6. \A id \in Ids : /\ obj'[id] = NoSession <=> obj[id] = NoSession
                      /\ obj[id] # NoSession => obj'[id].busy = obj[id].busy
                      /\ Connected(id)' => Connected(id)
  BY <1>1, <1>2, <1>3, <1>4, NoSessionAssumption DEF Connected
<1> QED
  BY <1>5, <1>6, ObjOnly DEF Tick

-----------------------------------------------------------------------------
(* The steps of OpenSession. *)

LEMMA OpenTypes ==
  ASSUME TypeOK, NEW o \in Openers
  PROVE  /\ open[o].id \in Ids \cup {NoId}
         /\ open[o].pc \in {"idle", "signed", "dialed", "refused", "added", "rollback"}
BY Zenon DEF TypeOK

(* What Opening needs of a step of one opener that touches no hand and     *)
(* tells nobody.                                                           *)
LEMMA OpenerMoves ==
  ASSUME SessionsInv, NEW o \in Openers, NEW r,
         open' = [open EXCEPT ![o] = r], UNCHANGED <<live, exec, reap, poll, shut, told>>,
         \A id \in Ids : log'[id].ends = log[id].ends,
         \A id \in Ids : obj'[id] = NoSession => obj[id] = NoSession,
         r.pc # "idle" => /\ r.id \in Ids /\ obj'[r.id] # NoSession /\ r.id \notin told
                          /\ r.pc \in {"signed", "dialed", "refused"} => Untouched(r.id)
                          /\ \A p \in Openers \ {o} : open[p].pc # "idle" => open[p].id # r.id
  PROVE  Opening'
<1>1. \A id \in Ids : Untouched(id)' <=> Untouched(id)
  BY Zenon, SameEnds DEF SessionsInv
<1>2. \A p \in Openers : open'[p] = IF p = o THEN r ELSE open[p]
  BY Zenon DEF SessionsInv, TypeOK
<1>3. ASSUME NEW p \in Openers, open'[p].pc # "idle"
      PROVE  /\ open'[p].id \in Ids
             /\ obj'[open'[p].id] # NoSession
             /\ open'[p].id \notin told'
             /\ open'[p].pc \in {"signed", "dialed", "refused"} => Untouched(open[p].id)'
  <2>1. CASE p = o
    <3>1. PICK id \in Ids : id = r.id
      BY <1>2, <1>3, <2>1
    <3>2. open'[p].id = id /\ obj'[id] # NoSession /\ id \notin told
      BY Zenon, <1>2, <1>3, <2>1, <3>1
    <3>3. open'[p].pc \in {"signed", "dialed", "refused"} => Untouched(id)'
      BY Zenon, <1>1, <1>2, <1>3, <2>1, <3>1
    <3> QED
      BY Zenon, <3>2, <3>3
  <2>2. CASE p # o
    <3>1. PICK id \in Ids : id = open[p].id
      BY Zenon, <1>2, <1>3, <2>2 DEF SessionsInv, Opening
    <3>2. open'[p].id = id /\ obj'[id] # NoSession /\ id \notin told
      BY Zenon, <1>2, <1>3, <2>2, <3>1 DEF SessionsInv, Opening
    <3>3. open'[p].pc \in {"signed", "dialed", "refused"} => Untouched(id)'
      BY Zenon, <1>1, <1>2, <1>3, <2>2, <3>1 DEF SessionsInv, Opening
    <3> QED
      BY <3>2, <3>3
  <2> QED
    BY Zenon, <2>1, <2>2
<1>4. \A p, q \in Openers :
        open'[p].pc # "idle" /\ open'[q].pc # "idle" /\ open'[p].id = open'[q].id => p = q
  BY <1>2 DEF SessionsInv, Opening
<1>5. \A id \in Ids : obj'[id] = NoSession => Untouched(id)' /\ id \notin told'
  BY Zenon, <1>1 DEF SessionsInv, Opening
<1> QED
  BY Zenon, <1>3, <1>4, <1>5 DEF Opening

OpenState ==
  [pc : {"idle", "signed", "dialed", "refused", "added", "rollback"}, id : Ids \cup {NoId}]

LEMMA OpenerStep ==
  ASSUME SessionsInv, NEW o \in Openers, NEW r \in OpenState,
         open' = [open EXCEPT ![o] = r],
         UNCHANGED <<live, exec, reap, poll, shut, frozen, told, log, ran>>,
         obj' \in [Ids -> Session \cup {NoSession}],
         \A id \in Ids : obj'[id] = NoSession => obj[id] = NoSession,
         r.pc # "idle" => /\ r.id \in Ids /\ obj'[r.id] # NoSession /\ r.id \notin told
                          /\ r.pc \in {"signed", "dialed", "refused"} => Untouched(r.id)
                          /\ \A p \in Openers \ {o} : open[p].pc # "idle" => open[p].id # r.id,
         Counted', NoOrphan'
  PROVE  SessionsInv'
<1>1. TypeOK'
  BY Zenon DEF SessionsInv, TypeOK, OpenState
<1>2. Queues' /\ OneEnd' /\ Telling' /\ SparedWhileBusy'
  BY SameQueues, SameEnds, SameTelling, SameSpared DEF SessionsInv
<1>3. Opening'
  BY Zenon, OpenerMoves
<1> QED
  BY Zenon, <1>1, <1>2, <1>3 DEF SessionsInv

(* The sessions an opener holds, after its step.                           *)
LEMMA HeldMoves ==
  ASSUME TypeOK, NEW o \in Openers, NEW r, open' = [open EXCEPT ![o] = r]
  PROVE  \A id : Held(id)' <=>
           \/ r.id = id /\ r.pc \in {"dialed", "refused", "rollback"}
           \/ \E p \in Openers \ {o} :
                open[p].id = id /\ open[p].pc \in {"dialed", "refused", "rollback"}
<1>1. \A p \in Openers : open'[p] = IF p = o THEN r ELSE open[p]
  BY DEF TypeOK
<1> QED
  BY <1>1 DEF Held

(* Nobody uses a session that was not told to a caller.                    *)
LEMMA Unused ==
  ASSUME SessionsInv, NEW id \in Ids, id \notin told
  PROVE  Using(id) = {}
BY SessionsAssumption DEF SessionsInv, Telling, Using

LEMMA OpenSessionInv ==
  ASSUME SessionsInv, NEW o \in Openers, NEW c \in Callers, NEW m \in Modes, NEW i \in Ids,
         OpenSession(o, c, m, i)
  PROVE  SessionsInv'
<1>1. TypeOK /\ obj \in [Ids -> Session \cup {NoSession}] /\ obj[i] = NoSession
  BY Zenon DEF SessionsInv, TypeOK, OpenSession
<1>2. PICK s : s = [caller |-> c, mode |-> m, idle |-> 0, life |-> 0, cert |-> 0,
                    busy |-> 0, conn |-> "none"]
  BY Zenon
<1>3. s \in Session /\ s.busy = 0 /\ s.conn = "none"
  BY <1>2, AgeTypes DEF Session
<1>4. s # NoSession
  BY Zenon, <1>3, NoSessionAssumption
<1>5. obj' = [obj EXCEPT ![i] = s]
  BY <1>2 DEF OpenSession
<1>6. /\ obj' \in [Ids -> Session \cup {NoSession}]
      /\ \A id \in Ids : obj'[id] = IF id = i THEN s ELSE obj[id]
  BY <1>1, <1>3, <1>5
<1>7. PICK r : r = [pc |-> "signed", id |-> i]
  BY Zenon
<1>8. r \in OpenState /\ r.pc = "signed" /\ r.id = i /\ open' = [open EXCEPT ![o] = r]
  BY Zenon, <1>7 DEF OpenState, OpenSession
<1>9. /\ Untouched(i) /\ i \notin told
      /\ \A p \in Openers : open[p].pc # "idle" => open[p].id # i
  BY Zenon, <1>1 DEF SessionsInv, Opening
<1>10. UNCHANGED <<live, exec, reap, poll, shut, frozen, told, log, ran>> /\ open[o].pc = "idle"
  BY DEF OpenSession
<1>11. Counted'
  <2> SUFFICES ASSUME NEW id \in Ids, obj'[id] # NoSession
               PROVE  Covers(obj'[id].busy, Using(id)')
    BY DEF Counted
  <2>1. Using(id)' = Using(id)
    BY <1>10 DEF Using
  <2>2. CASE id = i
    BY Zenon, <2>1, <2>2, <1>3, <1>6, <1>9, Unused, CoverNone
  <2>3. CASE id # i
    BY <2>1, <2>3, <1>6 DEF SessionsInv, Counted
  <2> QED
    BY <2>2, <2>3
<1>12. NoOrphan'
  <2> SUFFICES ASSUME Up', NEW id \in Ids, Connected(id)'
               PROVE  Guarded(id)'
    BY Zenon DEF NoOrphan
  <2>1. id # i /\ Connected(id)
    BY Zenon, <1>3, <1>6 DEF Connected
  <2>2. Guarded(id)
    BY Zenon, <2>1, <1>10 DEF SessionsInv, NoOrphan, Up
  <2>3. Held(id) => Held(id)'
    BY <1>1, <1>8, <1>10, HeldMoves DEF Held
  <2> QED
    BY Zenon, <2>2, <2>3, <1>10, SameHands DEF Guarded
<1> QED
  BY Zenon, <1>4, <1>6, <1>8, <1>9, <1>10, <1>11, <1>12, OpenerStep

LEMMA SameCounted ==
  ASSUME Counted, UNCHANGED exec,
         \A id \in Ids : obj'[id] # NoSession =>
                           obj[id] # NoSession /\ obj'[id].busy = obj[id].busy
  PROVE  Counted'
BY Zenon DEF Counted, Using

(* An opener that is at work has a session of its own.                     *)
LEMMA OpenerHas ==
  ASSUME SessionsInv, NEW o \in Openers, open[o].pc # "idle"
  PROVE  /\ open[o].id \in Ids /\ obj[open[o].id] \in Session /\ open[o].id \notin told
         /\ obj[open[o].id] # NoSession
         /\ \A p \in Openers \ {o} : open[p].pc # "idle" => open[p].id # open[o].id
         /\ open[o].pc \in {"signed", "dialed", "refused"} => Untouched(open[o].id)
BY DEF SessionsInv, Opening, TypeOK

LEMMA DialFailedInv ==
  ASSUME SessionsInv, NEW o \in Openers, dialFailed(o)
  PROVE  SessionsInv'
<1>1. /\ open[o].pc = "signed"
      /\ UNCHANGED <<live, exec, reap, poll, shut, frozen, told, log, ran>>
      /\ TypeOK /\ obj \in [Ids -> Session \cup {NoSession}]
  BY DEF dialFailed, SessionsInv, TypeOK
<1>2. PICK i \in Ids : i = open[o].id
  BY <1>1, OpenerHas
<1>3. PICK s : s = WithConn(obj[i], "closed")
  OBVIOUS
<1>4. s \in Session /\ s.busy = obj[i].busy /\ s.conn = "closed" /\ s # NoSession
  <2>1. obj[i] \in Session
    BY <1>1, <1>2, OpenerHas
  <2> QED
    BY Zenon, <2>1, <1>3, SessionFields, AgeTypes, NoSessionAssumption
<1>5. obj' = [obj EXCEPT ![i] = s]
  BY Zenon, <1>2, <1>3 DEF dialFailed, WithConn
<1>6. /\ obj' \in [Ids -> Session \cup {NoSession}]
      /\ \A id \in Ids : obj'[id] = IF id = i THEN s ELSE obj[id]
  BY <1>1, <1>4, <1>5
<1>7. PICK r : r = [pc |-> "idle", id |-> NoId]
  BY Zenon
<1>8. r \in OpenState /\ r.pc = "idle" /\ open' = [open EXCEPT ![o] = r]
  BY Zenon, <1>7 DEF OpenState, dialFailed
<1>9. Counted'
  <2>1. obj[i] # NoSession
    BY Zenon, <1>1, <1>2, OpenerHas
  <2> QED
    BY Zenon, <2>1, <1>1, <1>4, <1>6, SameCounted DEF SessionsInv
<1>10. NoOrphan'
  <2> SUFFICES ASSUME Up', NEW id \in Ids, Connected(id)'
               PROVE  Guarded(id)'
    BY DEF NoOrphan
  <2>1. id # i /\ Connected(id)
    BY Zenon, <1>4, <1>6 DEF Connected
  <2>2. Guarded(id)
    BY Zenon, <2>1, <1>1 DEF SessionsInv, NoOrphan, Up
  <2>3. Held(id) => Held(id)'
    BY <1>1, <1>8, HeldMoves DEF Held
  <2> QED
    BY <2>2, <2>3, <1>1, SameHands DEF Guarded
<1> QED
  BY Zenon, <1>1, <1>4, <1>6, <1>8, <1>9, <1>10, OpenerStep

LEMMA DialedInv ==
  ASSUME SessionsInv, NEW o \in Openers, dialed(o)
  PROVE  SessionsInv'
<1>1. /\ open[o].pc = "signed"
      /\ UNCHANGED <<live, exec, reap, poll, shut, frozen, told, log, ran>>
      /\ TypeOK /\ obj \in [Ids -> Session \cup {NoSession}]
      /\ open \in [Openers -> OpenState]
  BY DEF dialed, SessionsInv, TypeOK, OpenState
<1>2. PICK i \in Ids : i = open[o].id
  BY Zenon, <1>1, OpenerHas
<1>3. obj[i] \in Session /\ obj[i] # NoSession /\ i \notin told /\ Untouched(i)
      /\ \A p \in Openers \ {o} : open[p].pc # "idle" => open[p].id # i
  BY <1>1, <1>2, OpenerHas
<1>4. PICK s : s = [obj[i] EXCEPT !.conn = "open", !.idle = 0, !.life = 0]
  OBVIOUS
<1>5. s \in Session /\ s.busy = obj[i].busy
  BY Zenon, <1>3, <1>4, AgeTypes DEF Session
<1>6. obj' = [obj EXCEPT ![i] = s] /\ s # NoSession
  BY <1>2, <1>4, <1>5, NoSessionAssumption DEF dialed
<1>7. /\ obj' \in [Ids -> Session \cup {NoSession}]
      /\ \A id \in Ids : obj'[id] = IF id = i THEN s ELSE obj[id]
  BY <1>1, <1>5, <1>6
<1>8. PICK pc \in {"dialed", "refused"} : open' = [open EXCEPT ![o].pc = pc]
  BY Zenon DEF dialed
<1>9. PICK r : r = [open[o] EXCEPT !.pc = pc]
  BY Zenon
<1>10. r \in OpenState /\ r.pc = pc /\ r.id = i /\ open' = [open EXCEPT ![o] = r]
  BY Zenon, <1>1, <1>2, <1>8, <1>9 DEF OpenState
<1>11. Counted'
  BY <1>1, <1>3, <1>5, <1>7, SameCounted DEF SessionsInv
<1>12. NoOrphan'
  <2> SUFFICES ASSUME Up', NEW id \in Ids, Connected(id)'
               PROVE  Guarded(id)'
    BY DEF NoOrphan
  <2>1. CASE id = i
    <3>1. Held(id)'
      <4>1. r.id = id /\ r.pc \in {"dialed", "refused", "rollback"}
        BY <2>1, <1>8, <1>10
      <4> QED
        BY Zenon, <4>1, <1>1, <1>10, HeldMoves
    <3> QED
      BY <3>1 DEF Guarded
  <2>2. CASE id # i
    <3>1. Connected(id)
      BY <2>2, <1>7 DEF Connected
    <3>2. Guarded(id)
      BY Zenon, <3>1, <1>1 DEF SessionsInv, NoOrphan, Up
    <3>3. Held(id) => Held(id)'
      BY <1>1, <1>2, <1>10, <2>2, HeldMoves DEF Held
    <3> QED
      BY Zenon, <3>2, <3>3, <1>1, SameHands DEF Guarded
  <2> QED
    BY <2>1, <2>2
<1> QED
  BY Zenon, <1>1, <1>3, <1>6, <1>7, <1>8, <1>10, <1>11, <1>12, OpenerStep

LEMMA OpenFailedInv ==
  ASSUME SessionsInv, NEW o \in Openers, openFailed(o)
  PROVE  SessionsInv'
<1>1. /\ open[o].pc \in {"refused", "rollback"} /\ Closed(open[o].id)
      /\ UNCHANGED <<obj, live, exec, reap, poll, shut, frozen, told, log, ran>>
      /\ TypeOK /\ obj \in [Ids -> Session \cup {NoSession}]
  BY Zenon DEF openFailed, SessionsInv, TypeOK
<1>2. PICK r : r = [pc |-> "idle", id |-> NoId]
  BY Zenon
<1>3. r \in OpenState /\ r.pc = "idle" /\ open' = [open EXCEPT ![o] = r]
  BY <1>2 DEF OpenState, openFailed
<1>4. Counted'
  BY Zenon, <1>1, SameCounted DEF SessionsInv
<1>5. NoOrphan'
  <2> SUFFICES ASSUME Up', NEW id \in Ids, Connected(id)'
               PROVE  Guarded(id)'
    BY DEF NoOrphan
  <2>1. id # open[o].id /\ Connected(id)
    BY Zenon, <1>1 DEF Connected, Closed
  <2>2. Guarded(id)
    BY Zenon, <2>1, <1>1 DEF SessionsInv, NoOrphan, Up
  <2>3. Held(id) => Held(id)'
    BY SMTT(20), <1>1, <1>3, <2>1, HeldMoves DEF Held
  <2> QED
    BY Zenon, <2>2, <2>3, <1>1, SameHands DEF Guarded
<1> QED
  BY Zenon, <1>1, <1>3, <1>4, <1>5, OpenerStep

(* The hands other than the map, under a step that changes the map only.   *)
LEMMA HandsButMap ==
  ASSUME UNCHANGED <<exec, reap, poll, shut>>
  PROVE  \A id : /\ Called(id)' <=> Called(id)
                 /\ Reaped(id)' <=> Reaped(id)
                 /\ Killed(id)' <=> Killed(id)
                 /\ Stopped(id)' <=> Stopped(id)
                 /\ In(poll.todo, id)' <=> In(poll.todo, id)
                 /\ In(shut.todo, id)' <=> In(shut.todo, id)
BY DEF Called, Reaped, Killed, Stopped, In

LEMMA AddFullInv ==
  ASSUME SessionsInv, NEW o \in Openers, open[o].pc = "dialed",
         open' = [open EXCEPT ![o].pc = "refused"],
         UNCHANGED <<obj, live, exec, reap, poll, shut, frozen, told, log, ran>>
  PROVE  SessionsInv'
<1>1. TypeOK /\ obj \in [Ids -> Session \cup {NoSession}] /\ open \in [Openers -> OpenState]
  BY DEF SessionsInv, TypeOK, OpenState
<1>2. PICK r : r = [open[o] EXCEPT !.pc = "refused"]
  BY Zenon
<1>3. r \in OpenState /\ r.pc = "refused" /\ r.id = open[o].id /\ open' = [open EXCEPT ![o] = r]
  BY <1>1, <1>2 DEF OpenState
<1>4. Counted'
  BY SameCounted DEF SessionsInv
<1>5. NoOrphan'
  <2> SUFFICES ASSUME Up', NEW id \in Ids, Connected(id)'
               PROVE  Guarded(id)'
    BY DEF NoOrphan
  <2>1. Guarded(id)
    BY DEF SessionsInv, NoOrphan, Up, Connected
  <2>2. Held(id) => Held(id)'
    BY <1>1, <1>3, HeldMoves DEF Held
  <2> QED
    BY <2>1, <2>2, SameHands DEF Guarded
<1>6. /\ r.id \in Ids /\ obj'[r.id] # NoSession /\ r.id \notin told /\ Untouched(r.id)
      /\ \A p \in Openers \ {o} : open[p].pc # "idle" => open[p].id # r.id
  BY <1>3, OpenerHas
<1> QED
  BY Zenon, <1>1, <1>3, <1>4, <1>5, <1>6, OpenerStep

LEMMA AddedInv ==
  ASSUME SessionsInv, NEW o \in Openers, open[o].pc = "dialed",
         open' = [open EXCEPT ![o].pc = "added"], live' = live \cup {open[o].id},
         UNCHANGED <<obj, exec, reap, poll, shut, frozen, told, log, ran>>
  PROVE  SessionsInv'
<1>1. TypeOK /\ open \in [Openers -> OpenState] /\ live \subseteq Ids
  BY DEF SessionsInv, TypeOK, OpenState
<1>2. PICK i \in Ids : i = open[o].id
  BY OpenerHas
<1>3. /\ obj[i] # NoSession /\ i \notin told /\ Untouched(i)
      /\ \A p \in Openers \ {o} : open[p].pc # "idle" => open[p].id # i
  BY <1>2, OpenerHas
<1>4. \A p \in Openers : /\ open'[p].id = open[p].id
                         /\ open'[p].pc = IF p = o THEN "added" ELSE open[p].pc
  BY <1>1 DEF OpenState
<1>5. TypeOK'
  <2>1. open' \in [Openers -> OpenState] /\ live' \subseteq Ids
    BY <1>1, <1>2 DEF OpenState
  <2> QED
    BY Zenon, <1>1, <2>1 DEF TypeOK, OpenState
<1>7. Queues' /\ Telling' /\ SparedWhileBusy' /\ Counted'
  BY SameQueues, SameTelling, SameSpared, SameCounted DEF SessionsInv
<1>8. live' = live \cup {i}
  BY <1>2
<1>9. \A id \in Ids : Touched(id)' <=> Touched(id) \/ id = i
  BY <1>8, HandsButMap DEF Touched
<1>10. OneEnd'
  BY <1>3, <1>8, <1>9, HandsButMap DEF SessionsInv, OneEnd, Untouched, Touched
<1>11. \A id \in Ids \ {i} : Untouched(id)' <=> Untouched(id)
  BY <1>9 DEF Untouched
<1>12. Opening'
  <2>1. ASSUME NEW p \in Openers, open'[p].pc # "idle"
        PROVE  /\ open'[p].id \in Ids
               /\ obj'[open'[p].id] # NoSession
               /\ open'[p].id \notin told'
               /\ open'[p].pc \in {"signed", "dialed", "refused"} => Untouched(open[p].id)'
    <3>1. PICK id \in Ids : id = open[p].id /\ obj[id] # NoSession /\ id \notin told
      BY Zenon, <2>1, <1>2, <1>3, <1>4 DEF SessionsInv, Opening
    <3>2. open'[p].pc \in {"signed", "dialed", "refused"} => id # i /\ Untouched(id)
      BY <2>1, <3>1, <1>3, <1>4 DEF SessionsInv, Opening
    <3>3. open'[p].pc \in {"signed", "dialed", "refused"} => Untouched(id)'
      BY <3>2, <1>11
    <3> QED
      BY <3>1, <3>3, <1>4
  <2>2. \A p, q \in Openers :
          open'[p].pc # "idle" /\ open'[q].pc # "idle" /\ open'[p].id = open'[q].id => p = q
    BY <1>4 DEF SessionsInv, Opening
  <2>3. \A id \in Ids : obj'[id] = NoSession => Untouched(id)' /\ id \notin told'
    BY <1>3, <1>11 DEF SessionsInv, Opening
  <2> QED
    BY <2>1, <2>2, <2>3 DEF Opening
<1>13. NoOrphan'
  <2> SUFFICES ASSUME Up', NEW id \in Ids, Connected(id)'
               PROVE  Guarded(id)'
    BY DEF NoOrphan
  <2>1. Guarded(id)
    BY DEF SessionsInv, NoOrphan, Up, Connected
  <2>2. Held(id) => Held(id)' \/ id = i
    BY <1>2, <1>4 DEF Held
  <2> QED
    BY <2>1, <2>2, <1>8, HandsButMap DEF Guarded
<1> QED
  BY <1>5, <1>7, <1>10, <1>12, <1>13 DEF SessionsInv

LEMMA AddInv ==
  ASSUME SessionsInv, NEW o \in Openers, add(o)
  PROVE  SessionsInv'
<1>1. /\ open[o].pc = "dialed"
      /\ UNCHANGED <<obj, exec, reap, poll, shut, frozen, told, log, ran>>
      /\ \/ open' = [open EXCEPT ![o].pc = "refused"] /\ live' = live
         \/ open' = [open EXCEPT ![o].pc = "added"] /\ live' = live \cup {open[o].id}
  BY Zenon DEF add
<1> QED
  BY <1>1, AddFullInv, AddedInv

(* The session_open record was written, or need not be: the id is told.    *)
LEMMA AuditToldInv ==
  ASSUME SessionsInv, NEW o \in Openers, NEW ok \in BOOLEAN, open[o].pc = "added",
         ok \/ ~FailClosed, log' = [log EXCEPT ![open[o].id].open = ok],
         told' = told \cup {open[o].id},
         open' = [open EXCEPT ![o] = [pc |-> "idle", id |-> NoId]],
         UNCHANGED <<obj, live, exec, reap, poll, shut, frozen, ran>>
  PROVE  SessionsInv'
<1>1. /\ TypeOK /\ open \in [Openers -> OpenState] /\ told \subseteq Ids
      /\ log \in [Ids -> [open : BOOLEAN, ends : Nat]]
  BY DEF SessionsInv, TypeOK, OpenState
<1>2. PICK i \in Ids : i = open[o].id
  BY OpenerHas
<1>3. /\ obj[i] # NoSession
      /\ \A p \in Openers \ {o} : open[p].pc # "idle" => open[p].id # i
  BY <1>2, OpenerHas
<1>4. \A p \in Openers :
        open'[p] = IF p = o THEN [pc |-> "idle", id |-> NoId] ELSE open[p]
  BY <1>1
<1>5. /\ log' \in [Ids -> [open : BOOLEAN, ends : Nat]]
      /\ \A id \in Ids : /\ log'[id].ends = log[id].ends
                         /\ log'[id].open = IF id = i THEN ok ELSE log[id].open
  BY <1>1, <1>2
<1>6. TypeOK'
  <2>1. open' \in [Openers -> OpenState] /\ told' \subseteq Ids
    BY <1>1, <1>2 DEF OpenState
  <2> QED
    BY Zenon, <1>1, <1>5, <2>1 DEF TypeOK, OpenState
<1>7. Queues' /\ SparedWhileBusy' /\ Counted' /\ OneEnd'
  BY Zenon, <1>5, SameQueues, SameSpared, SameCounted, SameEnds DEF SessionsInv
<1>8. \A id \in Ids : Untouched(id)' <=> Untouched(id)
  BY <1>5, SameEnds DEF SessionsInv
<1>9. Telling'
  <2>1. ran' \subseteq told'
    BY DEF SessionsInv, Telling
  <2>2. \A id \in told' : FailClosed => log'[id].open
    BY <1>1, <1>2, <1>5 DEF SessionsInv, Telling
  <2>3. \A x \in Execs : IF exec'[x].pc = "idle" THEN exec'[x].id = NoId ELSE exec'[x].id \in told'
    BY DEF SessionsInv, Telling
  <2> QED
    BY <2>1, <2>2, <2>3 DEF Telling
<1>10. Opening'
  <2>1. ASSUME NEW p \in Openers, open'[p].pc # "idle"
        PROVE  /\ open'[p].id \in Ids
               /\ obj'[open'[p].id] # NoSession
               /\ open'[p].id \notin told'
               /\ open'[p].pc \in {"signed", "dialed", "refused"} => Untouched(open[p].id)'
    <3>1. p # o /\ open'[p] = open[p]
      BY <2>1, <1>4
    <3>2. PICK id \in Ids : id = open[p].id /\ obj[id] # NoSession /\ id \notin told /\ id # i
      BY Zenon, <2>1, <3>1, <1>3 DEF SessionsInv, Opening
    <3>3. open[p].pc \in {"signed", "dialed", "refused"} => Untouched(id)
      BY <2>1, <3>1, <3>2 DEF SessionsInv, Opening
    <3>4. open[p].pc \in {"signed", "dialed", "refused"} => Untouched(id)'
      BY <3>3, <1>8
    <3> QED
      BY <1>2, <3>1, <3>2, <3>4
  <2>2. \A p, q \in Openers :
          open'[p].pc # "idle" /\ open'[q].pc # "idle" /\ open'[p].id = open'[q].id => p = q
    BY <1>4 DEF SessionsInv, Opening
  <2>3. \A id \in Ids : obj'[id] = NoSession => Untouched(id)' /\ id \notin told'
    BY <1>2, <1>3, <1>8 DEF SessionsInv, Opening
  <2> QED
    BY <2>1, <2>2, <2>3 DEF Opening
<1>11. NoOrphan'
  <2> SUFFICES ASSUME Up', NEW id \in Ids, Connected(id)'
               PROVE  Guarded(id)'
    BY DEF NoOrphan
  <2>1. Guarded(id)
    BY DEF SessionsInv, NoOrphan, Up, Connected
  <2>2. Held(id) => Held(id)'
    BY <1>4 DEF Held
  <2> QED
    BY <2>1, <2>2, HandsButMap DEF Guarded
<1> QED
  BY <1>6, <1>7, <1>9, <1>10, <1>11 DEF SessionsInv

(* It was not, in fail-closed mode: the session leaves the map again.      *)
LEMMA AuditRollbackInv ==
  ASSUME SessionsInv, NEW o \in Openers, NEW ok \in BOOLEAN, open[o].pc = "added",
         log' = [log EXCEPT ![open[o].id].open = ok],
         live' = live \ {open[o].id}, open' = [open EXCEPT ![o].pc = "rollback"],
         UNCHANGED <<obj, exec, reap, poll, shut, frozen, told, ran>>
  PROVE  SessionsInv'
<1>1. /\ TypeOK /\ open \in [Openers -> OpenState] /\ live \subseteq Ids
      /\ log \in [Ids -> [open : BOOLEAN, ends : Nat]]
  BY Zenon DEF SessionsInv, TypeOK, OpenState
<1>2. PICK i \in Ids : i = open[o].id
  BY OpenerHas
<1>3. i \notin told
  BY <1>2, OpenerHas
<1>4. \A p \in Openers : /\ open'[p].id = open[p].id
                         /\ open'[p].pc = IF p = o THEN "rollback" ELSE open[p].pc
  BY <1>1 DEF OpenState
<1>5. /\ log' \in [Ids -> [open : BOOLEAN, ends : Nat]]
      /\ \A id \in Ids : /\ log'[id].ends = log[id].ends
                         /\ id # i => log'[id].open = log[id].open
  BY <1>1, <1>2
<1>6. TypeOK'
  <2>1. open' \in [Openers -> OpenState] /\ live' \subseteq Ids
    BY <1>1 DEF OpenState
  <2> QED
    BY Zenon, <1>1, <1>5, <2>1 DEF TypeOK, OpenState
<1>8. Queues' /\ SparedWhileBusy' /\ Counted'
  BY SameQueues, SameSpared, SameCounted DEF SessionsInv
<1>9. \A id \in Ids : Touched(id)' => Touched(id)
  BY Zenon, HandsButMap DEF Touched
<1>10. OneEnd'
  BY <1>5, <1>9, HandsButMap DEF SessionsInv, OneEnd
<1>11. \A id \in Ids : Untouched(id) => Untouched(id)'
  BY <1>5, <1>9 DEF Untouched
<1>12. Telling'
  <2>1. \A id \in told : id \in Ids /\ id # i
    BY <1>1, <1>3 DEF TypeOK
  <2>2. \A id \in told : FailClosed => log'[id].open
    BY <2>1, <1>5 DEF SessionsInv, Telling
  <2> QED
    BY <2>2 DEF SessionsInv, Telling
<1>13. Opening'
  <2>1. ASSUME NEW p \in Openers, open'[p].pc # "idle"
        PROVE  /\ open'[p].id \in Ids
               /\ obj'[open'[p].id] # NoSession
               /\ open'[p].id \notin told'
               /\ open'[p].pc \in {"signed", "dialed", "refused"} => Untouched(open[p].id)'
    <3>1. open[p].pc # "idle"
      BY <2>1, <1>4
    <3>2. PICK id \in Ids : id = open[p].id /\ obj[id] # NoSession /\ id \notin told
      BY <3>1 DEF SessionsInv, Opening
    <3>3. open'[p].pc \in {"signed", "dialed", "refused"} => Untouched(id)
      BY <3>1, <3>2, <1>4 DEF SessionsInv, Opening
    <3>4. open'[p].pc \in {"signed", "dialed", "refused"} => Untouched(id)'
      BY <3>3, <1>11
    <3> QED
      BY <3>2, <3>4, <1>4
  <2>2. \A p, q \in Openers :
          open'[p].pc # "idle" /\ open'[q].pc # "idle" /\ open'[p].id = open'[q].id => p = q
    BY <1>4 DEF SessionsInv, Opening
  <2>3. \A id \in Ids : obj'[id] = NoSession => Untouched(id)' /\ id \notin told'
    BY <1>11 DEF SessionsInv, Opening
  <2> QED
    BY <2>1, <2>2, <2>3 DEF Opening
<1>14. NoOrphan'
  <2> SUFFICES ASSUME Up', NEW id \in Ids, Connected(id)'
               PROVE  Guarded(id)'
    BY DEF NoOrphan
  <2>1. Guarded(id)
    BY DEF SessionsInv, NoOrphan, Up, Connected
  <2>2. Held(id) \/ id = i => Held(id)'
    BY <1>2, <1>4 DEF Held
  <2> QED
    BY <2>1, <2>2, <1>2, HandsButMap DEF Guarded
<1> QED
  BY Zenon, <1>6, <1>8, <1>10, <1>12, <1>13, <1>14 DEF SessionsInv

LEMMA AuditOpenInv ==
  ASSUME SessionsInv, NEW o \in Openers, auditOpen(o)
  PROVE  SessionsInv'
<1>1. /\ open[o].pc = "added"
      /\ UNCHANGED <<obj, exec, reap, poll, shut, frozen, ran>>
  BY DEF auditOpen
<1>2. PICK ok \in AuditOutcomes :
        /\ log' = [log EXCEPT ![open[o].id].open = ok]
        /\ IF ok \/ ~FailClosed
           THEN /\ told' = told \cup {open[o].id}
                /\ open' = [open EXCEPT ![o] = [pc |-> "idle", id |-> NoId]]
                /\ UNCHANGED live
           ELSE /\ live' = live \ {open[o].id}
                /\ open' = [open EXCEPT ![o].pc = "rollback"]
                /\ UNCHANGED told
  BY Zenon DEF auditOpen
<1>3. ok \in BOOLEAN
  BY SessionsAssumption
<1>4. CASE ok \/ ~FailClosed
  BY Zenon, <1>1, <1>2, <1>3, <1>4, AuditToldInv
<1>5. CASE ~(ok \/ ~FailClosed)
  BY Zenon, <1>1, <1>2, <1>3, <1>5, AuditRollbackInv
<1> QED
  BY <1>4, <1>5

-----------------------------------------------------------------------------
(* The steps of SessionExec and CloseSession. *)

ExecState ==
  [pc : {"idle", "preflight", "ready", "running", "checkin", "closing"}, id : Ids \cup {NoId}]

(* A call takes up a session that is in the map, hence not the reaper's.   *)
LEMMA SparedMoves ==
  ASSUME SessionsInv, NEW x \in Execs, NEW r, exec' = [exec EXCEPT ![x] = r],
         r.id \in {exec[x].id, NoId} \/ r.id \in live, UNCHANGED reap
  PROVE  SparedWhileBusy'
<1> SUFFICES ASSUME NEW i \in DOMAIN reap, reap[i].reason # "cert expired", NEW y \in Execs
             PROVE  exec'[y].id # reap[i].id
  BY Zenon DEF SparedWhileBusy
<1>1. \A z \in Execs : exec'[z] = IF z = x THEN r ELSE exec[z]
  BY Zenon DEF SessionsInv, TypeOK
<1>2. reap[i].id \in Ids /\ Reaped(reap[i].id)
  <2>1. reap \in Seq([id : Ids, reason : Reasons])
    BY Zenon DEF SessionsInv, TypeOK
  <2>2. reap[i] \in [id : Ids, reason : Reasons]
    BY Zenon, <2>1, InSeq
  <2> QED
    BY Zenon, <2>2 DEF Reaped, InReap
<1>3. reap[i].id \notin live /\ reap[i].id # NoId
  BY Zenon, <1>2, SessionsAssumption DEF SessionsInv, OneEnd
<1>4. \A z \in Execs : exec[z].id # reap[i].id
  BY Zenon DEF SessionsInv, SparedWhileBusy
<1> QED
  BY Zenon, <1>1, <1>3, <1>4

(* A step of one SessionExec call: it takes a session from the map, keeps  *)
(* the one it has, or gives it back.                                       *)
LEMMA ExecStep ==
  ASSUME SessionsInv, NEW x \in Execs, NEW r \in ExecState,
         exec' = [exec EXCEPT ![x] = r], exec[x].pc # "closing", r.pc # "closing",
         r.id \in {exec[x].id, NoId} \/ r.id \in live,
         IF r.pc = "idle" THEN r.id = NoId ELSE r.id \in told,
         UNCHANGED <<live, open, reap, poll, shut, frozen, told, log>>,
         ran' \subseteq told,
         obj' \in [Ids -> Session \cup {NoSession}],
         \A id \in Ids : /\ obj'[id] = NoSession <=> obj[id] = NoSession
                         /\ Connected(id)' => Connected(id),
         Counted'
  PROVE  SessionsInv'
<1>1. /\ \A y \in Execs : exec'[y] = IF y = x THEN r ELSE exec[y]
      /\ exec' \in [Execs -> ExecState]
  BY Zenon DEF SessionsInv, TypeOK, ExecState
<1>2. TypeOK'
  <2>1. ran' \subseteq Ids
    BY DEF SessionsInv, TypeOK
  <2> QED
    BY Zenon, <1>1, <2>1 DEF SessionsInv, TypeOK, ExecState
<1>3. \A y \in Execs : exec'[y].pc = "closing" <=> exec[y].pc = "closing"
  BY Zenon, <1>1
<1>4. \A y \in Execs : exec[y].pc = "closing" => exec'[y].id = exec[y].id
  BY Zenon, <1>1
<1>5. \A id : Called(id)' <=> Called(id)
  BY <1>3, <1>4 DEF Called
<1>6. Queues'
  <2>1. ASSUME NEW y \in Execs, NEW z \in Execs, exec'[y].pc = "closing",
               exec'[z].pc = "closing", exec'[z].id = exec'[y].id
        PROVE  y = z
    <3>1. exec[y].pc = "closing" /\ exec[z].pc = "closing"
      BY Zenon, <1>3, <2>1
    <3>2. exec[z].id = exec[y].id
      BY Zenon, <1>4, <2>1, <3>1
    <3> QED
      BY Zenon, <3>1, <3>2 DEF SessionsInv, Queues
  <2> QED
    BY Zenon, <2>1 DEF SessionsInv, Queues
<1>8. \A id : Touched(id)' <=> Touched(id)
  BY <1>5 DEF Touched, Reaped, Killed, Stopped
<1>9. OneEnd'
  BY Zenon, <1>5, <1>8 DEF SessionsInv, OneEnd, Reaped, Killed, Stopped
<1>10. \A id \in Ids : Untouched(id)' <=> Untouched(id)
  BY Zenon, <1>8 DEF Untouched
<1>11. Opening'
  BY <1>10, SameOpening DEF SessionsInv
<1>12. Telling'
  BY Zenon, <1>1 DEF SessionsInv, Telling
<1>13. SparedWhileBusy'
  BY ZenonT(30), SparedMoves
<1>14. NoOrphan'
  BY <1>5 DEF SessionsInv, NoOrphan, Guarded, Held, Reaped, In, Up
<1> QED
  BY Zenon, <1>2, <1>6, <1>9, <1>11, <1>12, <1>13, <1>14 DEF SessionsInv

(* The calls that use a session, when one call moves on.                   *)
LEMMA UsingMoves ==
  ASSUME TypeOK, NEW x \in Execs, NEW r, exec' = [exec EXCEPT ![x] = r]
  PROVE  \A id : Using(id)' = IF r.id = id /\ r.pc # "closing"
                              THEN Using(id) \cup {x} ELSE Using(id) \ {x}
<1>1. \A y \in Execs : exec'[y] = IF y = x THEN r ELSE exec[y]
  BY Zenon DEF TypeOK
<1> QED
  BY <1>1 DEF Using

(* A call that is at work has a session that was told and exists.          *)
LEMMA CallHas ==
  ASSUME SessionsInv, NEW x \in Execs, exec[x].pc # "idle"
  PROVE  /\ exec[x].id \in Ids /\ exec[x].id \in told /\ obj[exec[x].id] \in Session
         /\ obj[exec[x].id] # NoSession
         /\ exec \in [Execs -> ExecState]
<1>1. exec[x].id \in told /\ told \subseteq Ids
  BY Zenon DEF SessionsInv, Telling, TypeOK
<1>2. obj[exec[x].id] # NoSession
  BY <1>1 DEF SessionsInv, Opening
<1> QED
  BY Zenon, <1>1, <1>2 DEF SessionsInv, TypeOK, ExecState

(* The steps of a call that only move it on.                               *)
LEMMA CallMoves ==
  ASSUME SessionsInv, NEW x \in Execs, exec[x].pc \notin {"idle", "closing"},
         NEW pc \in {"ready", "running", "checkin"}, exec' = [exec EXCEPT ![x].pc = pc],
         UNCHANGED <<obj, live, open, reap, poll, shut, frozen, told, log>>,
         ran' \subseteq told
  PROVE  SessionsInv'
<1>1. /\ exec[x].id \in Ids /\ exec[x].id \in told /\ exec \in [Execs -> ExecState]
      /\ TypeOK /\ obj \in [Ids -> Session \cup {NoSession}]
  BY Zenon, CallHas DEF SessionsInv, TypeOK
<1>2. PICK r : r = [exec[x] EXCEPT !.pc = pc]
  BY Zenon
<1>3. r \in ExecState /\ r.pc = pc /\ r.id = exec[x].id /\ exec' = [exec EXCEPT ![x] = r]
  BY <1>1, <1>2 DEF ExecState
<1>4. Counted'
  <2>1. \A id : Using(id)' = IF r.id = id /\ r.pc # "closing"
                             THEN Using(id) \cup {x} ELSE Using(id) \ {x}
    BY Zenon, <1>1, <1>3, UsingMoves
  <2>2. \A id : x \in Using(id) <=> exec[x].id = id
    BY DEF Using
  <2>3. \A id : Using(id)' = Using(id)
    BY <1>3, <2>1, <2>2
  <2> QED
    BY <2>3 DEF SessionsInv, Counted
<1>5. \A id \in Ids : Connected(id)' <=> Connected(id)
  BY DEF Connected
<1> QED
  BY Zenon, <1>1, <1>3, <1>4, <1>5, ExecStep

LEMMA AuthorizeInv ==
  ASSUME SessionsInv, NEW x \in Execs, authorizeSessionExec(x)
  PROVE  SessionsInv'
<1>1. PICK pc \in {"ready", "checkin"} : exec' = [exec EXCEPT ![x].pc = pc]
  BY Zenon DEF authorizeSessionExec
<1>2. ran' \subseteq told
  BY DEF SessionsInv, Telling, authorizeSessionExec
<1> QED
  BY Zenon, <1>1, <1>2, CallMoves DEF authorizeSessionExec

LEMMA StartCommandInv ==
  ASSUME SessionsInv, NEW x \in Execs, startCommand(x)
  PROVE  SessionsInv'
<1>1. exec[x].pc = "ready" /\ UNCHANGED <<obj, live, open, reap, poll, shut, frozen, told, log>>
  BY DEF startCommand
<1>2. PICK pc \in {"running", "checkin"} : exec' = [exec EXCEPT ![x].pc = pc]
  BY Zenon DEF startCommand
<1>3. ran' \subseteq told
  BY <1>1, CallHas DEF SessionsInv, Telling, startCommand
<1> QED
  BY Zenon, <1>1, <1>2, <1>3, CallMoves

LEMMA CommandDoneInv ==
  ASSUME SessionsInv, NEW x \in Execs, commandDone(x)
  PROVE  SessionsInv'
<1>1. ran' \subseteq told
  BY DEF SessionsInv, Telling, commandDone
<1> QED
  BY Zenon, <1>1, CallMoves DEF commandDone

LEMMA CheckoutInv ==
  ASSUME SessionsInv, NEW x \in Execs, NEW c \in Callers, NEW i \in Ids, checkoutOwned(x, c, i)
  PROVE  SessionsInv'
<1>1. /\ exec[x].pc = "idle" /\ i \in told /\ i \in live
      /\ UNCHANGED <<live, open, reap, poll, shut, frozen, told, log, ran>>
      /\ TypeOK /\ obj \in [Ids -> Session \cup {NoSession}]
  BY SMTT(20) DEF checkoutOwned, SessionsInv, TypeOK
<1>2. obj[i] # NoSession /\ obj[i] \in Session /\ obj[i].busy \in Nat
  BY Zenon, <1>1 DEF SessionsInv, Opening, Session
<1>3. PICK s : s = WithUse(obj[i], obj[i].busy + 1)
  OBVIOUS
<1>4. s \in Session /\ s.conn = obj[i].conn /\ s.busy = obj[i].busy + 1 /\ s # NoSession
  <2>1. obj[i].busy + 1 \in Nat
    BY <1>2
  <2> QED
    BY Zenon, <1>2, <1>3, <2>1, UseFields, NoSessionAssumption
<1>5. obj' = [obj EXCEPT ![i] = s]
  <2>1. obj' = [obj EXCEPT ![i].idle = 0, ![i].busy = obj[i].busy + 1]
    BY <1>1, <1>2 DEF checkoutOwned
  <2> QED
    BY Zenon, <1>1, <1>2, <1>3, <2>1 DEF WithUse
<1>6. /\ obj' \in [Ids -> Session \cup {NoSession}]
      /\ \A id \in Ids : obj'[id] = IF id = i THEN s ELSE obj[id]
  BY Zenon, <1>1, <1>4, <1>5
<1>7. PICK r : r = [pc |-> "preflight", id |-> i]
  BY Zenon
<1>8. r \in ExecState /\ r.pc = "preflight" /\ r.id = i /\ exec' = [exec EXCEPT ![x] = r]
  BY <1>7 DEF ExecState, checkoutOwned
<1>9. Counted'
  <2>1. exec[x].id = NoId
    BY Zenon, <1>1 DEF SessionsInv, Telling
  <2>2. \A id : Using(id)' = IF r.id = id /\ r.pc # "closing"
                             THEN Using(id) \cup {x} ELSE Using(id) \ {x}
    BY Zenon, <1>1, <1>8, UsingMoves
  <2>3. \A id \in Ids : x \notin Using(id)
    BY <2>1, SessionsAssumption DEF Using
  <2>4. Using(i)' = Using(i) \cup {x} /\ \A id \in Ids \ {i} : Using(id)' = Using(id)
    BY Zenon, <1>8, <2>2, <2>3
  <2>5. Covers(obj[i].busy, Using(i))
    BY <1>2 DEF SessionsInv, Counted
  <2>6. Covers(obj[i].busy + 1, Using(i) \cup {x})
    BY Zenon, <1>2, <2>5, CoverMore
  <2>7. Covers(obj[i].busy + 1, Using(i)')
    BY Zenon, <2>4, <2>6
  <2> QED
    BY Zenon, <2>4, <2>7, <1>4, <1>6 DEF SessionsInv, Counted
<1>10. \A id \in Ids : /\ obj'[id] = NoSession <=> obj[id] = NoSession
                       /\ Connected(id)' => Connected(id)
  BY Zenon, <1>2, <1>4, <1>6 DEF Connected
<1>11. ran' \subseteq told
  BY <1>1 DEF SessionsInv, Telling
<1> QED
  BY Zenon, <1>1, <1>6, <1>8, <1>9, <1>10, <1>11, ExecStep

LEMMA CheckinInv ==
  ASSUME SessionsInv, NEW x \in Execs, checkin(x)
  PROVE  SessionsInv'
<1>1. /\ exec[x].pc = "checkin"
      /\ UNCHANGED <<live, open, reap, poll, shut, frozen, told, log, ran>>
      /\ TypeOK /\ obj \in [Ids -> Session \cup {NoSession}]
  BY Zenon DEF checkin, SessionsInv, TypeOK
<1>2. PICK i \in Ids : i = exec[x].id
  BY Zenon, <1>1, CallHas
<1>3. obj[i] # NoSession /\ obj[i] \in Session /\ obj[i].busy \in Nat
  BY <1>1, <1>2, CallHas DEF Session
<1>4. PICK n : n = IF obj[i].busy > 0 THEN obj[i].busy - 1 ELSE obj[i].busy
  OBVIOUS
<1>5. n \in Nat
  BY <1>3, <1>4
<1>6. PICK s : s = WithUse(obj[i], n)
  BY Zenon
<1>7. s \in Session /\ s.conn = obj[i].conn /\ s.busy = n /\ s # NoSession
  BY Zenon, <1>3, <1>5, <1>6, UseFields, NoSessionAssumption
<1>8. obj' = [obj EXCEPT ![i] = s]
  <2>1. obj' = [obj EXCEPT ![i].idle = 0, ![i].busy = n]
    BY <1>2, <1>4 DEF checkin
  <2> QED
    BY Zenon, <1>1, <1>3, <1>6, <2>1 DEF WithUse
<1>9. /\ obj' \in [Ids -> Session \cup {NoSession}]
      /\ \A id \in Ids : obj'[id] = IF id = i THEN s ELSE obj[id]
  BY Zenon, <1>1, <1>7, <1>8
<1>10. PICK r : r = [pc |-> "idle", id |-> NoId]
  BY Zenon
<1>11. r \in ExecState /\ r.pc = "idle" /\ r.id = NoId /\ exec' = [exec EXCEPT ![x] = r]
  BY <1>10 DEF ExecState, checkin
<1>12. Counted'
  <2>1. \A id : Using(id)' = IF r.id = id /\ r.pc # "closing"
                             THEN Using(id) \cup {x} ELSE Using(id) \ {x}
    BY ZenonT(30), <1>1, <1>11, UsingMoves
  <2>2. x \in Using(i) /\ \A id \in Ids \ {i} : x \notin Using(id)
    BY <1>1, <1>2 DEF Using
  <2>3. Using(i)' = Using(i) \ {x} /\ \A id \in Ids \ {i} : Using(id)' = Using(id)
    BY Zenon, <1>11, <2>1, <2>2, SessionsAssumption
  <2>4. Covers(obj[i].busy, Using(i))
    BY <1>3 DEF SessionsInv, Counted
  <2>5. obj[i].busy > 0 /\ Covers(obj[i].busy - 1, Using(i) \ {x})
    BY Zenon, <1>3, <2>2, <2>4, CoverFewer
  <2>6. n = obj[i].busy - 1
    BY Zenon, <1>4, <2>5
  <2>7. Covers(n, Using(i)')
    BY Zenon, <2>3, <2>5, <2>6
  <2> QED
    BY Zenon, <2>3, <2>7, <1>7, <1>9 DEF SessionsInv, Counted
<1>13. \A id \in Ids : /\ obj'[id] = NoSession <=> obj[id] = NoSession
                       /\ Connected(id)' => Connected(id)
  BY Zenon, <1>3, <1>7, <1>9 DEF Connected
<1>14. ran' \subseteq told
  BY Zenon, <1>1 DEF SessionsInv, Telling
<1> QED
  BY Zenon, <1>1, <1>9, <1>11, <1>12, <1>13, <1>14, ExecStep

-----------------------------------------------------------------------------
(* Steps that pass sessions from hand to hand: the four teardown paths. *)

LEMMA HandsStep ==
  ASSUME SessionsInv, UNCHANGED <<obj, open, frozen, told, ran>>, live' \subseteq live,
         TypeOK', Queues', OneEnd', Telling', Counted', SparedWhileBusy',
         \A id \in Ids : Touched(id)' => Touched(id),
         \A id \in Ids : log'[id].ends = log[id].ends \/ Touched(id),
         Up' => Up,
         \A id \in Ids : Guarded(id) /\ Connected(id) => Guarded(id)'
  PROVE  SessionsInv'
<1>2. \A id \in Ids : Untouched(id) => Untouched(id)'
  BY Zenon DEF Untouched
<1>3. Opening'
  BY Zenon, <1>2, SameOpening DEF SessionsInv
<1>4. NoOrphan'
  BY DEF SessionsInv, NoOrphan, Connected
<1> QED
  BY <1>3, <1>4 DEF SessionsInv

(* One append at the end of a session that some hand has.                  *)
LEMMA EndedOnce ==
  ASSUME SessionsInv, NEW i \in Ids, Touched(i), NEW ok \in BOOLEAN, log' = Ended(i, ok)
  PROVE  /\ log' \in [Ids -> [open : BOOLEAN, ends : Nat]]
         /\ \A id \in Ids : /\ log'[id].open = log[id].open
                            /\ id # i => log'[id].ends = log[id].ends
         /\ log'[i].ends <= 1
<1>1. log \in [Ids -> [open : BOOLEAN, ends : Nat]] /\ log[i].ends = 0
  BY DEF SessionsInv, TypeOK, OneEnd
<1>2. PICK n : n = IF ok THEN log[i].ends + 1 ELSE log[i].ends
  OBVIOUS
<1>3. n \in Nat /\ n <= 1
  BY <1>1, <1>2
<1>4. log' = [log EXCEPT ![i].ends = n]
  BY Zenon, <1>2 DEF Ended
<1> QED
  BY SMTT(20), <1>1, <1>3, <1>4

(* What is kept of Telling when only the ends of sessions are appended.    *)
LEMMA TellingEnds ==
  ASSUME SessionsInv, UNCHANGED <<told, ran>>,
         \A id \in Ids : log'[id].open = log[id].open,
         \A x \in Execs : IF exec'[x].pc = "idle" THEN exec'[x].id = NoId ELSE exec'[x].id \in told
  PROVE  Telling'
<1>1. told \subseteq Ids
  BY Zenon DEF SessionsInv, TypeOK
<1> QED
  BY Zenon, <1>1 DEF SessionsInv, Telling

LEMMA RemoveOwnedInv ==
  ASSUME SessionsInv, NEW x \in Execs, NEW c \in Callers, NEW i \in Ids, removeOwned(x, c, i)
  PROVE  SessionsInv'
<1>1. /\ exec[x].pc = "idle" /\ i \in told /\ i \in live /\ live' = live \ {i}
      /\ UNCHANGED <<obj, open, reap, poll, shut, frozen, told, log, ran>>
      /\ TypeOK /\ live \subseteq Ids /\ exec \in [Execs -> ExecState]
  BY Zenon DEF removeOwned, SessionsInv, TypeOK, ExecState
<1>2. PICK r : r = [pc |-> "closing", id |-> i]
  BY Zenon
<1>3. r \in ExecState /\ r.pc = "closing" /\ r.id = i /\ exec' = [exec EXCEPT ![x] = r]
  BY <1>2 DEF ExecState, removeOwned
<1>4. /\ \A y \in Execs : exec'[y] = IF y = x THEN r ELSE exec[y]
      /\ exec' \in [Execs -> ExecState]
  BY <1>1, <1>3
<1>5. TypeOK'
  <2>1. live' \subseteq Ids
    BY <1>1
  <2> QED
    BY Zenon, <1>1, <1>4, <2>1 DEF TypeOK, ExecState
<1>6. \A id : /\ Called(id)' <=> Called(id) \/ id = i
              /\ Reaped(id)' <=> Reaped(id)
              /\ Killed(id)' <=> Killed(id)
              /\ Stopped(id)' <=> Stopped(id)
  BY Zenon, <1>1, <1>3, <1>4 DEF Called, Reaped, Killed, Stopped
<1>7. ~Called(i) /\ ~Reaped(i) /\ ~Killed(i) /\ ~Stopped(i) /\ log[i].ends = 0
  BY Zenon, <1>1 DEF SessionsInv, OneEnd, Touched
<1>8. Queues'
  <2>1. \A y, z \in Execs :
          exec'[y].pc = "closing" /\ exec'[z].pc = "closing" /\ exec'[z].id = exec'[y].id => y = z
    BY Zenon, <1>3, <1>4, <1>7 DEF SessionsInv, Queues, Called
  <2> QED
    BY Zenon, <1>1, <2>1 DEF SessionsInv, Queues
<1>9. \A id \in Ids : Touched(id)' <=> Touched(id)
  BY <1>1, <1>6 DEF Touched
<1>10. OneEnd'
  BY Zenon, <1>1, <1>6, <1>7, <1>9 DEF SessionsInv, OneEnd
<1>11. Telling'
  BY Zenon, <1>1, <1>3, <1>4, TellingEnds DEF SessionsInv, Telling
<1>12. SparedWhileBusy'
  BY Zenon, <1>1, <1>3, SparedMoves
<1>13. Counted'
  <2>1. \A id \in Ids : x \notin Using(id)
    BY Zenon, <1>1, SessionsAssumption DEF SessionsInv, Telling, Using
  <2>2. \A id : Using(id)' = IF r.id = id /\ r.pc # "closing"
                             THEN Using(id) \cup {x} ELSE Using(id) \ {x}
    BY Zenon, <1>1, <1>3, UsingMoves
  <2>3. \A id \in Ids : Using(id)' = Using(id)
    BY Zenon, <1>3, <2>1, <2>2, SessionsAssumption
  <2> QED
    BY <1>1, <2>3 DEF SessionsInv, Counted
<1>14. \A id \in Ids : Guarded(id) => Guarded(id)'
  BY Zenon, <1>1, <1>6 DEF Guarded, Held, In
<1>15. Up' => Up
  BY <1>1 DEF Up
<1>16. live' \subseteq live
  BY Zenon, <1>1
<1> QED
  BY Zenon, <1>1, <1>5, <1>8, <1>9, <1>10, <1>11, <1>12, <1>13, <1>14, <1>15, <1>16, HandsStep

LEMMA CloseSessionInv ==
  ASSUME SessionsInv, NEW x \in Execs, CloseSession(x)
  PROVE  SessionsInv'
<1>1. /\ exec[x].pc = "closing" /\ Closed(exec[x].id)
      /\ UNCHANGED <<obj, live, open, reap, poll, shut, frozen, told, ran>>
      /\ TypeOK /\ exec \in [Execs -> ExecState]
  BY Zenon DEF CloseSession, SessionsInv, TypeOK, ExecState
<1>2. PICK i \in Ids : i = exec[x].id
  BY Zenon, <1>1, CallHas
<1>3. Called(i)
  BY Zenon, <1>1, <1>2 DEF Called
<1>4. PICK ok \in BOOLEAN : log' = Ended(i, ok)
  BY <1>2, SessionsAssumption DEF CloseSession
<1>5. Touched(i)
  BY Zenon, <1>3 DEF Touched
<1>6. /\ log' \in [Ids -> [open : BOOLEAN, ends : Nat]]
      /\ \A id \in Ids : /\ log'[id].open = log[id].open
                         /\ id # i => log'[id].ends = log[id].ends
      /\ log'[i].ends <= 1
  BY <1>4, <1>5, EndedOnce
<1>7. PICK r : r = [pc |-> "idle", id |-> NoId]
  BY Zenon
<1>8. r \in ExecState /\ r.pc = "idle" /\ r.id = NoId /\ exec' = [exec EXCEPT ![x] = r]
  BY Zenon, <1>7 DEF ExecState, CloseSession
<1>9. /\ \A y \in Execs : exec'[y] = IF y = x THEN r ELSE exec[y]
      /\ exec' \in [Execs -> ExecState]
  BY <1>1, <1>8
<1>10. TypeOK'
  BY Zenon, <1>1, <1>6, <1>9 DEF TypeOK, ExecState
<1>11. \A y \in Execs : exec[y].pc = "closing" /\ exec[y].id = i => y = x
  BY Zenon, <1>1, <1>2 DEF SessionsInv, Queues
<1>12. \A id : /\ Called(id)' <=> Called(id) /\ id # i
               /\ Reaped(id)' <=> Reaped(id)
               /\ Killed(id)' <=> Killed(id)
               /\ Stopped(id)' <=> Stopped(id)
  <2>1. \A id : Called(id)' <=> Called(id) /\ id # i
    BY <1>2, <1>8, <1>9, <1>11 DEF Called
  <2> QED
    BY Zenon, <1>1, <2>1 DEF Reaped, Killed, Stopped
<1>13. Queues'
  <2>1. \A y, z \in Execs :
          exec'[y].pc = "closing" /\ exec'[z].pc = "closing" /\ exec'[z].id = exec'[y].id => y = z
    BY Zenon, <1>8, <1>9 DEF SessionsInv, Queues
  <2> QED
    BY Zenon, <1>1, <2>1 DEF SessionsInv, Queues
<1>14. i \notin live /\ ~Reaped(i) /\ ~Killed(i) /\ ~Stopped(i)
  BY Zenon, <1>3 DEF SessionsInv, OneEnd
<1>15. \A id \in Ids : Touched(id)' <=> Touched(id) /\ id # i
  BY <1>1, <1>12, <1>14 DEF Touched
<1>16. OneEnd'
  BY Zenon, <1>1, <1>6, <1>12, <1>14, <1>15 DEF SessionsInv, OneEnd
<1>17. Telling'
  BY ZenonT(30), <1>1, <1>6, <1>8, <1>9, TellingEnds DEF SessionsInv, Telling
<1>18. SparedWhileBusy'
  BY Zenon, <1>1, <1>8, SparedMoves
<1>19. Counted'
  <2>1. \A id \in Ids : x \notin Using(id)
    BY <1>1 DEF Using
  <2>2. \A id : Using(id)' = IF r.id = id /\ r.pc # "closing"
                             THEN Using(id) \cup {x} ELSE Using(id) \ {x}
    BY Zenon, <1>1, <1>8, UsingMoves
  <2>3. \A id \in Ids : Using(id)' = Using(id)
    BY <1>8, <2>1, <2>2, SessionsAssumption
  <2> QED
    BY Zenon, <1>1, <2>3 DEF SessionsInv, Counted
<1>20. \A id \in Ids : Guarded(id) /\ Connected(id) => Guarded(id)'
  <2>1. ~Connected(i)
    BY Zenon, <1>1, <1>2 DEF Connected, Closed
  <2> QED
    BY Zenon, <2>1, <1>1, <1>12 DEF Guarded, Held, In
<1>21. Up' => Up
  BY Zenon, <1>1 DEF Up
<1>22. \A id \in Ids : log'[id].ends = log[id].ends \/ Touched(id)
  BY <1>5, <1>6
<1> QED
  BY Zenon, <1>1, <1>10, <1>13, <1>15, <1>16, <1>17, <1>18, <1>19, <1>20, <1>21, <1>22, HandsStep

-----------------------------------------------------------------------------
(* The reaper, the kill switch and Engine.Close: no call takes a step. *)

LEMMA TeardownStep ==
  ASSUME SessionsInv, UNCHANGED <<obj, open, exec, frozen, told, ran>>, live' \subseteq live,
         TypeOK', Queues', OneEnd', SparedWhileBusy',
         \A id \in Ids : Touched(id)' => Touched(id),
         \A id \in Ids : log'[id].open = log[id].open,
         \A id \in Ids : log'[id].ends = log[id].ends \/ Touched(id),
         Up' => Up,
         \A id \in Ids : Guarded(id) /\ Connected(id) => Guarded(id)'
  PROVE  SessionsInv'
<1>1. Telling'
  BY Zenon, TellingEnds DEF SessionsInv, Telling
<1>2. Counted'
  BY Zenon, SameCounted DEF SessionsInv
<1> QED
  BY Zenon, <1>1, <1>2, HandsStep

(* reapExpired gives a session one reason, and none but the expiry of its  *)
(* certificate to one that is in use.                                      *)
LEMMA OneReason ==
  ASSUME NEW s \in Session
  PROVE  /\ \A a, b \in reapReason(s) : a = b
         /\ \A a \in reapReason(s) : a # "cert expired" => s.busy = 0
<1>1. s.busy \in Nat
  BY DEF Session
<1>2. \/ reapReason(s) \in {{"cert expired"}, {}}
      \/ ~(s.busy > 0) /\ reapReason(s) \in {{"idle"}, {"lifetime"}, {}}
  BY Zenon DEF reapReason
<1>3. \A a, b \in reapReason(s) : a = b
  BY <1>2, Zenon
<1>4. ~(s.busy > 0) => s.busy = 0
  BY <1>1
<1>5. \A a \in reapReason(s) : a # "cert expired" => s.busy = 0
  BY <1>2, <1>4, Zenon
<1> QED
  BY Zenon, <1>3, <1>5

(* A session in the map exists.                                            *)
LEMMA LiveExists ==
  ASSUME SessionsInv, NEW id \in live
  PROVE  id \in Ids /\ obj[id] \in Session /\ obj[id] # NoSession
<1>1. id \in Ids /\ Touched(id)
  BY DEF SessionsInv, TypeOK, Touched
<1> QED
  BY Zenon, <1>1 DEF SessionsInv, Opening, Untouched, TypeOK

Expired(m) == {v \in [id : m, reason : Reasons] : v.reason \in reapReason(obj[v.id])}

LEMMA ExpiredFacts ==
  ASSUME SessionsInv
  PROVE  /\ \A u, v \in Expired(live) : u.id = v.id => u = v
         /\ \A v \in Expired(live) : /\ v \in [id : Ids, reason : Reasons] /\ v.id \in live
                                     /\ v.reason # "cert expired" => obj[v.id].busy = 0
<1>1. \A u, v \in Expired(live) : u.id = v.id => u = v
  <2> SUFFICES ASSUME NEW u \in Expired(live), NEW v \in Expired(live), u.id = v.id
               PROVE  u = v
    OBVIOUS
  <2>1. u.id \in live /\ u.reason \in reapReason(obj[u.id]) /\ v.reason \in reapReason(obj[u.id])
    BY SMTT(20) DEF Expired
  <2>2. obj[u.id] \in Session
    BY <2>1, LiveExists
  <2>3. u.reason = v.reason
    BY Zenon, <2>1, <2>2, OneReason
  <2> QED
    BY <2>3 DEF Expired
<1>2. live \subseteq Ids
  BY DEF SessionsInv, TypeOK
<1>3. \A v \in Expired(live) : /\ v \in [id : Ids, reason : Reasons] /\ v.id \in live
                               /\ v.reason # "cert expired" => obj[v.id].busy = 0
  <2> SUFFICES ASSUME NEW v \in Expired(live)
               PROVE  /\ v \in [id : Ids, reason : Reasons] /\ v.id \in live
                      /\ v.reason # "cert expired" => obj[v.id].busy = 0
    BY Zenon
  <2>1. v \in [id : Ids, reason : Reasons] /\ v.id \in live /\ v.reason \in reapReason(obj[v.id])
    BY Zenon, <1>2 DEF Expired
  <2>2. obj[v.id] \in Session
    BY <2>1, LiveExists
  <2> QED
    BY Zenon, <2>1, <2>2, OneReason
<1> QED
  BY Zenon, <1>1, <1>3

LEMMA ReapExpiredInv ==
  ASSUME SessionsInv, reapExpired
  PROVE  SessionsInv'
<1>1. /\ reap = <<>> /\ reap' \in Orders(Expired(live))
      /\ live' = live \ {v.id : v \in Expired(live)}
      /\ UNCHANGED <<obj, open, exec, poll, shut, frozen, told, log, ran>>
  BY DEF reapExpired, Expired
<1>2. PICK V : V = Expired(live)
  OBVIOUS
<1>3. /\ \A u, v \in V : u.id = v.id => u = v
      /\ \A v \in V : /\ v \in [id : Ids, reason : Reasons] /\ v.id \in live
                      /\ v.reason # "cert expired" => obj[v.id].busy = 0
  BY Zenon, <1>2, ExpiredFacts
<1>4. reap' \in Seq(V) /\ Distinct(reap') /\ \A v : In(reap', v) <=> v \in V
  BY Zenon, <1>1, <1>2, <1>3, OrderOf
<1>5. \A i \in DOMAIN reap' : reap'[i] \in V
  BY <1>4 DEF In
<1>6. /\ reap' \in Seq([id : Ids, reason : Reasons])
      /\ live' \subseteq live /\ live' \subseteq Ids
  <2>1. live' \subseteq live /\ live' \subseteq Ids
    BY Zenon, <1>1 DEF SessionsInv, TypeOK
  <2>2. V \subseteq [id : Ids, reason : Reasons]
    BY Zenon, <1>3
  <2>3. reap' \in Seq([id : Ids, reason : Reasons])
    BY Zenon, <2>2, <1>4, SeqWidens
  <2> QED
    BY <2>1, <2>3
<1>7. TypeOK'
  BY Zenon, <1>1, <1>6 DEF SessionsInv, TypeOK
<1>8. DistinctReap(reap')
  BY Zenon, <1>3, <1>4, <1>5 DEF DistinctReap, Distinct
<1>9. Queues'
  BY Zenon, <1>1, <1>8 DEF SessionsInv, Queues
<1>10. \A id : Reaped(id)' <=> \E v \in V : v.id = id
  BY <1>4, <1>5 DEF Reaped, InReap, In
<1>11. \A id : id \in live <=> id \in live' \/ Reaped(id)'
  BY Zenon, <1>1, <1>2, <1>3, <1>10
<1>12. \A id : ~(id \in live' /\ Reaped(id)')
  BY Zenon, <1>1, <1>2, <1>10
<1>13. \A id : ~Reaped(id)
  BY <1>1 DEF Reaped, InReap
<1>14. \A id : /\ Called(id)' <=> Called(id)
               /\ Killed(id)' <=> Killed(id)
               /\ Stopped(id)' <=> Stopped(id)
  BY Zenon, <1>1 DEF Called, Killed, Stopped
<1>15. \A id \in Ids : Touched(id)' <=> Touched(id)
  BY <1>11, <1>13, <1>14 DEF Touched
<1>16. OneEnd'
  BY Zenon, <1>1, <1>11, <1>12, <1>14, <1>15 DEF SessionsInv, OneEnd
<1>17. SparedWhileBusy'
  <2> SUFFICES ASSUME NEW i \in DOMAIN reap', reap'[i].reason # "cert expired", NEW x \in Execs,
                      exec[x].id = reap'[i].id
               PROVE  FALSE
    BY Zenon, <1>1 DEF SparedWhileBusy
  <2>1. PICK id \in Ids : id = reap'[i].id /\ id \in live /\ obj[id].busy = 0
    BY Zenon, <1>3, <1>5
  <2>2. obj[id] # NoSession /\ ~Called(id)
    BY Zenon, <2>1 DEF SessionsInv, Opening, Untouched, Touched, OneEnd
  <2>3. x \in Using(id)
    BY Zenon, <2>1, <2>2 DEF Using, Called
  <2>4. Covers(obj[id].busy, Using(id))
    BY Zenon, <2>2 DEF SessionsInv, Counted
  <2> QED
    BY Zenon, <2>1, <2>3, <2>4, CoverZero
<1>18. \A id \in Ids : Guarded(id) => Guarded(id)'
  BY Zenon, <1>1, <1>11, <1>13, <1>14 DEF Guarded, Held, In
<1>19. Up' => Up
  BY Zenon, <1>1 DEF Up
<1> QED
  BY ZenonT(30), <1>1, <1>6, <1>7, <1>9, <1>15, <1>16, <1>17, <1>18, <1>19, TeardownStep

LEMMA OnReapInv ==
  ASSUME SessionsInv, onReap
  PROVE  SessionsInv'
<1>1. /\ reap # <<>> /\ Closed(Head(reap).id) /\ reap' = Tail(reap)
      /\ UNCHANGED <<obj, live, open, exec, poll, shut, frozen, told, ran>>
      /\ reap \in Seq([id : Ids, reason : Reasons]) /\ DistinctReap(reap)
  BY Zenon DEF onReap, SessionsInv, TypeOK, Queues
<1>2. /\ Head(reap) \in [id : Ids, reason : Reasons]
      /\ reap' \in Seq([id : Ids, reason : Reasons])
      /\ DistinctReap(reap')
      /\ ~InReap(reap', Head(reap).id)
      /\ \A v : InReap(reap, v) <=> v = Head(reap).id \/ InReap(reap', v)
      /\ \A k \in DOMAIN reap' : \E j \in DOMAIN reap : reap'[k] = reap[j]
  <2>1. PICK q : q = reap /\ q \in Seq([id : Ids, reason : Reasons]) /\ q # <<>> /\ DistinctReap(q)
    BY <1>1
  <2>2. /\ Head(q) \in [id : Ids, reason : Reasons]
        /\ Tail(q) \in Seq([id : Ids, reason : Reasons])
        /\ DistinctReap(Tail(q))
        /\ ~InReap(Tail(q), Head(q).id)
        /\ \A v : InReap(q, v) <=> v = Head(q).id \/ InReap(Tail(q), v)
        /\ \A k \in DOMAIN Tail(q) : \E j \in DOMAIN q : Tail(q)[k] = q[j]
    BY Zenon, <2>1, ReapHeadTail
  <2> QED
    BY Zenon, <1>1, <2>1, <2>2
<1>3. PICK i \in Ids : i = Head(reap).id
  BY Zenon, <1>2
<1>4. PICK ok \in BOOLEAN : log' = Ended(i, ok)
  BY <1>3, SessionsAssumption DEF onReap
<1>5. \A id : Reaped(id) <=> id = i \/ Reaped(id)'
  BY Zenon, <1>1, <1>2, <1>3 DEF Reaped
<1>6. ~Reaped(i)' /\ Reaped(i) /\ Touched(i)
  BY Zenon, <1>1, <1>2, <1>3, <1>5 DEF Reaped, Touched
<1>7. /\ log' \in [Ids -> [open : BOOLEAN, ends : Nat]]
      /\ \A id \in Ids : /\ log'[id].open = log[id].open
                         /\ id # i => log'[id].ends = log[id].ends
      /\ log'[i].ends <= 1
  BY <1>4, <1>6, EndedOnce
<1>8. TypeOK'
  BY Zenon, <1>1, <1>2, <1>7 DEF SessionsInv, TypeOK
<1>9. Queues'
  BY Zenon, <1>1, <1>2 DEF SessionsInv, Queues
<1>10. \A id : /\ Called(id)' <=> Called(id)
               /\ Killed(id)' <=> Killed(id)
               /\ Stopped(id)' <=> Stopped(id)
  BY Zenon, <1>1 DEF Called, Killed, Stopped
<1>11. i \notin live /\ ~Called(i) /\ ~Killed(i) /\ ~Stopped(i)
  BY Zenon, <1>6 DEF SessionsInv, OneEnd
<1>12. \A id \in Ids : Touched(id)' <=> Touched(id) /\ id # i
  BY Zenon, <1>1, <1>5, <1>6, <1>10, <1>11 DEF Touched
<1>13. OneEnd'
  BY Zenon, <1>1, <1>5, <1>7, <1>10, <1>11, <1>12 DEF SessionsInv, OneEnd
<1>14. SparedWhileBusy'
  <2>1. \A j \in DOMAIN reap :
          reap[j].reason # "cert expired" => \A x \in Execs : exec[x].id # reap[j].id
    BY Zenon DEF SessionsInv, SparedWhileBusy
  <2>2. \A k \in DOMAIN reap' : \E j \in DOMAIN reap : reap'[k] = reap[j]
    BY <1>2
  <2>3. \A k \in DOMAIN reap' :
          reap'[k].reason # "cert expired" => \A x \in Execs : exec[x].id # reap'[k].id
    BY Zenon, <2>1, <2>2
  <2> QED
    BY Zenon, <1>1, <2>3 DEF SparedWhileBusy
<1>15. \A id \in Ids : Guarded(id) /\ Connected(id) => Guarded(id)'
  <2>1. ~Connected(i)
    BY Zenon, <1>1, <1>3 DEF Connected, Closed
  <2> QED
    BY Zenon, <2>1, <1>1, <1>5, <1>10 DEF Guarded, Held, In
<1>16. Up' => Up
  BY Zenon, <1>1 DEF Up
<1>17. \A id \in Ids : log'[id].ends = log[id].ends \/ Touched(id)
  BY <1>6, <1>7
<1> QED
  BY Zenon, <1>1, <1>7, <1>8, <1>9, <1>12, <1>13, <1>14, <1>15, <1>16, <1>17, TeardownStep

PollState ==
  [pc : {"idle", "fetched", "killing", "auditing"},
   seen : SUBSET Subjects, todo : Seq(Ids), done : Seq(Ids)]

(* A step of the revocation poll that takes no session from the map.       *)
LEMMA PollStep ==
  ASSUME SessionsInv, poll' \in PollState,
         UNCHANGED <<obj, live, open, exec, reap, shut, frozen, told, ran>>,
         log' \in [Ids -> [open : BOOLEAN, ends : Nat]],
         \A id \in Ids : log'[id].open = log[id].open,
         Distinct(poll'.todo), Distinct(poll'.done),
         \A id \in Ids : ~(In(poll'.todo, id) /\ In(poll'.done, id)),
         poll'.pc # "killing" => poll'.todo = <<>>,
         poll'.pc \in {"idle", "fetched"} => poll'.done = <<>>,
         \A id \in Ids : In(poll'.todo, id) \/ In(poll'.done, id) => Killed(id),
         \A id \in Ids : log'[id].ends = log[id].ends
                           \/ (Killed(id) /\ ~In(poll'.todo, id) /\ ~In(poll'.done, id) /\ log'[id].ends <= 1),
         \A id \in Ids : In(poll.todo, id) /\ Connected(id) => In(poll'.todo, id)
  PROVE  SessionsInv'
<1>1. TypeOK'
  BY Zenon DEF SessionsInv, TypeOK, PollState
<1>2. Queues'
  BY Zenon DEF SessionsInv, Queues
<1>3. \A id : /\ Called(id)' <=> Called(id)
              /\ Reaped(id)' <=> Reaped(id)
              /\ Stopped(id)' <=> Stopped(id)
              /\ Killed(id)' <=> In(poll'.todo, id) \/ In(poll'.done, id)
  BY Zenon DEF Called, Reaped, Stopped, Killed
<1>4. \A id \in Ids : Killed(id)' => Killed(id)
  BY Zenon, <1>3
<1>5. \A id \in Ids : Touched(id)' => Touched(id)
  BY Zenon, <1>3, <1>4 DEF Touched
<1>6. OneEnd'
  <2> SUFFICES ASSUME NEW id \in Ids
               PROVE  /\ id \in live' => ~Called(id)' /\ ~Reaped(id)' /\ ~Killed(id)' /\ ~Stopped(id)'
                      /\ Called(id)' => ~Reaped(id)' /\ ~Killed(id)' /\ ~Stopped(id)'
                      /\ Reaped(id)' => ~Killed(id)' /\ ~Stopped(id)'
                      /\ Killed(id)' => ~Stopped(id)'
                      /\ Touched(id)' => log'[id].ends = 0
                      /\ log'[id].ends <= 1
    BY Zenon DEF OneEnd
  <2>1. /\ id \in live => ~Called(id) /\ ~Reaped(id) /\ ~Killed(id) /\ ~Stopped(id)
        /\ Called(id) => ~Reaped(id) /\ ~Killed(id) /\ ~Stopped(id)
        /\ Reaped(id) => ~Killed(id) /\ ~Stopped(id)
        /\ Killed(id) => ~Stopped(id)
        /\ Touched(id) => log[id].ends = 0
        /\ log[id].ends <= 1
    BY Zenon DEF SessionsInv, OneEnd
  <2>2. /\ id \in live' <=> id \in live
        /\ Called(id)' <=> Called(id)
        /\ Reaped(id)' <=> Reaped(id)
        /\ Stopped(id)' <=> Stopped(id)
        /\ Killed(id)' => Killed(id)
        /\ Touched(id)' => Touched(id)
        /\ Touched(id)' <=> id \in live \/ Called(id) \/ Reaped(id) \/ Killed(id)' \/ Stopped(id)
    BY Zenon, <1>3, <1>4, <1>5 DEF Touched
  <2>3. log'[id].ends = log[id].ends \/ (Killed(id) /\ ~Killed(id)' /\ log'[id].ends <= 1)
    BY Zenon, <1>3
  <2> QED
    BY Zenon, <2>1, <2>2, <2>3
<1>7. SparedWhileBusy'
  BY Zenon, SameSpared DEF SessionsInv
<1>8. \A id \in Ids : log'[id].ends = log[id].ends \/ Touched(id)
  BY Zenon DEF Touched
<1>9. \A id \in Ids : Guarded(id) /\ Connected(id) => Guarded(id)'
  BY Zenon, <1>3 DEF Guarded, Held, In
<1>10. Up' => Up
  BY Zenon DEF Up
<1> QED
  BY Zenon, <1>1, <1>2, <1>5, <1>6, <1>7, <1>8, <1>9, <1>10, TeardownStep

LEMMA PollTypes ==
  ASSUME SessionsInv
  PROVE  /\ poll \in PollState /\ poll.todo \in Seq(Ids) /\ poll.done \in Seq(Ids)
         /\ Distinct(poll.todo) /\ Distinct(poll.done)
         /\ \A id \in Ids : ~(In(poll.todo, id) /\ In(poll.done, id))
         /\ poll.pc # "killing" => poll.todo = <<>>
         /\ poll.pc \in {"idle", "fetched"} => poll.done = <<>>
         /\ log \in [Ids -> [open : BOOLEAN, ends : Nat]]
BY Zenon DEF SessionsInv, TypeOK, Queues, PollState

LEMMA FetchInv ==
  ASSUME SessionsInv, FetchRevocations
  PROVE  SessionsInv'
<1>1. /\ poll.pc = "idle" /\ UNCHANGED <<obj, live, open, exec, reap, shut, frozen, told, log, ran>>
      /\ frozen \subseteq Subjects
  BY DEF FetchRevocations, SessionsInv, TypeOK
<1>2. /\ poll' \in PollState /\ poll'.pc = "fetched"
      /\ poll'.todo = poll.todo /\ poll'.done = poll.done
  BY Zenon, <1>1, PollTypes DEF FetchRevocations, PollState
<1> QED
  BY Zenon, <1>1, <1>2, PollTypes, PollStep DEF Killed

LEMMA EmptyQueue == Distinct(<<>>) /\ \A v : ~In(<<>>, v)
BY DEF Distinct, In

LEMMA KillNextInv ==
  ASSUME SessionsInv, killNext
  PROVE  SessionsInv'
<1>1. /\ poll.pc = "killing"
      /\ UNCHANGED <<obj, live, open, exec, reap, shut, frozen, told, log, ran>>
  BY DEF killNext
<1>2. CASE poll.todo = <<>>
  <2>1. /\ poll' \in PollState /\ poll'.pc = "auditing"
        /\ poll'.todo = poll.todo /\ poll'.done = poll.done
    BY Zenon, <1>2, PollTypes DEF killNext, PollState
  <2> QED
    BY Zenon, <1>1, <1>2, <2>1, PollTypes, PollStep DEF Killed
<1>3. CASE poll.todo # <<>>
  <2>1. PICK h : h = Head(poll.todo)
    OBVIOUS
  <2>2. PICK t : t = Tail(poll.todo)
    BY Zenon
  <2>3. PICK d : d = Append(poll.done, h)
    BY Zenon
  <2>4. /\ h \in Ids /\ t \in Seq(Ids) /\ Distinct(t) /\ ~In(t, h)
        /\ \A v : In(poll.todo, v) <=> v = h \/ In(t, v)
    BY Zenon, <1>3, <2>1, <2>2, PollTypes, HeadTail
  <2>5. ~In(poll.done, h)
    BY Zenon, <2>4, PollTypes
  <2>6. d \in Seq(Ids) /\ Distinct(d) /\ \A v : In(d, v) <=> v = h \/ In(poll.done, v)
    BY SMTT(20), <2>3, <2>4, <2>5, PollTypes, AppendOne
  <2>7. poll' = [poll EXCEPT !.todo = t, !.done = d] /\ Closed(h)
    BY <1>3, <2>1, <2>2, <2>3 DEF killNext
  <2>8. poll' \in PollState /\ poll'.pc = "killing" /\ poll'.todo = t /\ poll'.done = d
    BY Zenon, <1>1, <2>4, <2>6, <2>7, PollTypes DEF PollState
  <2>9. ~Connected(h)
    BY Zenon, <2>7 DEF Closed, Connected
  <2>10. \A id \in Ids : ~(In(t, id) /\ In(d, id))
    BY Zenon, <2>4, <2>6, PollTypes
  <2>11. \A id \in Ids : /\ In(t, id) \/ In(d, id) => Killed(id)
                         /\ In(poll.todo, id) /\ Connected(id) => In(t, id)
    BY Zenon, <2>4, <2>6, <2>9 DEF Killed
  <2> QED
    BY Zenon, <1>1, <2>4, <2>6, <2>8, <2>10, <2>11, PollTypes, PollStep
<1> QED
  BY <1>2, <1>3

LEMMA EnforceInv ==
  ASSUME SessionsInv, enforceRevocations
  PROVE  SessionsInv'
<1>1. /\ poll.pc = "auditing" /\ poll.todo = <<>>
      /\ UNCHANGED <<obj, live, open, exec, reap, shut, frozen, told, ran>>
  BY PollTypes DEF enforceRevocations
<1>2. CASE poll.done = <<>>
  <2>1. UNCHANGED log
    BY <1>2 DEF enforceRevocations
  <2>2. /\ poll' \in PollState /\ poll'.pc = "idle"
        /\ poll'.todo = poll.todo /\ poll'.done = poll.done
    BY <1>2, PollTypes DEF enforceRevocations, PollState
  <2> QED
    BY Zenon, <1>1, <1>2, <2>1, <2>2, PollTypes, PollStep DEF Killed
<1>3. CASE poll.done # <<>>
  <2>1. PICK h : h = Head(poll.done)
    OBVIOUS
  <2>2. PICK t : t = Tail(poll.done)
    BY Zenon
  <2>3. /\ h \in Ids /\ t \in Seq(Ids) /\ Distinct(t) /\ ~In(t, h)
        /\ \A v : In(poll.done, v) <=> v = h \/ In(t, v)
    BY Zenon, <1>3, <2>1, <2>2, PollTypes, HeadTail
  <2>4. poll' = [poll EXCEPT !.done = t]
    BY <1>3, <2>2 DEF enforceRevocations
  <2>5. poll' \in PollState /\ poll'.pc = "auditing" /\ poll'.todo = <<>> /\ poll'.done = t
    BY Zenon, <1>1, <2>3, <2>4, PollTypes DEF PollState
  <2>6. PICK ok \in BOOLEAN : log' = Ended(h, ok)
    BY Zenon, <1>3, <2>1, SessionsAssumption DEF enforceRevocations
  <2>7. Killed(h) /\ Touched(h)
    BY Zenon, <2>3 DEF Killed, Touched
  <2>8. /\ log' \in [Ids -> [open : BOOLEAN, ends : Nat]]
        /\ \A id \in Ids : /\ log'[id].open = log[id].open
                           /\ id # h => log'[id].ends = log[id].ends
        /\ log'[h].ends <= 1
    BY Zenon, <2>3, <2>6, <2>7, EndedOnce
  <2>9. \A id \in Ids : In(t, id) => Killed(id)
    BY Zenon, <2>3 DEF Killed
  <2> QED
    BY Zenon, <1>1, <2>3, <2>5, <2>7, <2>8, <2>9, PollTypes, PollStep, EmptyQueue
<1> QED
  BY <1>2, <1>3

LEMMA KillMatchingInv ==
  ASSUME SessionsInv, killMatching
  PROVE  SessionsInv'
<1>1. PICK V : V = {id \in live : revocationPredicate(poll.seen, id)}
  BY Zenon
<1>2. /\ poll.pc = "fetched" /\ live' = live \ V /\ V \subseteq live
      /\ UNCHANGED <<obj, open, exec, reap, shut, frozen, told, log, ran>>
  BY <1>1 DEF killMatching
<1>3. PICK q \in Orders(V) : poll' = [pc |-> "killing", seen |-> {}, todo |-> q, done |-> <<>>]
  BY Zenon, <1>1 DEF killMatching
<1>5. q \in Seq(V) /\ Distinct(q) /\ \A v : In(q, v) <=> v \in V
  BY Zenon, OrderOf
<1>6. V \subseteq Ids /\ live' \subseteq Ids /\ live' \subseteq live
  BY Zenon, <1>2 DEF SessionsInv, TypeOK
<1>7. q \in Seq(Ids)
  BY ZenonT(30), <1>5, <1>6, SeqWidens
<1>8. /\ poll' \in PollState /\ poll'.pc = "killing" /\ poll'.todo = q /\ poll'.done = <<>>
  BY <1>3, <1>7 DEF PollState
<1>9. TypeOK'
  BY Zenon, <1>2, <1>6, <1>8 DEF SessionsInv, TypeOK, PollState
<1>10. Queues'
  BY ZenonT(30), <1>2, <1>5, <1>8, EmptyQueue DEF SessionsInv, Queues
<1>11. \A id : /\ Called(id)' <=> Called(id)
               /\ Reaped(id)' <=> Reaped(id)
               /\ Stopped(id)' <=> Stopped(id)
               /\ Killed(id)' <=> id \in V
  <2>1. \A id : Killed(id)' <=> In(poll'.todo, id) \/ In(poll'.done, id)
    BY Zenon DEF Killed
  <2>2. \A id : Killed(id)' <=> id \in V
    BY Zenon, <2>1, <1>5, <1>8, EmptyQueue
  <2> QED
    BY Zenon, <2>2, <1>2 DEF Called, Reaped, Stopped
<1>12. \A id : ~Killed(id) /\ ~In(poll.todo, id)
  BY Zenon, <1>2, PollTypes, EmptyQueue DEF Killed
<1>13. \A id : /\ id \in live <=> id \in live' \/ Killed(id)'
               /\ ~(id \in live' /\ Killed(id)')
  BY Zenon, <1>2, <1>11
<1>14. \A id \in Ids : Touched(id)' <=> Touched(id)
  BY <1>11, <1>12, <1>13 DEF Touched
<1>15. OneEnd'
  BY Zenon, <1>2, <1>11, <1>13, <1>14 DEF SessionsInv, OneEnd
<1>16. SparedWhileBusy'
  BY <1>2, SameSpared DEF SessionsInv
<1>17. \A id \in Ids : Guarded(id) => Guarded(id)'
  <2>1. \A id : In(poll'.todo, id) <=> Killed(id)'
    BY Zenon, <1>5, <1>8, <1>11
  <2> QED
    BY Zenon, <2>1, <1>2, <1>11, <1>12, <1>13 DEF Guarded, Held, In
<1>18. Up' => Up
  BY <1>2 DEF Up
<1> QED
  BY ZenonT(30), <1>2, <1>6, <1>9, <1>10, <1>14, <1>15, <1>16, <1>17, <1>18, TeardownStep

ShutState ==
  [pc : {"up", "closing", "auditing", "down"}, todo : Seq(Ids), done : Seq(Ids)]

(* A step of Engine.Close that takes no session from the map.              *)
LEMMA ShutStep ==
  ASSUME SessionsInv, shut' \in ShutState,
         UNCHANGED <<obj, live, open, exec, reap, poll, frozen, told, ran>>,
         log' \in [Ids -> [open : BOOLEAN, ends : Nat]],
         \A id \in Ids : log'[id].open = log[id].open,
         Distinct(shut'.todo), Distinct(shut'.done),
         \A id \in Ids : ~(In(shut'.todo, id) /\ In(shut'.done, id)),
         shut'.pc # "closing" => shut'.todo = <<>>,
         shut'.pc # "up", shut.pc # "down",
         \A id \in Ids : In(shut'.todo, id) \/ In(shut'.done, id) => Stopped(id),
         \A id \in Ids : log'[id].ends = log[id].ends
                           \/ (Stopped(id) /\ ~In(shut'.todo, id) /\ ~In(shut'.done, id) /\ log'[id].ends <= 1),
         \A id \in Ids : In(shut.todo, id) /\ Connected(id) => In(shut'.todo, id)
  PROVE  SessionsInv'
<1>1. TypeOK'
  BY Zenon DEF SessionsInv, TypeOK, ShutState
<1>2. Queues'
  BY Zenon DEF SessionsInv, Queues
<1>3. \A id : /\ Called(id)' <=> Called(id)
              /\ Reaped(id)' <=> Reaped(id)
              /\ Killed(id)' <=> Killed(id)
              /\ Stopped(id)' <=> In(shut'.todo, id) \/ In(shut'.done, id)
  BY Zenon DEF Called, Reaped, Stopped, Killed
<1>4. \A id \in Ids : Stopped(id)' => Stopped(id)
  BY Zenon, <1>3
<1>5. \A id \in Ids : Touched(id)' => Touched(id)
  BY Zenon, <1>3, <1>4 DEF Touched
<1>6. OneEnd'
  <2> SUFFICES ASSUME NEW id \in Ids
               PROVE  /\ id \in live' => ~Called(id)' /\ ~Reaped(id)' /\ ~Killed(id)' /\ ~Stopped(id)'
                      /\ Called(id)' => ~Reaped(id)' /\ ~Killed(id)' /\ ~Stopped(id)'
                      /\ Reaped(id)' => ~Killed(id)' /\ ~Stopped(id)'
                      /\ Killed(id)' => ~Stopped(id)'
                      /\ Touched(id)' => log'[id].ends = 0
                      /\ log'[id].ends <= 1
    BY Zenon DEF OneEnd
  <2>1. /\ id \in live => ~Called(id) /\ ~Reaped(id) /\ ~Killed(id) /\ ~Stopped(id)
        /\ Called(id) => ~Reaped(id) /\ ~Killed(id) /\ ~Stopped(id)
        /\ Reaped(id) => ~Killed(id) /\ ~Stopped(id)
        /\ Killed(id) => ~Stopped(id)
        /\ Touched(id) => log[id].ends = 0
        /\ log[id].ends <= 1
    BY Zenon DEF SessionsInv, OneEnd
  <2>2. /\ id \in live' <=> id \in live
        /\ Called(id)' <=> Called(id)
        /\ Reaped(id)' <=> Reaped(id)
        /\ Killed(id)' <=> Killed(id)
        /\ Stopped(id)' => Stopped(id)
        /\ Touched(id)' => Touched(id)
        /\ Touched(id)' <=> id \in live \/ Called(id) \/ Reaped(id) \/ Killed(id) \/ Stopped(id)'
    BY Zenon, <1>3, <1>4, <1>5 DEF Touched
  <2>3. log'[id].ends = log[id].ends \/ (Stopped(id) /\ ~Stopped(id)' /\ log'[id].ends <= 1)
    BY Zenon, <1>3
  <2> QED
    BY Zenon, <2>1, <2>2, <2>3
<1>7. SparedWhileBusy'
  BY Zenon, SameSpared DEF SessionsInv
<1>8. \A id \in Ids : log'[id].ends = log[id].ends \/ Touched(id)
  BY Zenon DEF Touched
<1>9. \A id \in Ids : Guarded(id) /\ Connected(id) => Guarded(id)'
  BY Zenon, <1>3 DEF Guarded, Held, In
<1>10. Up' => Up
  BY Zenon DEF Up
<1> QED
  BY ZenonT(30), <1>1, <1>2, <1>5, <1>6, <1>7, <1>8, <1>9, <1>10, TeardownStep

LEMMA ShutTypes ==
  ASSUME SessionsInv
  PROVE  /\ shut \in ShutState /\ shut.todo \in Seq(Ids) /\ shut.done \in Seq(Ids)
         /\ Distinct(shut.todo) /\ Distinct(shut.done)
         /\ \A id \in Ids : ~(In(shut.todo, id) /\ In(shut.done, id))
         /\ shut.pc # "closing" => shut.todo = <<>>
         /\ shut.pc = "up" => shut.done = <<>>
         /\ log \in [Ids -> [open : BOOLEAN, ends : Nat]]
BY Zenon DEF SessionsInv, TypeOK, Queues, ShutState

LEMMA CloseAllInv ==
  ASSUME SessionsInv, closeAll
  PROVE  SessionsInv'
<1>1. /\ shut.pc = "up" /\ live' = {}
      /\ UNCHANGED <<obj, open, exec, reap, poll, frozen, told, log, ran>>
  BY Zenon DEF closeAll
<1>2. PICK q \in Orders(live) : shut' = [pc |-> "closing", todo |-> q, done |-> <<>>]
  BY DEF closeAll
<1>3. q \in Seq(live) /\ Distinct(q) /\ \A v : In(q, v) <=> v \in live
  BY Zenon, OrderOf
<1>4. q \in Seq(Ids)
  BY Zenon, <1>3, SeqWidens DEF SessionsInv, TypeOK
<1>5. /\ shut' \in ShutState /\ shut'.pc = "closing" /\ shut'.todo = q /\ shut'.done = <<>>
  <2>1. <<>> \in Seq(Ids)
    OBVIOUS
  <2> QED
    BY Zenon, <1>2, <1>4, <2>1 DEF ShutState
<1>6. TypeOK'
  <2>1. live' \subseteq Ids
    BY <1>1
  <2> QED
    BY ZenonT(30), <2>1, <1>1, <1>5 DEF SessionsInv, TypeOK, ShutState
<1>7. Queues'
  BY ZenonT(30), <1>1, <1>3, <1>5, EmptyQueue DEF SessionsInv, Queues
<1>8. \A id : /\ Called(id)' <=> Called(id)
              /\ Reaped(id)' <=> Reaped(id)
              /\ Killed(id)' <=> Killed(id)
              /\ Stopped(id)' <=> id \in live
  <2>1. \A id : Stopped(id)' <=> In(shut'.todo, id) \/ In(shut'.done, id)
    BY DEF Stopped
  <2>2. \A id : Stopped(id)' <=> id \in live
    BY Zenon, <2>1, <1>3, <1>5, EmptyQueue
  <2> QED
    BY Zenon, <2>2, <1>1 DEF Called, Reaped, Killed
<1>9. \A id : ~Stopped(id) /\ ~In(shut.todo, id)
  <2>1. shut.todo = <<>> /\ shut.done = <<>>
    BY Zenon, <1>1, ShutTypes
  <2> QED
    BY Zenon, <2>1, EmptyQueue DEF Stopped
<1>10. \A id \in Ids : Touched(id)' <=> Touched(id)
  BY Zenon, <1>1, <1>8, <1>9 DEF Touched
<1>11. OneEnd'
  BY Zenon, <1>1, <1>8, <1>10 DEF SessionsInv, OneEnd
<1>12. SparedWhileBusy'
  BY <1>1, SameSpared DEF SessionsInv
<1>13. \A id \in Ids : Guarded(id) => Guarded(id)'
  <2>1. \A id : In(shut'.todo, id) <=> id \in live
    BY Zenon, <1>3, <1>5
  <2> QED
    BY Zenon, <2>1, <1>1, <1>8, <1>9 DEF Guarded, Held, In
<1>14. Up' => Up
  BY <1>1 DEF Up
<1>15. live' \subseteq live
  BY <1>1
<1> QED
  BY Zenon, <1>1, <1>6, <1>7, <1>10, <1>11, <1>12, <1>13, <1>14, <1>15, TeardownStep

LEMMA CloseNextInv ==
  ASSUME SessionsInv, closeNext
  PROVE  SessionsInv'
<1>1. /\ shut.pc = "closing"
      /\ UNCHANGED <<obj, live, open, exec, reap, poll, frozen, told, log, ran>>
  BY DEF closeNext
<1>2. CASE shut.todo = <<>>
  <2>1. /\ shut' \in ShutState /\ shut'.pc = "auditing"
        /\ shut'.todo = shut.todo /\ shut'.done = shut.done
    BY SMTT(20), <1>2, ShutTypes DEF closeNext, ShutState
  <2> QED
    BY Zenon, <1>1, <1>2, <2>1, ShutTypes, ShutStep DEF Stopped
<1>3. CASE shut.todo # <<>>
  <2>1. PICK h : h = Head(shut.todo)
    OBVIOUS
  <2>2. PICK t : t = Tail(shut.todo)
    BY Zenon
  <2>3. PICK d : d = Append(shut.done, h)
    BY Zenon
  <2>4. /\ h \in Ids /\ t \in Seq(Ids) /\ Distinct(t) /\ ~In(t, h)
        /\ \A v : In(shut.todo, v) <=> v = h \/ In(t, v)
    BY Zenon, <1>3, <2>1, <2>2, ShutTypes, HeadTail
  <2>5. ~In(shut.done, h)
    BY ZenonT(30), <2>4, ShutTypes
  <2>6. d \in Seq(Ids) /\ Distinct(d) /\ \A v : In(d, v) <=> v = h \/ In(shut.done, v)
    BY SMTT(20), <2>3, <2>4, <2>5, ShutTypes, AppendOne
  <2>7. shut' = [shut EXCEPT !.todo = t, !.done = d] /\ Closed(h)
    BY SMTT(20), <1>3, <2>1, <2>2, <2>3 DEF closeNext
  <2>8. shut' \in ShutState /\ shut'.pc = "closing" /\ shut'.todo = t /\ shut'.done = d
    BY Zenon, <1>1, <2>4, <2>6, <2>7, ShutTypes DEF ShutState
  <2>9. ~Connected(h)
    BY <2>7 DEF Closed, Connected
  <2>10. \A id \in Ids : ~(In(t, id) /\ In(d, id))
    BY ZenonT(30), <2>4, <2>6, ShutTypes
  <2>11. \A id \in Ids : /\ In(t, id) \/ In(d, id) => Stopped(id)
                         /\ In(shut.todo, id) /\ Connected(id) => In(t, id)
    BY SMTT(20), <2>4, <2>6, <2>9 DEF Stopped
  <2> QED
    BY Zenon, <1>1, <2>4, <2>6, <2>8, <2>10, <2>11, ShutTypes, ShutStep
<1> QED
  BY <1>2, <1>3

LEMMA CloseInv ==
  ASSUME SessionsInv, Close
  PROVE  SessionsInv'
<1>1. /\ shut.pc = "auditing" /\ shut.todo = <<>>
      /\ UNCHANGED <<obj, live, open, exec, reap, poll, frozen, told, ran>>
  BY ShutTypes DEF Close
<1>2. CASE shut.done = <<>>
  <2>1. UNCHANGED log
    BY <1>2 DEF Close
  <2>2. /\ shut' \in ShutState /\ shut'.pc = "down"
        /\ shut'.todo = shut.todo /\ shut'.done = shut.done
    BY <1>2, ShutTypes DEF Close, ShutState
  <2> QED
    BY Zenon, <1>1, <1>2, <2>1, <2>2, ShutTypes, ShutStep DEF Stopped
<1>3. CASE shut.done # <<>>
  <2>1. PICK h : h = Head(shut.done)
    OBVIOUS
  <2>2. PICK t : t = Tail(shut.done)
    BY Zenon
  <2>3. /\ h \in Ids /\ t \in Seq(Ids) /\ Distinct(t) /\ ~In(t, h)
        /\ \A v : In(shut.done, v) <=> v = h \/ In(t, v)
    BY Zenon, <1>3, <2>1, <2>2, ShutTypes, HeadTail
  <2>4. shut' = [shut EXCEPT !.done = t]
    BY <1>3, <2>2 DEF Close
  <2>5. shut' \in ShutState /\ shut'.pc = "auditing" /\ shut'.todo = <<>> /\ shut'.done = t
    BY Zenon, <1>1, <2>3, <2>4, ShutTypes DEF ShutState
  <2>6. PICK ok \in BOOLEAN : log' = Ended(h, ok)
    BY Zenon, <1>3, <2>1, SessionsAssumption DEF Close
  <2>7. Stopped(h) /\ Touched(h)
    BY ZenonT(30), <2>3 DEF Stopped, Touched
  <2>8. /\ log' \in [Ids -> [open : BOOLEAN, ends : Nat]]
        /\ \A id \in Ids : /\ log'[id].open = log[id].open
                           /\ id # h => log'[id].ends = log[id].ends
        /\ log'[h].ends <= 1
    BY Zenon, <2>3, <2>6, <2>7, EndedOnce
  <2>9. \A id \in Ids : In(t, id) => Stopped(id)
    BY <2>3 DEF Stopped
  <2> QED
    BY ZenonT(30), <1>1, <2>3, <2>5, <2>7, <2>8, <2>9, ShutTypes, ShutStep, EmptyQueue
<1> QED
  BY <1>2, <1>3

-----------------------------------------------------------------------------
(* Nothing here depends on who is frozen. *)

LEMMA FrozenInv ==
  ASSUME SessionsInv, frozen' \subseteq Subjects,
         UNCHANGED <<obj, live, open, exec, reap, poll, shut, told, log, ran>>
  PROVE  SessionsInv'
<1>1. TypeOK'
  BY Zenon DEF SessionsInv, TypeOK
<1>2. Queues' /\ OneEnd' /\ SparedWhileBusy'
  BY Zenon, SameQueues, SameEnds, SameSpared DEF SessionsInv
<1>3. Telling' /\ Counted'
  BY SameTelling, SameCounted DEF SessionsInv
<1>4. Opening'
  BY Zenon, SameEnds, SameOpening DEF SessionsInv
<1>5. NoOrphan'
  BY Zenon DEF SessionsInv, NoOrphan, Up, Connected, Guarded, Held, Called, Reaped
<1> QED
  BY Zenon, <1>1, <1>2, <1>3, <1>4, <1>5 DEF SessionsInv

LEMMA FreezeInv ==
  ASSUME SessionsInv, NEW u \in Freezable, Freeze(u) \/ Unfreeze(u)
  PROVE  SessionsInv'
<1>1. frozen' \subseteq Subjects
  BY SessionsAssumption DEF SessionsInv, TypeOK, Freeze, Unfreeze
<1> QED
  BY Zenon, <1>1, FrozenInv DEF Freeze, Unfreeze

LEMMA StutterSessions ==
  ASSUME SessionsInv, UNCHANGED vars
  PROVE  SessionsInv'
<1>1. frozen' \subseteq Subjects
  BY Zenon DEF SessionsInv, TypeOK, vars
<1> QED
  BY Zenon, <1>1, FrozenInv DEF vars

LEMMA SessionsNextInv ==
  ASSUME SessionsInv, [Next]_vars
  PROVE  SessionsInv'
<1>1. CASE \E id \in Ids : closeTransport(id) \/ closeShell(id)
  BY Zenon, <1>1, CloseTransportInv, CloseShellInv
<1>2. ASSUME NEW o \in Openers,
             \/ \E c \in Callers, m \in Modes, id \in Ids : OpenSession(o, c, m, id)
             \/ dialFailed(o) \/ dialed(o) \/ add(o) \/ auditOpen(o) \/ openFailed(o)
      PROVE  SessionsInv'
  BY Zenon, <1>2, OpenSessionInv, DialFailedInv, DialedInv, AddInv, AuditOpenInv, OpenFailedInv
<1>3. ASSUME NEW x \in Execs,
             \/ \E c \in Callers, id \in Ids : checkoutOwned(x, c, id) \/ removeOwned(x, c, id)
             \/ authorizeSessionExec(x) \/ startCommand(x) \/ commandDone(x) \/ checkin(x)
             \/ CloseSession(x)
      PROVE  SessionsInv'
  BY Zenon, <1>3, CheckoutInv, RemoveOwnedInv, AuthorizeInv, StartCommandInv, CommandDoneInv,
     CheckinInv, CloseSessionInv
<1>4. CASE reapExpired \/ onReap
  BY Zenon, <1>4, ReapExpiredInv, OnReapInv
<1>5. CASE FetchRevocations \/ killMatching \/ killNext \/ enforceRevocations
  BY Zenon, <1>5, FetchInv, KillMatchingInv, KillNextInv, EnforceInv
<1>6. CASE closeAll \/ closeNext \/ Close
  BY Zenon, <1>6, CloseAllInv, CloseNextInv, CloseInv
<1>7. CASE \E u \in Freezable : Freeze(u) \/ Unfreeze(u)
  BY <1>7, FreezeInv
<1>8. CASE Tick
  BY <1>8, TickInv
<1>9. CASE UNCHANGED vars
  BY <1>9, StutterSessions
<1> QED
  BY Zenon, <1>1, <1>2, <1>3, <1>4, <1>5, <1>6, <1>7, <1>8, <1>9 DEF Next

LEMMA AlwaysSessionsInv == Spec => []SessionsInv
<1>1. SessionsInv /\ [Next]_vars => SessionsInv'
  BY SessionsNextInv
<1> QED
  BY <1>1, InitSessions, PTL DEF Spec

(* The queues that NoOrphanConn names hold the sessions being torn down.   *)
LEMMA GuardedMeans ==
  ASSUME SessionsInv
  PROVE  NoOrphanConn
<1> SUFFICES ASSUME NEW id \in Ids, Connected(id), Up
             PROVE  id \in live \cup Doomed
                             \cup {open[o].id : o \in {p \in Openers : open[p].pc = "dialed"}}
  BY DEF NoOrphanConn, Connected
<1>1. Guarded(id)
  BY Zenon DEF SessionsInv, NoOrphan
<1>2. Closing \subseteq Doomed
  BY Zenon DEF Doomed
<1>3. CASE Held(id)
  BY Zenon, <1>2, <1>3 DEF Held, Closing
<1>4. CASE Called(id)
  BY Zenon, <1>2, <1>4 DEF Called, Closing
<1>5. CASE Reaped(id)
  BY Zenon, <1>5 DEF Reaped, InReap, Doomed
<1>6. CASE In(poll.todo, id) \/ In(shut.todo, id)
  BY <1>6 DEF In, Doomed
<1> QED
  BY Zenon, <1>1, <1>3, <1>4, <1>5, <1>6 DEF Guarded

(* NoOrphanConn: a connection that is open is in the session manager's     *)
(* map, held by the OpenSession call that dialled it, or on its way to     *)
(* close() through one of the four teardown paths.                         *)
THEOREM NoConnectionLeftBehind == Spec => []NoOrphanConn
BY AlwaysSessionsInv, GuardedMeans, PTL

(* SparedWhileBusy: reapExpired takes a session that a command is using    *)
(* only when its certificate has expired, whatever number of commands      *)
(* share it and however checkoutOwned and checkin interleave with a tick.  *)
THEOREM BusySpared == Spec => []SparedWhileBusy
<1>1. SessionsInv => SparedWhileBusy
  BY Zenon DEF SessionsInv
<1> QED
  BY <1>1, AlwaysSessionsInv, PTL

(* LifeAudited: the end of a session is appended at most once, whichever   *)
(* of CloseSession, the reaper, the kill switch and Engine.Close reach it, *)
(* and in fail-closed mode a command runs only in a session whose          *)
(* session_open record was written.                                        *)
THEOREM SessionLifeAudited == Spec => []LifeAudited
<1>1. SessionsInv => LifeAudited
  BY Zenon DEF SessionsInv, OneEnd, Telling, LifeAudited
<1> QED
  BY <1>1, AlwaysSessionsInv, PTL
=============================================================================
