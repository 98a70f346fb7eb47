------------------------ MODULE ControlPlane_proofs -------------------------
(***************************************************************************)
(* Type correctness of the control plane, exclusiveness of the claim on    *)
(* an approval, the one outcome of a request, four eyes, the window of an  *)
(* approval and the refinement of ApprovalLifecycle, for every set of ids, *)
(* polls and brokers and every bound.                                      *)
(*                                                                         *)
(* The first part proves the types and the claims.  The second describes,  *)
(* once for all handlers, how a step may change an entry of the registry   *)
(* and its row (Moved, RowMoved); the invariant of outcomes rests on that  *)
(* description, and so does the third part, on decisions.                  *)
(***************************************************************************)
EXTENDS ControlPlane, TLAPS

Entry == Approval \cup {NoApproval}

(* Set membership is a truth value (the bearer field of a request).        *)
LEMMA MemberIsBoolean == \A x, S : (x \in S) \in BOOLEAN
OBVIOUS

(* The clock only compares times; expiry keeps the claim and the burn of   *)
(* an entry (expireLocked).                                                *)
LEMMA ExpireFacts ==
    ASSUME NEW a \in Entry, NEW t \in Nat
    PROVE  /\ expireLocked(a, t) \in Entry
           /\ (expireLocked(a, t) = NoApproval) <=> (a = NoApproval)
           /\ a # NoApproval => /\ expireLocked(a, t).issuing = a.issuing
                                /\ expireLocked(a, t).consumed = a.consumed
                                /\ expireLocked(a, t).caller = a.caller
                                /\ a.issuing /\ a.status = "approved" => expireLocked(a, t) = a
<1>1. CASE a = NoApproval
  BY <1>1, RegistryAssumption DEF Entry, expireLocked
<1>2. CASE a # NoApproval /\ expireLocked(a, t) = a
  BY <1>2 DEF Entry
<1>3. CASE a # NoApproval /\ expireLocked(a, t) # a
  <2>1. a \in Approval
    BY <1>3 DEF Entry
  <2>2. expireLocked(a, t) = [a EXCEPT !.status = "expired"]
    BY <1>3 DEF expireLocked
  <2>3. [a EXCEPT !.status = "expired"] \in Approval
    BY Zenon, <2>1 DEF Approval, Statuses
  <2>4. Overdue(a, t)
    BY <1>3 DEF expireLocked
  <2>5. ~(a.issuing /\ a.status = "approved")
    BY <2>4 DEF Overdue
  <2>6. /\ [a EXCEPT !.status = "expired"].issuing = a.issuing
        /\ [a EXCEPT !.status = "expired"].consumed = a.consumed
        /\ [a EXCEPT !.status = "expired"].caller = a.caller
    BY Zenon, <2>1 DEF Approval
  <2> QED
    BY <1>3, <2>2, <2>3, <2>5, <2>6, RegistryAssumption DEF Entry
<1> QED
  BY <1>1, <1>2, <1>3

(* purgeLocked and NewRegistryDB keep an entry whole or drop it.           *)
LEMMA PurgeFacts ==
    ASSUME NEW a \in Entry, NEW t \in Nat
    PROVE  /\ PurgedEntry(a, t) \in {a, NoApproval}
           /\ PurgedRow(a, t) \in {a, NoApproval}
           /\ Loaded(a, t) \in {a, NoApproval}
BY DEF PurgedEntry, PurgedRow, Loaded

(* CreateWith makes an unclaimed, unused entry, and insertDB its row.      *)
LEMMA NewFacts ==
    ASSUME NEW cn \in CNs, NEW u \in EndUsers \cup {""}, NEW s \in BOOLEAN, NEW h \in Hosts,
           NEW c \in Cmds, NEW r \in Rules, NEW b \in BOOLEAN, NEW t \in Nat
    PROVE  LET a == NewApproval(cn, u, s, h, c, r, b, t)
           IN /\ a \in Approval /\ ~a.issuing /\ ~a.consumed
              /\ Row(a) \in Approval /\ ~Row(a).issuing
<1> DEFINE a == NewApproval(cn, u, s, h, c, r, b, t)
<1>1. a \in Approval /\ ~a.issuing /\ ~a.consumed
  BY Zenon DEF NewApproval, Approval, Statuses
<1>2. Row(a) \in Approval /\ ~Row(a).issuing
  BY Zenon, <1>1 DEF Row, Approval
<1> QED
  BY Zenon, <1>1, <1>2

(* A decision changes neither the claim nor the burn (Decide).             *)
LEMMA DecidedFacts ==
    ASSUME NEW a \in Approval, NEW approve \in BOOLEAN, NEW cn \in CNs,
           NEW learn \in BOOLEAN, NEW t \in Nat
    PROVE  LET d == Decided(a, approve, cn, learn, t)
           IN d \in Approval /\ d.issuing = a.issuing /\ d.consumed = a.consumed
<1> DEFINE d == Decided(a, approve, cn, learn, t)
<1>1. d \in Approval
  <2>1. /\ (IF approve THEN "approved" ELSE "denied") \in Statuses
        /\ (approve /\ learn) \in BOOLEAN
    BY DEF Statuses
  <2> QED
    BY ZenonT(30), <2>1 DEF Decided, Approval
<1>2. d.issuing = a.issuing /\ d.consumed = a.consumed
  BY Zenon DEF Decided, Approval
<1> QED
  BY <1>1, <1>2

(* What BeginConsume, FinishConsume and ReportResultOnce leave.            *)
LEMMA ConsumeFacts ==
    ASSUME NEW a \in Entry, NEW ok \in BOOLEAN
    PROVE  /\ BeginConsume(a) \in Entry
           /\ FinishConsume(a, ok) \in Entry
           /\ ReportResultOnce(a) \in Entry
           /\ (BeginConsume(a) = NoApproval) <=> (a = NoApproval)
           /\ (FinishConsume(a, ok) = NoApproval) <=> (a = NoApproval)
           /\ (ReportResultOnce(a) = NoApproval) <=> (a = NoApproval)
           /\ Startable(a) => /\ BeginConsume(a).issuing
                              /\ BeginConsume(a).status = "approved"
                              /\ ~BeginConsume(a).consumed
           /\ ~Startable(a) => BeginConsume(a) = a
           /\ a # NoApproval => /\ ~FinishConsume(a, ok).issuing
                                /\ FinishConsume(a, ok).consumed = (a.consumed \/ ok)
                                /\ ReportResultOnce(a).issuing = a.issuing
                                /\ ReportResultOnce(a).consumed = a.consumed
           /\ a # NoApproval /\ a.status = "approved" => ReportResultOnce(a) = a
<1>1. CASE a = NoApproval
  BY <1>1, RegistryAssumption
     DEF Entry, BeginConsume, FinishConsume, ReportResultOnce, Startable, Reports
<1>2. CASE a \in Approval
  <2>0. a # NoApproval
    BY <1>2, RegistryAssumption
  <2>1. /\ BeginConsume(a) \in Approval
        /\ Startable(a) => /\ BeginConsume(a).issuing
                           /\ BeginConsume(a).status = "approved"
                           /\ ~BeginConsume(a).consumed
        /\ ~Startable(a) => BeginConsume(a) = a
    <3>1. CASE Startable(a)
      <4>1. BeginConsume(a) = [a EXCEPT !.issuing = TRUE]
        BY <3>1 DEF BeginConsume
      <4>2. a.status = "approved" /\ ~a.consumed
        BY <3>1 DEF Startable
      <4>3. /\ [a EXCEPT !.issuing = TRUE] \in Approval
            /\ [a EXCEPT !.issuing = TRUE].issuing
            /\ [a EXCEPT !.issuing = TRUE].status = a.status
            /\ [a EXCEPT !.issuing = TRUE].consumed = a.consumed
        BY Zenon, <1>2 DEF Approval
      <4> QED
        BY <3>1, <4>1, <4>2, <4>3
    <3>2. CASE ~Startable(a)
      BY <1>2, <3>2 DEF BeginConsume
    <3> QED
      BY <3>1, <3>2
  <2>2. /\ FinishConsume(a, ok) \in Approval
        /\ ~FinishConsume(a, ok).issuing
        /\ FinishConsume(a, ok).consumed = (a.consumed \/ ok)
    BY Zenon, <1>2, <2>0 DEF FinishConsume, Approval
  <2>3. /\ ReportResultOnce(a) \in Approval
        /\ ReportResultOnce(a).issuing = a.issuing
        /\ ReportResultOnce(a).consumed = a.consumed
        /\ a.status = "approved" => ReportResultOnce(a) = a
    <3>1. CASE Reports(a)
      <4>1. ReportResultOnce(a) = [a EXCEPT !.resultReported = TRUE] /\ a.status # "approved"
        BY <3>1 DEF ReportResultOnce, Reports
      <4>2. ReportResultOnce(a) \in Approval
        BY Zenon, <1>2, <4>1 DEF Approval
      <4>3. /\ ReportResultOnce(a).issuing = a.issuing
            /\ ReportResultOnce(a).consumed = a.consumed
        BY Zenon, <1>2, <4>1 DEF Approval
      <4> QED
        BY <4>1, <4>2, <4>3
    <3>2. CASE ~Reports(a)
      BY <1>2, <3>2 DEF ReportResultOnce
    <3> QED
      BY <3>1, <3>2
  <2> QED
    BY <2>0, <2>1, <2>2, <2>3, RegistryAssumption DEF Entry
<1> QED
  BY <1>1, <1>2 DEF Entry
-----------------------------------------------------------------------------
(* The inductive invariant.  Ids in use are registered and never come up   *)
(* again; the claim column is always false in the db, so a restart revives *)
(* no claim; and an approval that already gave out the credential of this  *)
(* life is purged, burned, or in the hands of the poll that will burn it.  *)
Known ==
    /\ \A p \in Pollers : poll[p].pc # "idle" =>
          poll[p].id \in Ids /\ origin[poll[p].id] # NoApproval
    /\ \A id \in Ids : items[id] # NoApproval \/ db[id] # NoApproval \/ delivered[id] > 0 =>
          origin[id] # NoApproval

RowsIdle == \A id \in Ids : db[id] # NoApproval => ~db[id].issuing

Spent ==
    \A id \in Ids : delivered[id] = 1 =>
        /\ \/ items[id] = NoApproval
           \/ items[id].consumed
           \/ \E p \in Pollers : Holds(p, id) /\ poll[p].pc = "finish" /\ poll[p].ok
        /\ \A p \in Pollers : Holds(p, id) => poll[p].pc = "finish"

OneCredential == \A id \in Ids : delivered[id] <= 1

Inv == TypeOK /\ Known /\ RowsIdle /\ ClaimExclusive /\ NoOrphanClaim /\ Spent /\ OneCredential

LEMMA InitInv == Init => Inv
<1> SUFFICES ASSUME Init PROVE Inv
  OBVIOUS
<1>1. TypeOK
  BY DEF Init, TypeOK, Poll, IdlePoll, PollStates
<1>2. \A p \in Pollers : poll[p].pc = "idle"
  BY DEF Init, IdlePoll
<1>3. \A id \in Ids : items[id] = NoApproval /\ db[id] = NoApproval /\ delivered[id] = 0
  BY DEF Init
<1>4. restarts = 0
  BY DEF Init
<1> QED
  BY <1>1, <1>2, <1>3, <1>4
     DEF Inv, Known, RowsIdle, ClaimExclusive, NoOrphanClaim, Spent, OneCredential, Holds

Claimed(q) == q.pc \in {"forward", "gate", "finish"}

(* A step that leaves claims, burns and deliveries as they are.            *)
LEMMA QuietStep ==
    ASSUME Inv, TypeOK',
           UNCHANGED <<delivered, restarts>>,
           \A p \in Pollers :
              \/ poll'[p] = poll[p]
              \/ /\ ~Claimed(poll[p]) /\ ~Claimed(poll'[p])
                 /\ poll'[p].pc # "idle" =>
                       poll'[p].id \in Ids /\ origin'[poll'[p].id] # NoApproval,
           \A id \in Ids : origin[id] # NoApproval => origin'[id] # NoApproval,
           \A id \in Ids : \/ items'[id] = NoApproval
                           \/ /\ items[id] # NoApproval /\ items'[id] # NoApproval
                              /\ items'[id].issuing = items[id].issuing
                              /\ items'[id].consumed = items[id].consumed
                              /\ items[id].issuing /\ items[id].status = "approved"
                                    => items'[id].status = "approved"
                           \/ /\ origin[id] = NoApproval /\ origin'[id] # NoApproval
                              /\ ~items'[id].issuing /\ ~items'[id].consumed,
           \A id \in Ids : db'[id] # NoApproval =>
                /\ ~db'[id].issuing
                /\ db[id] # NoApproval \/ origin'[id] # NoApproval
    PROVE  Inv'
<1>0. \A p \in Pollers, id \in Ids : Holds(p, id)' => Holds(p, id) /\ poll'[p] = poll[p]
  BY DEF Holds, Claimed
<1>00. \A p \in Pollers, id \in Ids : Holds(p, id) => Holds(p, id)' /\ poll'[p] = poll[p]
  BY Zenon DEF Holds, Claimed
<1>1. Known'
  BY DEF Inv, Known, TypeOK
<1>2. RowsIdle'
  BY DEF RowsIdle
<1>3. ClaimExclusive' /\ NoOrphanClaim'
  <2>1. ClaimExclusive'
    <3>1. ASSUME NEW p \in Pollers, NEW id \in Ids, Holds(p, id)', items'[id] # NoApproval
          PROVE  items'[id].issuing /\ items'[id].status = "approved" /\ ~items'[id].consumed
      <4>1. Holds(p, id) /\ origin[id] # NoApproval
        BY <1>0, <3>1 DEF Inv, Known, Holds
      <4>2. /\ items[id] # NoApproval /\ items'[id].issuing = items[id].issuing
            /\ items'[id].consumed = items[id].consumed
            /\ items[id].issuing /\ items[id].status = "approved" => items'[id].status = "approved"
        BY Zenon, <3>1, <4>1
      <4> QED
        BY Zenon, <4>1, <4>2 DEF Inv, ClaimExclusive
    <3> QED
      BY Zenon, <1>0, <3>1 DEF Inv, ClaimExclusive
  <2>2. NoOrphanClaim'
    BY Zenon, <1>0, <1>00 DEF Inv, NoOrphanClaim, Known
  <2> QED
    BY Zenon, <2>1, <2>2
<1>4. Spent' /\ OneCredential'
  <2>1. \A id \in Ids : delivered[id] = 1 => delivered[id] > 0
    BY DEF Inv, TypeOK
  <2>2. Spent'
    <3> SUFFICES ASSUME NEW id \in Ids, delivered'[id] = 1
                 PROVE  /\ \/ items'[id] = NoApproval
                           \/ items'[id].consumed
                           \/ \E p \in Pollers :
                                 Holds(p, id)' /\ poll'[p].pc = "finish" /\ poll'[p].ok
                        /\ \A p \in Pollers : Holds(p, id)' => poll'[p].pc = "finish"
      BY Zenon DEF Spent
    <3>1. /\ \/ items[id] = NoApproval
             \/ items[id].consumed
             \/ \E p \in Pollers : Holds(p, id) /\ poll[p].pc = "finish" /\ poll[p].ok
          /\ \A p \in Pollers : Holds(p, id) => poll[p].pc = "finish"
      BY DEF Inv, Spent
    <3>2. origin[id] # NoApproval
      BY <2>1 DEF Inv, Known
    <3>3. \A p \in Pollers : Holds(p, id)' => poll'[p].pc = "finish"
      BY <1>0, <3>1
    <3>4. \/ items'[id] = NoApproval
          \/ items[id] # NoApproval /\ items'[id].consumed = items[id].consumed
      BY <3>2, Zenon
    <3>5. (\E p \in Pollers : Holds(p, id) /\ poll[p].pc = "finish" /\ poll[p].ok) =>
             \E p \in Pollers : Holds(p, id)' /\ poll'[p].pc = "finish" /\ poll'[p].ok
      BY <1>00
    <3> QED
      BY <3>1, <3>3, <3>4, <3>5
  <2> QED
    BY Zenon, <2>2 DEF Inv, OneCredential
<1> QED
  BY <1>1, <1>2, <1>3, <1>4 DEF Inv
-----------------------------------------------------------------------------
(* The registry after requireApproval, whatever the db answers.            *)
LEMMA RequireStep ==
    ASSUME Inv, NEW id \in Ids, NEW cn \in CNs, NEW u \in EndUsers \cup {""},
           NEW h \in Hosts, NEW c \in Cmds, NEW r \in Rules, origin[id] = NoApproval,
           requireApproval(id, cn, u, h, c, r),
           signing' \in [Signers -> SignRequest \cup {NoRequest}],
           UNCHANGED <<now, poll, gating, allowed, restarts, outcomeVars>>
    PROVE  Inv'
<1>1. PICK ok, purgeOk \in DbOutcomes :
        LET trusted == cn \in Forwarders
            a == NewApproval(cn, IF trusted THEN u ELSE "", ~trusted /\ u # "",
                             h, c, r, cn \in Gated, now)
            kept == [i \in Ids |-> PurgedEntry(items[i], now)]
            rows == BestEffort([i \in Ids |-> PurgedRow(db[i], now)], purgeOk)
            fails == StateDB /\ ~ok
        IN /\ items' = IF fails THEN kept ELSE [kept EXCEPT ![id] = a]
           /\ db' = IF StateDB /\ ok THEN [rows EXCEPT ![id] = Row(a)] ELSE rows
           /\ origin' = IF fails THEN origin ELSE [origin EXCEPT ![id] = a]
  BY Zenon DEF requireApproval
<1> DEFINE a == NewApproval(cn, IF cn \in Forwarders THEN u ELSE "",
                            cn \notin Forwarders /\ u # "", h, c, r, cn \in Gated, now)
           kept == [i \in Ids |-> PurgedEntry(items[i], now)]
           rows == BestEffort([i \in Ids |-> PurgedRow(db[i], now)], purgeOk)
           fails == StateDB /\ ~ok
<1>2. /\ a \in Approval /\ ~a.issuing /\ ~a.consumed
      /\ Row(a) \in Approval /\ ~Row(a).issuing
      /\ a # NoApproval
  <2> DEFINE eu == IF cn \in Forwarders THEN u ELSE ""
             st == cn \notin Forwarders /\ u # ""
             br == cn \in Gated
  <2>1. eu \in EndUsers \cup {""} /\ now \in Nat
    BY Zenon DEF Inv, TypeOK
  <2>2. st \in BOOLEAN
    BY Zenon
  <2>3. br \in BOOLEAN
    BY MemberIsBoolean, Zenon
  <2> HIDE DEF eu, st, br
  <2> DEFINE n == NewApproval(cn, eu, st, h, c, r, br, now)
  <2>4. n \in Approval /\ ~n.issuing /\ ~n.consumed /\ Row(n) \in Approval /\ ~Row(n).issuing
    BY Zenon, <2>1, <2>2, <2>3, NewFacts
  <2>5. a = n
    BY Zenon DEF eu, st, br
  <2> QED
    BY Zenon, <2>4, <2>5, RegistryAssumption
<1> HIDE DEF a
<1>3. \A i \in Ids : kept[i] \in {items[i], NoApproval} /\ kept[i] \in Entry
  BY Zenon, PurgeFacts DEF Inv, TypeOK, Entry
<1>4. \A i \in Ids : rows[i] \in {db[i], NoApproval} /\ rows[i] \in Entry
  BY Zenon, PurgeFacts DEF Inv, TypeOK, Entry, BestEffort
<1>5. kept \in [Ids -> Entry] /\ rows \in [Ids -> Entry]
  <2>1. kept \in [Ids -> Entry]
    BY Zenon, <1>3
  <2>2. DOMAIN rows = Ids /\ rows = [i \in Ids |-> rows[i]]
    BY Zenon DEF Inv, TypeOK, BestEffort
  <2> QED
    BY Zenon, <2>1, <2>2, <1>4
<1>6. /\ items' = IF fails THEN kept ELSE [kept EXCEPT ![id] = a]
      /\ db' = IF StateDB /\ ok THEN [rows EXCEPT ![id] = Row(a)] ELSE rows
      /\ origin' = IF fails THEN origin ELSE [origin EXCEPT ![id] = a]
  BY Zenon, <1>1 DEF a
<1> HIDE DEF kept, rows, fails
<1>7. TypeOK'
  BY Zenon, <1>2, <1>5, <1>6 DEF Inv, TypeOK, Entry, outcomeVars
<1>8. \A i \in Ids : origin[i] # NoApproval => origin'[i] # NoApproval
  BY Zenon, <1>2, <1>6 DEF Inv, TypeOK
<1>9. \A i \in Ids : i # id => items'[i] \in {items[i], NoApproval} /\ db'[i] \in {db[i], NoApproval}
  BY Zenon, <1>3, <1>4, <1>5, <1>6
<1>10. items[id] = NoApproval /\ db[id] = NoApproval
  BY Zenon DEF Inv, Known
<1>11. /\ items'[id] = NoApproval \/ (items'[id] = a /\ origin'[id] = a)
       /\ db'[id] = NoApproval \/ (db'[id] = Row(a) /\ origin'[id] = a)
  <2>1. kept[id] = NoApproval /\ rows[id] = NoApproval
    BY Zenon, <1>3, <1>4, <1>10
  <2> QED
    BY Zenon, <2>1, <1>5, <1>6 DEF Inv, TypeOK, fails
<1> QED
  <2>1. \A i \in Ids : \/ items'[i] = NoApproval
                       \/ items[i] # NoApproval /\ items'[i] = items[i]
                       \/ /\ origin[i] = NoApproval /\ origin'[i] # NoApproval
                          /\ ~items'[i].issuing /\ ~items'[i].consumed
    BY Zenon, <1>2, <1>9, <1>11
  <2>2. \A i \in Ids : db'[i] # NoApproval =>
           ~db'[i].issuing /\ (db[i] # NoApproval \/ origin'[i] # NoApproval)
    BY Zenon, <1>2, <1>9, <1>11 DEF Inv, RowsIdle
  <2> QED
    BY Zenon, <1>7, <1>8, <2>1, <2>2, QuietStep DEF outcomeVars

(* handleSign leaves the registry alone.                                   *)
LEMMA SignStep ==
    ASSUME Inv, NEW s \in Signers, NEW cn \in CNs, NEW u \in EndUsers \cup {""},
           NEW h \in Hosts, NEW c \in Cmds, handleSign(s, cn, u, h, c)
    PROVE  Inv'
<1>1. UNCHANGED <<items, db, origin, now, poll, gating, allowed, restarts, outcomeVars>>
  BY Zenon DEF handleSign
<1>2. \/ signing' = signing
      \/ \E r \in Rules : signing' = [signing EXCEPT ![s] =
            [caller |-> cn, endUser |-> u, host |-> h, cmd |-> c, rule |-> r]]
  BY Zenon DEF handleSign, Rules
<1>3. signing' \in [Signers -> SignRequest \cup {NoRequest}]
  <2>1. signing \in [Signers -> SignRequest \cup {NoRequest}]
    BY Zenon DEF Inv, TypeOK
  <2>2. ASSUME NEW r \in Rules
        PROVE  [caller |-> cn, endUser |-> u, host |-> h, cmd |-> c, rule |-> r] \in SignRequest
    BY Zenon DEF SignRequest
  <2> QED
    BY Zenon, <1>2, <2>1, <2>2
<1>4. TypeOK'
  BY Zenon, <1>1, <1>3 DEF Inv, TypeOK, outcomeVars
<1> QED
  BY Zenon, <1>1, <1>4, QuietStep DEF outcomeVars, Inv, RowsIdle, Known, TypeOK

(* A request in flight is well formed.                                     *)
LEMMA RequestTyped ==
    ASSUME TypeOK, NEW s \in Signers, signing[s] # NoRequest
    PROVE  /\ signing[s].caller \in CNs /\ signing[s].endUser \in EndUsers \cup {""}
           /\ signing[s].host \in Hosts /\ signing[s].cmd \in Cmds /\ signing[s].rule \in Rules
<1>1. signing[s] \in SignRequest
  BY Zenon DEF TypeOK
<1> QED
  BY Zenon, <1>1 DEF SignRequest

(* SignAnswer: either the registry is left alone or requireApproval ran    *)
(* for an id that was never used.                                          *)
LEMMA AnswerCases ==
    ASSUME TypeOK, NEW s \in Signers, SignAnswer(s)
    PROVE  /\ UNCHANGED <<now, poll, gating, allowed, restarts, outcomeVars>>
           /\ \/ UNCHANGED <<items, db, origin>>
              \/ \E id \in Ids, cn \in CNs, u \in EndUsers \cup {""}, h \in Hosts, c \in Cmds,
                    r \in Rules : origin[id] = NoApproval /\ requireApproval(id, cn, u, h, c, r)
<1>1. UNCHANGED <<now, poll, gating, allowed, restarts, outcomeVars>> /\ signing[s] # NoRequest
  BY Zenon DEF SignAnswer
<1> DEFINE q == signing[s]
<1>2. \/ UNCHANGED <<items, db, origin>>
      \/ \E id \in Ids : /\ origin[id] = NoApproval
                         /\ requireApproval(id, q.caller, q.endUser, q.host, q.cmd, q.rule)
  BY Zenon DEF SignAnswer
<1>3. /\ q.caller \in CNs /\ q.endUser \in EndUsers \cup {""}
      /\ q.host \in Hosts /\ q.cmd \in Cmds /\ q.rule \in Rules
  BY Zenon, <1>1, RequestTyped
<1> QED
  BY Zenon, <1>1, <1>2, <1>3

LEMMA AnswerStep ==
    ASSUME Inv, NEW s \in Signers, SignAnswer(s)
    PROVE  Inv'
<1>1. /\ UNCHANGED <<now, poll, gating, allowed, restarts, outcomeVars>>
      /\ \/ UNCHANGED <<items, db, origin>>
         \/ \E id \in Ids, cn \in CNs, u \in EndUsers \cup {""}, h \in Hosts, c \in Cmds,
               r \in Rules : origin[id] = NoApproval /\ requireApproval(id, cn, u, h, c, r)
  BY Zenon, AnswerCases DEF Inv
<1>2. signing' \in [Signers -> SignRequest \cup {NoRequest}]
  <2>1. signing' = [signing EXCEPT ![s] = NoRequest]
    BY Zenon DEF SignAnswer
  <2> QED
    BY Zenon, <2>1 DEF Inv, TypeOK
<1>3. CASE UNCHANGED <<items, db, origin>>
  <2>1. TypeOK'
    BY Zenon, <1>1, <1>2, <1>3 DEF Inv, TypeOK, outcomeVars
  <2> QED
    BY Zenon, <1>1, <1>3, <2>1, QuietStep DEF outcomeVars, Inv, RowsIdle, Known, TypeOK
<1>4. ASSUME NEW id \in Ids, NEW cn \in CNs, NEW u \in EndUsers \cup {""}, NEW h \in Hosts,
             NEW c \in Cmds, NEW r \in Rules, origin[id] = NoApproval,
             requireApproval(id, cn, u, h, c, r)
      PROVE  Inv'
  BY Zenon, <1>1, <1>2, <1>4, RequireStep
<1> QED
  BY Zenon, <1>1, <1>3, <1>4

(* PollGet takes a snapshot and no claim.                                  *)
LEMMA GetStep ==
    ASSUME Inv, NEW p \in Pollers, NEW cn \in CNs, NEW id \in Ids, PollGet(p, cn, id)
    PROVE  Inv'
<1> DEFINE a == expireLocked(items[id], now)
<1>1. a \in Entry /\ a # NoApproval /\ items[id] # NoApproval
  BY Zenon, ExpireFacts DEF PollGet, Inv, TypeOK, Entry
<1>2. /\ a.issuing = items[id].issuing /\ a.consumed = items[id].consumed
      /\ items[id].issuing /\ items[id].status = "approved" => a = items[id]
  BY Zenon, <1>1, ExpireFacts DEF Inv, TypeOK, Entry
<1>3. /\ items' = [items EXCEPT ![id] = a] /\ poll[p].pc = "idle"
      /\ UNCHANGED <<db, tracker, now, signing, gating, origin, allowed, restarts,
                     outcomeVars>>
      /\ \/ poll' = poll
         \/ poll' = [poll EXCEPT ![p] =
                       [pc |-> IF a.status = "approved" THEN "claim" ELSE "report",
                        id |-> id, by |-> a.decidedBy, ok |-> FALSE]]
  BY DEF PollGet
<1> HIDE DEF a
<1>4. a \in Approval /\ a.decidedBy \in CNs \cup {NoCN}
  BY Zenon, <1>1 DEF Entry, Approval
<1>5. TypeOK'
  <2> DEFINE n == [pc |-> IF a.status = "approved" THEN "claim" ELSE "report",
                   id |-> id, by |-> a.decidedBy, ok |-> FALSE]
  <2>1. n \in Poll
    BY <1>4 DEF Poll, PollStates
  <2>2. poll' = poll \/ poll' = [poll EXCEPT ![p] = n]
    BY <1>3
  <2> HIDE DEF n
  <2>3. poll' \in [Pollers -> Poll]
    BY Zenon, <2>1, <2>2 DEF Inv, TypeOK
  <2> QED
    BY <1>3, <1>4, <2>3 DEF Inv, TypeOK, outcomeVars
<1>6. origin[id] # NoApproval
  BY <1>1 DEF Inv, Known
<1>7. \A q \in Pollers :
         \/ poll'[q] = poll[q]
         \/ /\ ~Claimed(poll[q]) /\ ~Claimed(poll'[q])
            /\ poll'[q].id \in Ids /\ origin'[poll'[q].id] # NoApproval
  <2>1. poll \in [Pollers -> Poll] /\ origin' = origin /\ ~Claimed(poll[p])
    BY <1>3 DEF Claimed, Inv, TypeOK
  <2>2. CASE poll' = poll
    BY <2>2
  <2>3. CASE poll' # poll
    <3>1. /\ \A q \in Pollers : q # p => poll'[q] = poll[q]
          /\ poll'[p].pc \in {"claim", "report"} /\ poll'[p].id = id
      BY <1>3, <2>1, <2>3
    <3> QED
      BY <1>6, <2>1, <3>1 DEF Claimed
  <2> QED
    BY Zenon, <2>2, <2>3
<1>8. \A i \in Ids : items'[i] = items[i] \/ (i = id /\ items'[i] = a)
  BY Zenon, <1>3 DEF Inv, TypeOK
<1> QED
  BY Zenon, <1>1, <1>2, <1>3, <1>5, <1>7, <1>8, QuietStep DEF outcomeVars, Inv, RowsIdle

(* PollReport marks the entry and ends the poll.                           *)
LEMMA ReportStep ==
    ASSUME Inv, NEW p \in Pollers, PollReport(p)
    PROVE  Inv'
<1> DEFINE id == poll[p].id
           a == expireLocked(items[id], now)
           m == ReportResultOnce(a)
<1>1. id \in Ids /\ poll[p].pc = "report"
  BY Zenon DEF PollReport, Inv, Known
<1>2. /\ items' = [items EXCEPT ![id] = m]
      /\ poll' = [poll EXCEPT ![p] = IdlePoll]
      /\ told' = told \cup {id}
      /\ \/ reports' = reports
         \/ reports' = [reports EXCEPT ![id] = @ + 1]
      /\ UNCHANGED <<db, tracker, now, signing, gating, origin, issued, delivered,
                     allowed, granted, restarts>>
  BY DEF PollReport
<1>3. items[id] \in Entry /\ now \in Nat
  BY <1>1 DEF Inv, TypeOK, Entry
<1>4. a \in Entry /\ (a = NoApproval <=> items[id] = NoApproval)
  BY Zenon, <1>3, ExpireFacts
<1>5. /\ m \in Entry
      /\ (m = NoApproval) <=> (items[id] = NoApproval)
      /\ m # NoApproval => /\ m.issuing = items[id].issuing /\ m.consumed = items[id].consumed
                           /\ items[id].issuing /\ items[id].status = "approved" => m = items[id]
  <2>1. m \in Entry /\ ((m = NoApproval) <=> (a = NoApproval))
    BY Zenon, <1>4, ConsumeFacts
  <2>2. a # NoApproval => /\ m.issuing = a.issuing /\ m.consumed = a.consumed
                          /\ a.status = "approved" => m = a
    BY Zenon, <1>4, ConsumeFacts
  <2>3. a # NoApproval => /\ a.issuing = items[id].issuing /\ a.consumed = items[id].consumed
                          /\ items[id].issuing /\ items[id].status = "approved" => a = items[id]
    BY <1>3, <1>4, ExpireFacts
  <2> HIDE DEF a, m
  <2> QED
    BY <1>4, <2>1, <2>2, <2>3
<1> HIDE DEF a, m
<1>6. TypeOK'
  <2>1. items' \in [Ids -> Entry]
    BY Zenon, <1>1, <1>2, <1>5 DEF Inv, TypeOK, Entry
  <2>2. poll' \in [Pollers -> Poll]
    BY Zenon, <1>2 DEF Inv, TypeOK, Poll, IdlePoll, PollStates
  <2>3. reports' \in [Ids -> Nat] /\ told' \subseteq Ids
    BY <1>1, <1>2 DEF Inv, TypeOK
  <2> QED
    BY Zenon, <1>2, <2>1, <2>2, <2>3 DEF Inv, TypeOK, Entry
<1>7. \A q \in Pollers :
         \/ poll'[q] = poll[q]
         \/ ~Claimed(poll[q]) /\ ~Claimed(poll'[q]) /\ poll'[q].pc = "idle"
  <2>1. poll \in [Pollers -> Poll] /\ IdlePoll.pc = "idle"
    BY DEF Inv, TypeOK, IdlePoll
  <2>2. \A q \in Pollers : poll'[q] = poll[q] \/ (q = p /\ poll'[q] = IdlePoll)
    BY <1>2, <2>1
  <2> QED
    BY <1>1, <2>1, <2>2 DEF Claimed
<1>8. \A i \in Ids : items'[i] = items[i] \/ (i = id /\ items'[i] = m)
  BY Zenon, <1>1, <1>2 DEF Inv, TypeOK
<1> QED
  BY Zenon, <1>2, <1>5, <1>6, <1>7, <1>8, QuietStep DEF Inv, RowsIdle

(* handleApprovalDecide: a decision touches no claim.                      *)
LEMMA DecideStep ==
    ASSUME Inv, NEW cn \in Approvers, NEW id \in Ids, NEW approve \in BOOLEAN,
           NEW learn \in BOOLEAN, handleApprovalDecide(cn, id, approve, learn)
    PROVE  Inv'
<1> DEFINE a == expireLocked(items[id], now)
           d == Decided(a, approve, cn, learn, now)
           row == [db EXCEPT ![id].status = d.status, ![id].learn = d.learn,
                             ![id].decidedBy = d.decidedBy, ![id].decidedAt = d.decidedAt]
<1>0. cn \in CNs /\ now \in Nat /\ items[id] \in Entry /\ db[id] \in Entry
  BY ControlPlaneAssumption DEF Inv, TypeOK, Entry
<1>1. a \in Approval /\ a # NoApproval /\ items[id] # NoApproval
  BY Zenon, <1>0, ExpireFacts DEF handleApprovalDecide, Entry
<1>2. /\ a.issuing = items[id].issuing /\ a.consumed = items[id].consumed
      /\ items[id].issuing /\ items[id].status = "approved" => a = items[id]
  BY Zenon, <1>0, <1>1, ExpireFacts
<1>3. d \in Approval /\ d.issuing = a.issuing /\ d.consumed = a.consumed
  <2> HIDE DEF a
  <2> QED
    BY <1>0, <1>1, DecidedFacts
<1>4. /\ UNCHANGED <<tracker, now, signing, poll, origin, allowed, restarts, outcomeVars>>
      /\ \/ items' = [items EXCEPT ![id] = a] /\ UNCHANGED <<db, gating>>
         \/ /\ a.status = "pending"
            /\ items' = [items EXCEPT ![id] = d]
            /\ db' = db \/ (db[id] # NoApproval /\ db' = row)
            /\ gating' = gating \/ gating' = [gating EXCEPT ![cn] = id]
  BY Zenon DEF handleApprovalDecide, BestEffort, MayDecide
<1>5. d.status \in Statuses /\ d.learn \in BOOLEAN /\ d.decidedBy \in CNs \cup {NoCN}
      /\ d.decidedAt \in Nat \cup {NoTime}
  BY Zenon, <1>3 DEF Approval
<1> HIDE DEF a, d
<1>6. db[id] # NoApproval => row \in [Ids -> Entry] /\ row[id].issuing = db[id].issuing
                             /\ row[id] # NoApproval
                             /\ \A i \in Ids : i # id => row[i] = db[i]
  <2> SUFFICES ASSUME db[id] # NoApproval
               PROVE  row \in [Ids -> Entry] /\ row[id].issuing = db[id].issuing
                      /\ row[id] # NoApproval
                      /\ \A i \in Ids : i # id => row[i] = db[i]
    OBVIOUS
  <2> DEFINE x == [db[id] EXCEPT !.status = d.status, !.learn = d.learn,
                                 !.decidedBy = d.decidedBy, !.decidedAt = d.decidedAt]
  <2>1. db[id] \in Approval
    BY <1>0 DEF Entry
  <2>2. x \in Approval /\ x.issuing = db[id].issuing
    BY Zenon, <2>1, <1>5 DEF Approval
  <2>3. row = [db EXCEPT ![id] = x]
    BY Zenon DEF Inv, TypeOK
  <2> HIDE DEF x, row
  <2> QED
    BY Zenon, <2>2, <2>3, RegistryAssumption DEF Inv, TypeOK, Entry
<1> HIDE DEF row
<1>7. db' \in [Ids -> Entry] /\ items' \in [Ids -> Entry]
  BY <1>1, <1>3, <1>4, <1>6 DEF Inv, TypeOK, Entry
<1>8. TypeOK'
  BY <1>4, <1>7 DEF Inv, TypeOK, Entry, outcomeVars
<1>9. \A i \in Ids : items'[i] = items[i] \/ (i = id /\ items'[i] = a)
                     \/ (i = id /\ items'[i] = d /\ a.status = "pending")
  BY Zenon, <1>4 DEF Inv, TypeOK
<1>10. \A i \in Ids : \/ items'[i] = NoApproval
                      \/ /\ items[i] # NoApproval /\ items'[i] # NoApproval
                         /\ items'[i].issuing = items[i].issuing
                         /\ items'[i].consumed = items[i].consumed
                         /\ items[i].issuing /\ items[i].status = "approved"
                               => items'[i].status = "approved"
  BY <1>1, <1>2, <1>3, <1>9
<1>11. \A i \in Ids : db'[i] # NoApproval => ~db'[i].issuing /\ db[i] # NoApproval
  BY ZenonT(30), <1>4, <1>6 DEF Inv, RowsIdle
<1> QED
  BY Zenon, <1>4, <1>8, <1>10, <1>11, QuietStep DEF outcomeVars

(* DecideGate, List and Tick.                                              *)
LEMMA GateStep ==
    ASSUME Inv, NEW cn \in Approvers, DecideGate(cn)
    PROVE  Inv'
<1>1. TypeOK'
  BY Zenon DEF DecideGate, Inv, TypeOK, outcomeVars
<1> QED
  BY <1>1, QuietStep DEF DecideGate, outcomeVars, Inv, RowsIdle

LEMMA TickStep ==
    ASSUME Inv, Tick
    PROVE  Inv'
<1>1. TypeOK'
  BY SMTT(20) DEF Tick, Inv, TypeOK, registryVars, outcomeVars
<1> QED
  BY <1>1, QuietStep DEF Tick, registryVars, outcomeVars, Inv, RowsIdle

LEMMA ListStep ==
    ASSUME Inv, List
    PROVE  Inv'
<1>0. now \in Nat /\ items \in [Ids -> Entry] /\ db \in [Ids -> Entry]
  BY Zenon DEF Inv, TypeOK, Entry
<1>1. \A i \in Ids : /\ items'[i] \in Entry
                     /\ \/ items'[i] = NoApproval
                        \/ /\ items[i] # NoApproval
                           /\ items'[i].issuing = items[i].issuing
                           /\ items'[i].consumed = items[i].consumed
                           /\ items[i].issuing /\ items[i].status = "approved"
                                 => items'[i].status = "approved"
  <2> SUFFICES ASSUME NEW i \in Ids
               PROVE  /\ items'[i] \in Entry
                      /\ \/ items'[i] = NoApproval
                         \/ /\ items[i] # NoApproval
                            /\ items'[i].issuing = items[i].issuing
                            /\ items'[i].consumed = items[i].consumed
                            /\ items[i].issuing /\ items[i].status = "approved"
                                  => items'[i].status = "approved"
    BY ZenonT(30)
  <2> DEFINE k == PurgedEntry(items[i], now)
  <2>1. items'[i] = expireLocked(k, now)
    BY DEF List
  <2>2. k \in {items[i], NoApproval} /\ k \in Entry
    BY <1>0, PurgeFacts DEF Entry
  <2> HIDE DEF k
  <2> QED
    BY <1>0, <2>1, <2>2, ExpireFacts
<1>2. \A i \in Ids : db'[i] \in {db[i], NoApproval}
  BY <1>0, PurgeFacts DEF List, BestEffort
<1>3. items' \in [Ids -> Entry] /\ db' \in [Ids -> Entry]
  <2>1. items' = [i \in Ids |-> items'[i]] /\ db' = [i \in Ids |-> db'[i]]
    BY <1>0 DEF List, BestEffort
  <2>2. NoApproval \in Entry
    BY Zenon DEF Entry
  <2> QED
    BY <1>0, <1>1, <1>2, <2>1, <2>2
<1>4. TypeOK'
  BY <1>3 DEF List, Inv, TypeOK, Entry, outcomeVars
<1> QED
  BY <1>1, <1>2, <1>4, QuietStep DEF List, outcomeVars, Inv, RowsIdle
-----------------------------------------------------------------------------
(* BeginConsume: an entry that can be started is not claimed, so no other  *)
(* poll holds it, and not burned, so its credential is still to give.      *)
LEMMA ClaimStep ==
    ASSUME Inv, NEW p \in Pollers, PollClaim(p)
    PROVE  Inv'
<1> DEFINE id == poll[p].id
           a == expireLocked(items[id], now)
           b == BeginConsume(a)
<1>0. /\ id \in Ids /\ poll[p].pc = "claim" /\ origin[id] # NoApproval
      /\ items[id] \in Entry /\ now \in Nat
      /\ poll \in [Pollers -> Poll] /\ poll[p] \in Poll
  BY DEF PollClaim, Inv, Known, TypeOK, Entry
<1>1. /\ items' = [items EXCEPT ![id] = b]
      /\ UNCHANGED <<db, tracker, now, signing, gating, origin, issued, delivered,
                     reports, allowed, granted, restarts>>
      /\ told' = told \/ told' = told \cup {id}
      /\ Startable(a) => poll' = [poll EXCEPT ![p] = [@ EXCEPT !.pc = "forward"]]
      /\ ~Startable(a) => poll' = [poll EXCEPT ![p] = IdlePoll]
  BY Zenon DEF PollClaim
<1>2. /\ a \in Entry /\ (a = NoApproval <=> items[id] = NoApproval)
      /\ a # NoApproval => /\ a.issuing = items[id].issuing /\ a.consumed = items[id].consumed
                           /\ items[id].issuing /\ items[id].status = "approved" => a = items[id]
  BY <1>0, ExpireFacts
<1>3. /\ b \in Entry /\ (b = NoApproval <=> a = NoApproval)
      /\ Startable(a) => b.issuing /\ b.status = "approved" /\ ~b.consumed
      /\ ~Startable(a) => b = a
  BY Zenon, <1>2, ConsumeFacts
<1>4. Startable(a) => a # NoApproval /\ ~a.consumed /\ ~a.issuing
  BY Zenon DEF Startable
<1> HIDE DEF b, a
<1>5. IdlePoll \in Poll /\ IdlePoll.pc = "idle"
  BY DEF IdlePoll, Poll, PollStates
<1>6. /\ [poll[p] EXCEPT !.pc = "forward"] \in Poll
      /\ [poll[p] EXCEPT !.pc = "forward"].pc = "forward"
      /\ [poll[p] EXCEPT !.pc = "forward"].id = id
  BY <1>0 DEF Poll, PollStates
<1>7. TypeOK'
  BY <1>0, <1>1, <1>3, <1>5, <1>6 DEF Inv, TypeOK, Entry
<1>8. \A i \in Ids : items'[i] = items[i] \/ (i = id /\ items'[i] = b)
  BY Zenon, <1>0, <1>1 DEF Inv, TypeOK
<1>9. CASE ~Startable(a)
  <2>1. \A q \in Pollers : poll'[q] = poll[q] \/ (q = p /\ poll'[q] = IdlePoll)
    BY <1>0, <1>1, <1>9
  <2>2. \A q \in Pollers :
           \/ poll'[q] = poll[q]
           \/ ~Claimed(poll[q]) /\ ~Claimed(poll'[q]) /\ poll'[q].pc = "idle"
    BY <1>0, <1>5, <2>1 DEF Claimed
  <2> QED
    BY <1>1, <1>2, <1>3, <1>7, <1>8, <1>9, <2>2, QuietStep DEF Inv, RowsIdle
<1>10. CASE Startable(a)
  <2>1. items[id] # NoApproval /\ ~items[id].issuing /\ ~items[id].consumed
    BY Zenon, <1>2, <1>4, <1>10
  <2>2. \A q \in Pollers : ~Holds(q, id)
    BY <2>1, <1>0 DEF Inv, ClaimExclusive
  <2>3. /\ \A q \in Pollers : q # p => poll'[q] = poll[q]
        /\ poll'[p].pc = "forward" /\ poll'[p].id = id
    BY Zenon, <1>0, <1>1, <1>6, <1>10
  <2>4. items'[id] = b /\ \A i \in Ids : i # id => items'[i] = items[i]
    BY Zenon, <1>0, <1>1 DEF Inv, TypeOK
  <2>5. Known'
    <3>1. (\A q \in Pollers : poll[q].pc # "idle" =>
               poll[q].id \in Ids /\ origin[poll[q].id] # NoApproval)'
      BY <1>0, <1>1, <2>3 DEF Inv, Known
    <3>2. (\A i \in Ids : items[i] # NoApproval \/ db[i] # NoApproval \/ delivered[i] > 0 =>
               origin[i] # NoApproval)'
      BY <1>0, <1>1, <2>4 DEF Inv, Known
    <3> QED
      BY <3>1, <3>2 DEF Known
  <2>6. RowsIdle'
    BY Zenon, <1>1 DEF Inv, RowsIdle
  <2>7. /\ \A q \in Pollers, i \in Ids : q # p => (Holds(q, i)' <=> Holds(q, i))
        /\ \A i \in Ids : Holds(p, i)' <=> i = id
        /\ \A i \in Ids : ~Holds(p, i)
    BY Zenon, <1>0, <2>3 DEF Holds
  <2>8. ClaimExclusive'
    <3> SUFFICES ASSUME NEW q \in Pollers, NEW i \in Ids, Holds(q, i)'
                 PROVE  /\ \A r \in Pollers : Holds(r, i)' => r = q
                        /\ items'[i] # NoApproval =>
                              /\ items'[i].issuing /\ items'[i].status = "approved"
                              /\ ~items'[i].consumed
      BY DEF ClaimExclusive
    <3>1. CASE i = id
      <4>1. \A r \in Pollers : Holds(r, i)' => r = p
        BY Zenon, <2>2, <2>7, <3>1
      <4>2. items'[i].issuing /\ items'[i].status = "approved" /\ ~items'[i].consumed
        BY Zenon, <1>3, <1>10, <2>4, <3>1
      <4> QED
        BY <4>1, <4>2
    <3>2. CASE i # id
      <4>1. \A r \in Pollers : Holds(r, i)' => r # p /\ Holds(r, i)
        BY <2>7, <3>2
      <4>2. items'[i] = items[i]
        BY Zenon, <2>4, <3>2
      <4> QED
        BY <4>1, <4>2 DEF Inv, ClaimExclusive
    <3> QED
      BY Zenon, <3>1, <3>2
  <2>9. NoOrphanClaim'
    <3> SUFFICES ASSUME NEW i \in Ids, items'[i] # NoApproval, items'[i].issuing
                 PROVE  \E q \in Pollers : Holds(q, i)'
      BY DEF NoOrphanClaim
    <3>1. CASE i = id
      BY Zenon, <2>7, <3>1
    <3>2. CASE i # id
      <4>1. PICK q \in Pollers : Holds(q, i)
        BY Zenon, <2>4, <3>2 DEF Inv, NoOrphanClaim
      <4> QED
        BY Zenon, <2>7, <4>1
    <3> QED
      BY <3>1, <3>2
  <2>10. delivered[id] # 1
    BY <1>0, <2>1, <2>2 DEF Inv, Spent
  <2>11. Spent'
    BY <1>1, <2>3, <2>4, <2>7, <2>10 DEF Inv, Spent
  <2>12. OneCredential'
    BY <1>1 DEF Inv, OneCredential
  <2> QED
    BY Zenon, <1>7, <2>5, <2>6, <2>8, <2>9, <2>11, <2>12 DEF Inv
<1> QED
  BY <1>9, <1>10

(* The call to the signer moves one poll between claimed states.           *)
LEMMA ForwardStep ==
    ASSUME Inv, NEW p \in Pollers, PollForward(p)
    PROVE  Inv'
<1> DEFINE id == poll[p].id
<1>0. /\ id \in Ids /\ poll[p].pc = "forward" /\ origin[id] # NoApproval
      /\ poll \in [Pollers -> Poll] /\ poll[p] \in Poll
  BY DEF PollForward, Inv, Known, TypeOK
<1>1. /\ UNCHANGED <<registryVars, now, delivered, told, reports, granted, restarts>>
      /\ issued' = issued \/ issued' = [issued EXCEPT ![id] = @ + 1]
      /\ \E s \in {"finish", "gate"} : poll' = [poll EXCEPT ![p].pc = s]
  BY DEF PollForward
<1>2. PICK s \in {"finish", "gate"} : poll' = [poll EXCEPT ![p].pc = s]
  BY Zenon, <1>1
<1>3. [poll[p] EXCEPT !.pc = s] \in Poll /\ [poll[p] EXCEPT !.pc = s].pc = s
      /\ [poll[p] EXCEPT !.pc = s].id = id
  BY <1>0 DEF Poll, PollStates
<1>4. poll' = [poll EXCEPT ![p] = [poll[p] EXCEPT !.pc = s]]
  BY <1>0, <1>2
<1>5. /\ \A q \in Pollers : q # p => poll'[q] = poll[q]
      /\ poll'[p].pc = s /\ poll'[p].id = id
      /\ poll' \in [Pollers -> Poll]
  BY <1>0, <1>3, <1>4
<1>6. TypeOK'
  BY <1>0, <1>1, <1>5 DEF Inv, TypeOK, registryVars
<1>7. \A q \in Pollers, i \in Ids : Holds(q, i)' <=> Holds(q, i)
  BY <1>0, <1>2, <1>5 DEF Holds
<1>8. Known'
  BY <1>0, <1>1, <1>5 DEF Inv, Known, registryVars
<1>9. RowsIdle' /\ ClaimExclusive' /\ NoOrphanClaim' /\ OneCredential'
  BY Zenon, <1>1, <1>7
     DEF Inv, RowsIdle, ClaimExclusive, NoOrphanClaim, OneCredential, registryVars
<1>10. delivered[id] # 1
  BY <1>0 DEF Inv, Spent, Holds
<1>11. Spent'
  BY <1>0, <1>1, <1>5, <1>7, <1>10 DEF Inv, Spent, registryVars, Holds
<1> QED
  BY <1>6, <1>8, <1>9, <1>11 DEF Inv

(* The gate hands out a credential.  The holder was not yet at its last    *)
(* step, so this life had not given one out before (Spent), and it is now  *)
(* the poll that will burn the approval.                                   *)
LEMMA GatePollStep ==
    ASSUME Inv, NEW p \in Pollers, PollGate(p)
    PROVE  Inv'
<1> DEFINE id == poll[p].id
           given == [delivered EXCEPT ![id] = @ + 1]
<1>0. /\ id \in Ids /\ poll[p].pc = "gate" /\ origin[id] # NoApproval
      /\ poll \in [Pollers -> Poll] /\ poll[p] \in Poll
      /\ delivered \in [Ids -> Nat] /\ restarts \in Nat
  BY DEF PollGate, Inv, Known, TypeOK
<1>1. /\ UNCHANGED <<items, db, now, signing, gating, origin, issued, told, reports,
                     allowed, restarts>>
      /\ granted' = granted \/ granted' = granted \cup {<<id, poll[p].by>>}
      /\ \/ /\ delivered' = given
            /\ poll' = [poll EXCEPT ![p].pc = "finish", ![p].ok = TRUE]
         \/ /\ delivered' = delivered
            /\ poll' = [poll EXCEPT ![p].pc = "finish"]
  BY DEF PollGate
<1>2. /\ poll' \in [Pollers -> Poll]
      /\ \A q \in Pollers : q # p => poll'[q] = poll[q]
      /\ poll'[p].pc = "finish" /\ poll'[p].id = id
  BY <1>0, <1>1 DEF Poll, PollStates
<1>3. \/ delivered' = given /\ poll'[p].ok
      \/ delivered' = delivered
  BY <1>0, <1>1 DEF Poll
<1>4. /\ given \in [Ids -> Nat] /\ given[id] = delivered[id] + 1
      /\ \A i \in Ids : i # id => given[i] = delivered[i]
  <2>1. delivered[id] + 1 \in Nat
    BY <1>0
  <2>2. given[id] = delivered[id] + 1 /\ \A i \in Ids : i # id => given[i] = delivered[i]
    BY <1>0
  <2> HIDE DEF id
  <2>3. given \in [Ids -> Nat]
    BY <1>0, <2>1
  <2> QED
    BY <2>2, <2>3
<1> HIDE DEF given
<1>5. TypeOK'
  <2>1. <<id, poll[p].by>> \in Ids \X (CNs \cup {NoCN})
    BY <1>0 DEF Poll
  <2>2. (granted \subseteq Ids \X (CNs \cup {NoCN}))'
    BY Zenon, <1>1, <2>1 DEF Inv, TypeOK
  <2> QED
    BY <1>1, <1>2, <1>3, <1>4, <2>2 DEF Inv, TypeOK
<1>6. \A q \in Pollers, i \in Ids : Holds(q, i)' <=> Holds(q, i)
  BY <1>0, <1>2 DEF Holds
<1>7. Known'
  BY <1>0, <1>1, <1>2, <1>3, <1>4 DEF Inv, Known
<1>8. RowsIdle' /\ ClaimExclusive' /\ NoOrphanClaim'
  BY Zenon, <1>1, <1>6 DEF Inv, RowsIdle, ClaimExclusive, NoOrphanClaim
<1>9. Holds(p, id) /\ \A q \in Pollers : Holds(q, id) => q = p
  BY <1>0 DEF Inv, ClaimExclusive, Holds
<1>10. delivered[id] = 0
  <2>1. delivered[id] # 1
    BY Zenon, <1>0, <1>9 DEF Inv, Spent
  <2>2. delivered[id] <= 1
    BY <1>0 DEF Inv, OneCredential
  <2>3. delivered[id] \in Nat
    BY <1>0
  <2> QED
    BY <2>1, <2>2, <2>3
<1>11. OneCredential'
  BY <1>0, <1>1, <1>3, <1>4, <1>10 DEF Inv, OneCredential
<1>12. Spent'
  <2> SUFFICES ASSUME NEW i \in Ids, delivered'[i] = 1
               PROVE  /\ \/ items'[i] = NoApproval
                         \/ items'[i].consumed
                         \/ \E q \in Pollers :
                               Holds(q, i)' /\ poll'[q].pc = "finish" /\ poll'[q].ok
                      /\ \A q \in Pollers : Holds(q, i)' => poll'[q].pc = "finish"
    BY Zenon DEF Spent
  <2>1. CASE i = id
    <3>1. poll'[p].ok
      BY <1>0, <1>1, <1>3, <1>10, <2>1
    <3> QED
      BY <1>2, <1>6, <1>9, <2>1, <3>1
  <2>2. CASE i # id
    <3>1. delivered[i] = 1
      BY <1>1, <1>3, <1>4, <2>2
    <3>2. \A q \in Pollers : Holds(q, i) => q # p
      BY <2>2 DEF Holds
    <3> QED
      BY <1>1, <1>2, <1>6, <3>1, <3>2 DEF Inv, Spent
  <2> QED
    BY Zenon, <2>1, <2>2
<1> QED
  BY <1>5, <1>7, <1>8, <1>11, <1>12 DEF Inv

(* FinishConsume: the only holder lets go, and burns what it handed out.   *)
LEMMA FinishStep ==
    ASSUME Inv, NEW p \in Pollers, PollFinish(p)
    PROVE  Inv'
<1> DEFINE id == poll[p].id
           f == FinishConsume(items[id], poll[p].ok)
<1>0. /\ id \in Ids /\ poll[p].pc = "finish" /\ origin[id] # NoApproval
      /\ poll \in [Pollers -> Poll] /\ poll[p] \in Poll /\ poll[p].ok \in BOOLEAN
      /\ items \in [Ids -> Entry] /\ items[id] \in Entry
      /\ db \in [Ids -> Entry] /\ db[id] \in Entry
  BY Zenon DEF PollFinish, Inv, Known, TypeOK, Entry, Poll
<1>1. /\ items' = [items EXCEPT ![id] = f]
      /\ poll' = [poll EXCEPT ![p] = IdlePoll]
      /\ db' = db \/ (db[id] # NoApproval /\ db' = [db EXCEPT ![id].consumed = TRUE])
      /\ UNCHANGED <<tracker, now, signing, gating, origin, allowed, restarts, outcomeVars>>
  BY DEF PollFinish, BestEffort
<1>2. /\ f \in Entry /\ (f = NoApproval <=> items[id] = NoApproval)
      /\ items[id] # NoApproval =>
            ~f.issuing /\ f.consumed = (items[id].consumed \/ poll[p].ok)
  <2>1. items[id] \in Entry /\ poll[p].ok \in BOOLEAN
    BY <1>0
  <2> HIDE DEF id
  <2> QED
    BY <2>1, ConsumeFacts, ZenonT(30)
<1> HIDE DEF f
<1>3. /\ items'[id] = f /\ \A i \in Ids : i # id => items'[i] = items[i]
      /\ items' \in [Ids -> Entry]
  BY <1>0, <1>1, <1>2
<1>4. /\ poll' \in [Pollers -> Poll] /\ poll'[p] = IdlePoll
      /\ \A q \in Pollers : q # p => poll'[q] = poll[q]
  BY <1>0, <1>1 DEF IdlePoll, Poll, PollStates
<1>5. /\ db' \in [Ids -> Entry]
      /\ \A i \in Ids : (db'[i] = NoApproval) <=> (db[i] = NoApproval)
      /\ \A i \in Ids : db[i] # NoApproval => db'[i].issuing = db[i].issuing
  <2>1. CASE db' = db
    BY <2>1, <1>0
  <2>2. CASE db[id] # NoApproval /\ db' = [db EXCEPT ![id].consumed = TRUE]
    <3>1. db[id] \in Approval
      BY <1>0, <2>2 DEF Entry
    <3>2. /\ [db[id] EXCEPT !.consumed = TRUE] \in Approval
          /\ [db[id] EXCEPT !.consumed = TRUE].issuing = db[id].issuing
      BY Zenon, <3>1 DEF Approval
    <3>3. db' = [db EXCEPT ![id] = [db[id] EXCEPT !.consumed = TRUE]]
      BY <2>2, <1>0
    <3>4. db'[id] = [db[id] EXCEPT !.consumed = TRUE] /\ \A i \in Ids : i # id => db'[i] = db[i]
      BY Zenon, <1>0, <3>3
    <3>5. [db[id] EXCEPT !.consumed = TRUE] # NoApproval
      BY Zenon, <3>2, RegistryAssumption
    <3>6. db' \in [Ids -> Entry]
      BY <1>0, <3>2, <3>3 DEF Entry
    <3> QED
      BY <2>2, <3>2, <3>4, <3>5, <3>6
  <2> QED
    BY <1>1, <2>1, <2>2
<1>6. TypeOK'
  BY Zenon, <1>1, <1>3, <1>4, <1>5 DEF Inv, TypeOK, Entry, outcomeVars
<1>7. /\ Holds(p, id)
      /\ \A i \in Ids : ~Holds(p, i)'
      /\ \A q \in Pollers, i \in Ids : q # p => (Holds(q, i)' <=> Holds(q, i))
      /\ \A q \in Pollers, i \in Ids : i = id => ~Holds(q, i)'
  <2>1. Holds(p, id) /\ \A i \in Ids : ~Holds(p, i)'
    <3>1. Holds(p, id)
      BY Zenon, <1>0 DEF Holds
    <3>2. poll'[p].pc = "idle"
      BY <1>4 DEF IdlePoll
    <3> QED
      BY Zenon, <3>1, <3>2 DEF Holds
  <2>2. \A q \in Pollers, i \in Ids : q # p => (Holds(q, i)' <=> Holds(q, i))
    BY Zenon, <1>4 DEF Holds
  <2>3. \A q \in Pollers : Holds(q, id) => q = p
    BY Zenon, <1>0, <2>1 DEF Inv, ClaimExclusive
  <2> QED
    BY Zenon, <1>0, <2>1, <2>2, <2>3
<1>8. Known'
  BY <1>0, <1>1, <1>2, <1>3, <1>4, <1>5 DEF Inv, Known, IdlePoll, outcomeVars
<1>9. RowsIdle'
  BY Zenon, <1>5 DEF Inv, RowsIdle
<1>10. ClaimExclusive'
  <2> SUFFICES ASSUME NEW q \in Pollers, NEW i \in Ids, Holds(q, i)'
               PROVE  /\ \A r \in Pollers : Holds(r, i)' => r = q
                      /\ items'[i] # NoApproval =>
                            /\ items'[i].issuing /\ items'[i].status = "approved"
                            /\ ~items'[i].consumed
    BY DEF ClaimExclusive
  <2>1. q # p /\ i # id /\ Holds(q, i)
    BY Zenon, <1>7
  <2>2. items'[i] = items[i] /\ \A r \in Pollers : Holds(r, i)' => Holds(r, i)
    BY Zenon, <1>3, <1>7, <2>1
  <2> QED
    BY <2>1, <2>2 DEF Inv, ClaimExclusive
<1>11. NoOrphanClaim'
  <2> SUFFICES ASSUME NEW i \in Ids, items'[i] # NoApproval, items'[i].issuing
               PROVE  \E q \in Pollers : Holds(q, i)'
    BY DEF NoOrphanClaim
  <2>1. i # id
    BY Zenon, <1>2, <1>3
  <2>2. PICK q \in Pollers : Holds(q, i)
    BY <1>3, <2>1 DEF Inv, NoOrphanClaim
  <2>3. q # p
    BY <2>1, <2>2 DEF Holds
  <2> QED
    BY Zenon, <1>7, <2>2, <2>3
<1>12. OneCredential'
  BY Zenon, <1>1 DEF Inv, OneCredential, outcomeVars
<1>13. Spent'
  <2> SUFFICES ASSUME NEW i \in Ids, delivered'[i] = 1
               PROVE  /\ \/ items'[i] = NoApproval
                         \/ items'[i].consumed
                         \/ \E q \in Pollers :
                               Holds(q, i)' /\ poll'[q].pc = "finish" /\ poll'[q].ok
                      /\ \A q \in Pollers : Holds(q, i)' => poll'[q].pc = "finish"
    BY DEF Spent
  <2>0. delivered[i] = 1
    BY <1>1 DEF outcomeVars
  <2>1. CASE i = id
    <3>1. \/ items[id] = NoApproval
          \/ items[id].consumed
          \/ poll[p].ok
      BY Zenon, <1>0, <2>0, <2>1 DEF Inv, Spent, ClaimExclusive, Holds
    <3> QED
      BY Zenon, <1>2, <1>3, <1>7, <2>1, <3>1
  <2>2. CASE i # id
    <3>1. ~Holds(p, i)
      BY <2>2 DEF Holds
    <3>2. items'[i] = items[i]
      BY Zenon, <1>3, <2>2
    <3>3. \A q \in Pollers : /\ Holds(q, i)' <=> Holds(q, i)
                             /\ Holds(q, i) => poll'[q] = poll[q]
      BY Zenon, <1>4, <1>7, <3>1
    <3>4. /\ \/ items[i] = NoApproval
             \/ items[i].consumed
             \/ \E q \in Pollers : Holds(q, i) /\ poll[q].pc = "finish" /\ poll[q].ok
          /\ \A q \in Pollers : Holds(q, i) => poll[q].pc = "finish"
      BY <2>0 DEF Inv, Spent
    <3> QED
      BY Zenon, <3>2, <3>3, <3>4
  <2> QED
    BY Zenon, <2>1, <2>2
<1> QED
  BY Zenon, <1>6, <1>8, <1>9, <1>10, <1>11, <1>12, <1>13 DEF Inv

(* A restart starts a new life with no poll, no claim and no credential    *)
(* handed out.                                                             *)
LEMMA RestartStep ==
    ASSUME Inv, Restart
    PROVE  Inv'
<1>0. /\ now \in Nat /\ items \in [Ids -> Entry] /\ db \in [Ids -> Entry]
      /\ delivered \in [Ids -> Nat] /\ restarts \in Nat
  BY Zenon DEF Inv, TypeOK, Entry
<1>1. \A i \in Ids : /\ items'[i] \in Entry
                     /\ items'[i] # NoApproval => db[i] # NoApproval /\ ~items'[i].issuing
  <2> SUFFICES ASSUME NEW i \in Ids
               PROVE  /\ items'[i] \in Entry
                      /\ items'[i] # NoApproval => db[i] # NoApproval /\ ~items'[i].issuing
    OBVIOUS
  <2> DEFINE k == Loaded(db[i], now)
  <2>1. items'[i] = expireLocked(k, now) \/ items'[i] = NoApproval
    BY DEF Restart
  <2>2. k \in {db[i], NoApproval} /\ k \in Entry
    BY <1>0, PurgeFacts DEF Entry
  <2>3. k # NoApproval => ~k.issuing
    BY Zenon, <2>2 DEF Inv, RowsIdle
  <2> HIDE DEF k
  <2>4. /\ expireLocked(k, now) \in Entry
        /\ (expireLocked(k, now) = NoApproval) <=> (k = NoApproval)
        /\ k # NoApproval => expireLocked(k, now).issuing = k.issuing
    BY <1>0, <2>2, ExpireFacts
  <2> QED
    BY Zenon, <2>1, <2>2, <2>3, <2>4 DEF Entry
<1>2. items' \in [Ids -> Entry]
  BY Zenon, <1>1 DEF Restart
<1>3. \A i \in Ids : db'[i] \in {db[i], NoApproval}
  BY Zenon, <1>0, PurgeFacts DEF Restart, BestEffort
<1>4. db' \in [Ids -> Entry]
  <2>1. \A i \in Ids : PurgedRow(db[i], now) \in Entry
    BY Zenon, <1>0, PurgeFacts DEF Entry
  <2> QED
    BY <1>0, <2>1 DEF Restart, BestEffort
<1>5. poll' \in [Pollers -> Poll] /\ \A q \in Pollers : poll'[q].pc = "idle"
  BY Zenon DEF Restart, IdlePoll, Poll, PollStates
<1>6. TypeOK'
  <2>1. /\ UNCHANGED <<now, origin, issued, allowed, granted>>
        /\ delivered' = [i \in Ids |-> 0] /\ reports' = [i \in Ids |-> 0]
        /\ gating' = [a \in Approvers |-> NoId] /\ told' = {} /\ restarts' = restarts + 1
    BY DEF Restart
  <2>2. /\ now' \in Nat /\ restarts' \in Nat
        /\ delivered' \in [Ids -> Nat] /\ reports' \in [Ids -> Nat]
    BY <1>0, <2>1
  <2>3. gating' \in [Approvers -> Ids \cup {NoId}] /\ told' \in SUBSET Ids
    BY <2>1
  <2>4. /\ items' \in [Ids -> Approval \cup {NoApproval}]
        /\ db' \in [Ids -> Approval \cup {NoApproval}]
    BY <1>2, <1>4 DEF Entry
  <2>5. signing' \in [Signers -> SignRequest \cup {NoRequest}]
    BY DEF Restart
  <2> QED
    BY Zenon, <1>5, <2>1, <2>2, <2>3, <2>4, <2>5 DEF Inv, TypeOK
<1>7. \A q \in Pollers, i \in Ids : ~Holds(q, i)'
  BY <1>5 DEF Holds
<1>8. UNCHANGED origin /\ \A i \in Ids : delivered'[i] = 0
  BY Zenon DEF Restart
<1>9. Known'
  <2>1. \A p \in Pollers : poll'[p].pc # "idle" =>
           poll'[p].id \in Ids /\ origin'[poll'[p].id] # NoApproval
    BY Zenon, <1>5
  <2>2. \A i \in Ids : items'[i] # NoApproval \/ db'[i] # NoApproval \/ delivered'[i] > 0 =>
           origin'[i] # NoApproval
    BY <1>1, <1>3, <1>8 DEF Inv, Known
  <2> QED
    BY Zenon, <2>1, <2>2 DEF Known
<1>10. RowsIdle'
  BY Zenon, <1>3 DEF Inv, RowsIdle
<1>11. ClaimExclusive' /\ NoOrphanClaim'
  BY <1>1, <1>7 DEF ClaimExclusive, NoOrphanClaim
<1>12. OneCredential' /\ \A i \in Ids : delivered'[i] # 1
  BY <1>0, <1>8 DEF Inv, OneCredential
<1>13. Spent'
  BY <1>12 DEF Spent
<1> QED
  BY <1>6, <1>9, <1>10, <1>11, <1>12, <1>13 DEF Inv
-----------------------------------------------------------------------------
LEMMA NextInv == Inv /\ [Next]_vars => Inv'
<1> SUFFICES ASSUME Inv, [Next]_vars PROVE Inv'
  OBVIOUS
<1>1. CASE UNCHANGED vars
  <2>1. TypeOK'
    BY <1>1 DEF vars, Inv, TypeOK
  <2> QED
    BY Zenon, <1>1, <2>1, QuietStep DEF vars, Inv, RowsIdle
<1>2. ASSUME NEW s \in Signers, NEW cn \in CNs, NEW u \in EndUsers \cup {""},
             NEW h \in Hosts, NEW c \in Cmds, handleSign(s, cn, u, h, c)
      PROVE  Inv'
  BY Zenon, <1>2, SignStep
<1>2a. ASSUME NEW s \in Signers, SignAnswer(s)
       PROVE  Inv'
  BY Zenon, <1>2a, AnswerStep
<1>3. ASSUME NEW p \in Pollers, NEW cn \in CNs, NEW id \in Ids, PollGet(p, cn, id)
      PROVE  Inv'
  BY <1>3, GetStep
<1>4. ASSUME NEW p \in Pollers, PollStep(p)
      PROVE  Inv'
  BY Zenon, <1>4, ReportStep, ClaimStep, ForwardStep, GatePollStep, FinishStep DEF PollStep
<1>5. ASSUME NEW cn \in Approvers, NEW id \in Ids, NEW approve \in BOOLEAN,
             NEW learn \in BOOLEAN, handleApprovalDecide(cn, id, approve, learn)
      PROVE  Inv'
  BY <1>5, DecideStep
<1>6. ASSUME NEW cn \in Approvers, DecideGate(cn)
      PROVE  Inv'
  BY <1>6, GateStep
<1>7. CASE List
  BY <1>7, ListStep
<1>8. CASE Tick
  BY <1>8, TickStep
<1>9. CASE Restart
  BY <1>9, RestartStep
<1> QED
  BY Zenon, <1>1, <1>2, <1>2a, <1>3, <1>4, <1>5, <1>6, <1>7, <1>8, <1>9 DEF Next

LEMMA InvHolds == Spec => []Inv
BY InitInv, NextInv, PTL DEF Spec

(* The registry, its rows, the polls and the records of the control plane  *)
(* keep their types through every handler, crash and restart.              *)
THEOREM TypeCorrect == Spec => []TypeOK
<1>1. Inv => TypeOK
  BY DEF Inv
<1> QED
  BY <1>1, InvHolds, PTL

(* A claimed approval has one holder and stays approved and unconsumed,    *)
(* and no claim is left without a holder (BeginConsume, the deferred       *)
(* FinishConsume of handleResult).                                         *)
THEOREM ClaimsHeld == Spec => [](ClaimExclusive /\ NoOrphanClaim)
<1>1. Inv => ClaimExclusive /\ NoOrphanClaim
  BY DEF Inv
<1> QED
  BY <1>1, InvHolds, PTL
-----------------------------------------------------------------------------
Refused == {"denied", "expired"}

(* What a step that keeps entry e in the registry may make of it.  Who     *)
(* asked and when never changes; a refusal is final and so is use; what is *)
(* used or being forwarded does not expire; a decision is new, in time and *)
(* by another; a claim finds an approval that is not overdue, and only a   *)
(* claimed approval is used up.                                            *)
Moved(e, f) ==
    /\ f.caller = e.caller /\ f.stripped = e.stripped /\ f.createdAt = e.createdAt
    /\ e.status \in Refused => f.status = e.status
    /\ e.consumed => f.consumed
    /\ e.resultReported => f.resultReported
    /\ e.status = "approved" /\ (e.consumed \/ e.issuing) => f.status = "approved"
    /\ f.status = "pending" => e.status = "pending"
    /\ f.status = "denied" => e.status \in {"pending", "denied"}
    /\ f.learn => e.learn \/ ~f.stripped
    /\ f.status = "approved" /\ e.status = "approved" =>
          f.decidedBy = e.decidedBy /\ f.decidedAt = e.decidedAt
    /\ f.status = "approved" /\ e.status # "approved" =>
          /\ e.status = "pending" /\ f.decidedBy \in Approvers /\ f.decidedBy # f.caller
          /\ f.decidedAt = now /\ (e.consumed \/ ~Overdue(e, now))
    /\ f.status = "expired" /\ e.status # "expired" => Overdue(e, now) /\ ~f.consumed
    /\ f.consumed /\ ~e.consumed => f.status = "approved" /\ e.issuing
    /\ f.issuing /\ ~e.issuing =>
          e.status = "approved" /\ ~e.consumed /\ ~Overdue(e, now) /\ f.status = "approved"

(* What a step may make of the row d of an entry that goes from e to f.    *)
RowMoved(d, r, e, f) ==
    \/ r = d
    \/ r = NoApproval /\ (d # NoApproval => now - d.createdAt >= 2 * TTL)
    \/ /\ d # NoApproval /\ r # NoApproval /\ e # NoApproval /\ f # NoApproval
       /\ r.caller = d.caller /\ r.stripped = d.stripped /\ r.createdAt = d.createdAt
       /\ \/ /\ r.consumed /\ f.consumed
             /\ r.status = d.status /\ r.learn = d.learn
             /\ r.decidedBy = d.decidedBy /\ r.decidedAt = d.decidedAt
          \/ /\ r.consumed = d.consumed /\ e.status = "pending"
             /\ r.status = f.status /\ r.status \in {"approved", "denied"}
             /\ r.learn = f.learn
             /\ r.decidedBy = f.decidedBy /\ r.decidedAt = f.decidedAt

(* Request i is registered: the entry, its row and the origin agree.       *)
Registered(i) ==
    /\ origin[i] = NoApproval /\ items[i] = NoApproval /\ db[i] = NoApproval
    /\ \/ items'[i] = NoApproval /\ db'[i] = NoApproval /\ origin'[i] = NoApproval
       \/ LET a == items'[i]
          IN /\ a # NoApproval /\ origin'[i] = a
             /\ a.status = "pending" /\ a.createdAt = now
             /\ ~a.learn /\ ~a.consumed /\ ~a.issuing /\ ~a.resultReported
             /\ db'[i] \in {NoApproval, Row(a)}
             /\ db'[i] = NoApproval <=> ~StateDB

Step(i) ==
    \/ Registered(i)
    \/ /\ origin'[i] = origin[i]
       /\ \/ items'[i] = items[i]
          \/ items'[i] = NoApproval /\ now - items[i].createdAt > 2 * TTL
          \/ items'[i] # NoApproval /\ items[i] # NoApproval /\ Moved(items[i], items'[i])
       /\ RowMoved(db[i], db'[i], items[i], items'[i])
-----------------------------------------------------------------------------
(* What expireLocked makes of an entry.                                    *)
LEMMA ExpireMoves ==
    ASSUME NEW e \in Approval, now \in Nat
    PROVE  LET x == expireLocked(e, now)
           IN /\ x \in Approval /\ x # NoApproval
              /\ \/ x = e /\ (e.consumed \/ ~Overdue(e, now))
                 \/ /\ x = [e EXCEPT !.status = "expired"] /\ Overdue(e, now) /\ ~e.consumed
                    /\ e.status \in {"pending", "approved"}
                    /\ e.status = "approved" => ~e.issuing
                    /\ x.status = "expired" /\ x # e
<1> DEFINE x == expireLocked(e, now)
<1>0. e # NoApproval
  BY RegistryAssumption
<1>1. CASE Overdue(e, now) /\ ~e.consumed
  <2>1. x = [e EXCEPT !.status = "expired"]
    BY <1>0, <1>1 DEF expireLocked
  <2>2. /\ [e EXCEPT !.status = "expired"] \in Approval
        /\ [e EXCEPT !.status = "expired"].status = "expired"
    BY Zenon DEF Approval, Statuses
  <2>3. e.status \in {"pending", "approved"} /\ (e.status = "approved" => ~e.issuing)
    BY <1>1 DEF Overdue
  <2> QED
    BY Zenon, <1>1, <2>1, <2>2, <2>3, RegistryAssumption
<1>2. CASE ~(Overdue(e, now) /\ ~e.consumed)
  <2>1. x = e
    BY <1>0, <1>2 DEF expireLocked
  <2> QED
    BY <1>0, <1>2, <2>1
<1> QED
  BY <1>1, <1>2

LEMMA ExpireMoved ==
    ASSUME NEW e \in Approval, now \in Nat
    PROVE  Moved(e, expireLocked(e, now))
<1> DEFINE x == expireLocked(e, now)
<1>1. \/ x = e
      \/ /\ x = [e EXCEPT !.status = "expired"] /\ Overdue(e, now) /\ ~e.consumed
         /\ e.status \in {"pending", "approved"} /\ (e.status = "approved" => ~e.issuing)
  BY ExpireMoves
<1> SUFFICES Moved(e, x)
  BY Zenon
<1> HIDE DEF x
<1>2. CASE x = e
  BY <1>2 DEF Moved
<1>3. CASE x # e
  BY Zenon, <1>1, <1>3 DEF Moved, Approval, Refused
<1> QED
  BY <1>2, <1>3

(* Marking a refusal as reported, after the lazy expiry.                   *)
LEMMA ReportMoved ==
    ASSUME NEW e \in Approval, now \in Nat
    PROVE  Moved(e, ReportResultOnce(expireLocked(e, now)))
<1> DEFINE x == expireLocked(e, now)
           m == ReportResultOnce(x)
<1>1. x \in Approval /\ Moved(e, x)
  BY ExpireMoves, ExpireMoved
<1>2. m = x \/ (m = [x EXCEPT !.resultReported = TRUE] /\ x.status \in Refused)
  BY DEF ReportResultOnce, Reports, Refused
<1> SUFFICES Moved(e, m)
  OBVIOUS
<1> HIDE DEF x, m
<1>3. CASE m = x
  BY <1>1, <1>3
<1>4. CASE m = [x EXCEPT !.resultReported = TRUE] /\ x.status \in Refused
  BY ZenonT(30), <1>1, <1>4 DEF Moved, Approval, Refused
<1> QED
  BY <1>2, <1>3, <1>4

(* The claim, after the lazy expiry.                                       *)
LEMMA ClaimMoved ==
    ASSUME NEW e \in Approval, now \in Nat
    PROVE  Moved(e, BeginConsume(expireLocked(e, now)))
<1> DEFINE x == expireLocked(e, now)
           b == BeginConsume(x)
<1>1. x \in Approval /\ Moved(e, x) /\ (x = e => e.consumed \/ ~Overdue(e, now))
  BY ExpireMoves, ExpireMoved
<1>2. x = e \/ x.status = "expired"
  BY ExpireMoves
<1>3. \/ b = x
      \/ b = [x EXCEPT !.issuing = TRUE] /\ x.status = "approved" /\ ~x.consumed
  BY DEF BeginConsume, Startable
<1> SUFFICES Moved(e, b)
  OBVIOUS
<1> HIDE DEF x, b
<1>4. CASE b = x
  BY <1>1, <1>4
<1>5. CASE b = [x EXCEPT !.issuing = TRUE] /\ x.status = "approved" /\ ~x.consumed
  <2>1. x = e /\ ~Overdue(e, now)
    BY <1>1, <1>2, <1>5
  <2> QED
    BY Zenon, <1>5, <2>1 DEF Moved, Approval, Refused
<1> QED
  BY <1>3, <1>4, <1>5

(* Letting go of a claimed approval.                                       *)
LEMMA FinishMoved ==
    ASSUME NEW e \in Approval, NEW ok \in BOOLEAN, e.status = "approved", e.issuing
    PROVE  Moved(e, FinishConsume(e, ok))
<1>1. FinishConsume(e, ok) = [e EXCEPT !.consumed = @ \/ ok, !.issuing = FALSE]
  BY RegistryAssumption DEF FinishConsume
<1> QED
  BY Zenon, <1>1 DEF Moved, Approval, Refused

(* A decision, after the lazy expiry.                                      *)
LEMMA DecideMoved ==
    ASSUME NEW e \in Approval, now \in Nat, NEW cn \in Approvers,
           NEW approve \in BOOLEAN, NEW learn \in BOOLEAN,
           LET x == expireLocked(e, now)
           IN ~SelfApproval(cn, x) /\ MayDecide(x, approve, learn)
    PROVE  LET f == Decided(expireLocked(e, now), approve, cn, learn, now)
           IN e.status = "pending" /\ f.status \in {"approved", "denied"} /\ Moved(e, f)
<1> DEFINE x == expireLocked(e, now)
           f == Decided(x, approve, cn, learn, now)
<1>1. x.status = "pending" /\ x.caller # cn /\ ~(approve /\ learn /\ x.stripped)
  BY DEF SelfApproval, MayDecide
<1>2. x = e /\ (e.consumed \/ ~Overdue(e, now))
  BY Zenon, <1>1, ExpireMoves
<1> SUFFICES e.status = "pending" /\ f.status \in {"approved", "denied"} /\ Moved(e, f)
  OBVIOUS
<1> HIDE DEF x
<1>3. f = [e EXCEPT !.status = IF approve THEN "approved" ELSE "denied",
                    !.learn = approve /\ learn, !.decidedBy = cn, !.decidedAt = now]
  BY <1>2 DEF Decided
<1> HIDE DEF f
<1>4. /\ f.status = IF approve THEN "approved" ELSE "denied"
      /\ f.learn = (approve /\ learn) /\ f.decidedBy = cn /\ f.decidedAt = now
      /\ f.caller = e.caller /\ f.stripped = e.stripped /\ f.createdAt = e.createdAt
      /\ f.consumed = e.consumed /\ f.issuing = e.issuing
      /\ f.resultReported = e.resultReported
  BY Zenon, <1>3 DEF Approval
<1> QED
  BY Zenon, <1>1, <1>2, <1>4 DEF Moved, Refused
-----------------------------------------------------------------------------
LEMMA StepOfStay ==
    ASSUME NEW i \in Ids,
           items'[i] = items[i] /\ db'[i] = db[i] /\ origin'[i] = origin[i]
    PROVE  Step(i)
BY Zenon DEF Step, RowMoved

(* An entry moves and its row stays.                                       *)
LEMMA StepOfMove ==
    ASSUME NEW i \in Ids, db'[i] = db[i] /\ origin'[i] = origin[i],
           items[i] \in Approval, items'[i] \in Approval, Moved(items[i], items'[i])
    PROVE  Step(i)
BY Zenon, RegistryAssumption DEF Step, RowMoved

(* A purge drops only what is old enough.                                  *)
LEMMA StepOfPurge ==
    ASSUME Inv, NEW i \in Ids, origin'[i] = origin[i],
           items'[i] \in {PurgedEntry(items[i], now),
                          expireLocked(PurgedEntry(items[i], now), now)},
           db'[i] \in {db[i], PurgedRow(db[i], now)}
    PROVE  Step(i)
<1>0. items[i] \in Entry /\ now \in Nat
  BY Zenon DEF Inv, TypeOK, Entry
<1>1. RowMoved(db[i], db'[i], items[i], items'[i])
  BY Zenon DEF RowMoved, PurgedRow
<1>2. CASE PurgedEntry(items[i], now) = NoApproval
  <2>1. items'[i] = NoApproval
    BY Zenon, <1>2 DEF expireLocked
  <2>2. items[i] = NoApproval \/ now - items[i].createdAt > 2 * TTL
    BY Zenon, <1>2 DEF PurgedEntry
  <2> QED
    BY Zenon, <1>1, <2>1, <2>2 DEF Step
<1>3. CASE PurgedEntry(items[i], now) # NoApproval
  <2>1. PurgedEntry(items[i], now) = items[i] /\ items[i] \in Approval
    BY Zenon, <1>0, <1>3 DEF PurgedEntry, Entry
  <2>2. CASE items'[i] = items[i]
    BY ZenonT(30), <1>1, <2>2 DEF Step
  <2>3. CASE items'[i] = expireLocked(items[i], now)
    <3>1. items'[i] # NoApproval /\ items[i] # NoApproval
      BY ZenonT(30), <1>0, <1>3, <2>1, <2>3, ExpireMoves
    <3>2. Moved(items[i], items'[i])
      BY <1>0, <2>1, <2>3, ExpireMoved
    <3> QED
      BY <1>1, <3>1, <3>2 DEF Step
  <2> QED
    BY Zenon, <2>1, <2>2, <2>3
<1> QED
  BY Zenon, <1>2, <1>3

(* insertDB writes what the requester asked and when.                      *)
LEMMA RowFacts ==
    ASSUME NEW a \in Approval
    PROVE  /\ Row(a) \in Approval /\ Row(a) # NoApproval
           /\ Row(a).caller = a.caller /\ Row(a).stripped = a.stripped
           /\ Row(a).createdAt = a.createdAt /\ Row(a).status = a.status
           /\ Row(a).learn = a.learn /\ Row(a).consumed = a.consumed
<1>1. Row(a) \in Approval
  BY Zenon DEF Row, Approval
<1> QED
  BY Zenon, <1>1, RegistryAssumption DEF Row, Approval

LEMMA RequireSteps ==
    ASSUME Inv, NEW id \in Ids, NEW cn \in CNs, NEW u \in EndUsers \cup {""},
           NEW h \in Hosts, NEW c \in Cmds, NEW r \in Rules, origin[id] = NoApproval,
           requireApproval(id, cn, u, h, c, r)
    PROVE  \A i \in Ids : Step(i)
<1> DEFINE a == NewApproval(cn, IF cn \in Forwarders THEN u ELSE "",
                            cn \notin Forwarders /\ u # "", h, c, r, cn \in Gated, now)
           kept == [i \in Ids |-> PurgedEntry(items[i], now)]
           purged == [i \in Ids |-> PurgedRow(db[i], now)]
<1>1. PICK ok, purgeOk \in DbOutcomes :
        LET rows == BestEffort(purged, purgeOk)
            fails == StateDB /\ ~ok
        IN /\ items' = IF fails THEN kept ELSE [kept EXCEPT ![id] = a]
           /\ db' = IF StateDB /\ ok THEN [rows EXCEPT ![id] = Row(a)] ELSE rows
           /\ origin' = IF fails THEN origin ELSE [origin EXCEPT ![id] = a]
  BY Zenon DEF requireApproval
<1> DEFINE rows == BestEffort(purged, purgeOk)
           fails == StateDB /\ ~ok
<1>2. /\ items' = IF fails THEN kept ELSE [kept EXCEPT ![id] = a]
      /\ db' = IF StateDB /\ ok THEN [rows EXCEPT ![id] = Row(a)] ELSE rows
      /\ origin' = IF fails THEN origin ELSE [origin EXCEPT ![id] = a]
  BY Zenon, <1>1
<1>3. /\ a.status = "pending" /\ a.createdAt = now
      /\ ~a.learn /\ ~a.consumed /\ ~a.issuing /\ ~a.resultReported
  BY Zenon DEF NewApproval
<1>4. items[id] = NoApproval /\ db[id] = NoApproval
  BY Zenon DEF Inv, Known
<1>5. /\ DOMAIN rows = Ids /\ rows[id] = NoApproval
      /\ \A i \in Ids : rows[i] \in {db[i], PurgedRow(db[i], now)}
  BY Zenon, <1>4 DEF BestEffort, PurgedRow, Inv, TypeOK
<1>6. kept[id] = NoApproval
  BY Zenon, <1>4 DEF PurgedEntry
<1>7. a # NoApproval /\ a \in Approval /\ Row(a) # NoApproval
  <2>1. a.bearer \in BOOLEAN /\ a.stripped \in BOOLEAN
    <3>1. a.bearer = (cn \in Gated) /\ a.stripped = (cn \notin Forwarders /\ u # "")
      BY Zenon DEF NewApproval
    <3>2. (cn \in Gated) \in BOOLEAN
      BY MemberIsBoolean, Zenon
    <3>3. (cn \notin Forwarders /\ u # "") \in BOOLEAN
      BY Zenon
    <3> QED
      BY <3>1, <3>2, <3>3, Zenon
  <2>2. a \in Approval
    BY Zenon, <2>1, <1>3 DEF Inv, TypeOK, NewApproval, Approval, Statuses
  <2> QED
    BY Zenon, <2>2, RowFacts, RegistryAssumption
<1> HIDE DEF a
<1>8. ASSUME NEW i \in Ids, i # id PROVE Step(i)
  <2>1. items'[i] = PurgedEntry(items[i], now) /\ db'[i] = rows[i] /\ origin'[i] = origin[i]
    BY Zenon, <1>2, <1>5, <1>8 DEF Inv, TypeOK
  <2> QED
    BY Zenon, <1>5, <2>1, StepOfPurge
<1>9. Registered(id)
  <2>1. CASE fails
    BY Zenon, <1>2, <1>4, <1>5, <1>6, <2>1 DEF Registered
  <2>2. CASE ~fails
    <3>1. items'[id] = a /\ origin'[id] = a
      BY Zenon, <1>2, <2>2 DEF Inv, TypeOK
    <3>2. db'[id] = IF StateDB THEN Row(a) ELSE NoApproval
      BY Zenon, <1>2, <1>5, <2>2
    <3> QED
      BY Zenon, <1>3, <1>4, <1>7, <3>1, <3>2 DEF Registered
  <2> QED
    BY Zenon, <2>1, <2>2
<1> QED
  BY Zenon, <1>8, <1>9 DEF Step

LEMMA GetSteps ==
    ASSUME Inv, NEW p \in Pollers, NEW cn \in CNs, NEW id \in Ids, PollGet(p, cn, id)
    PROVE  \A i \in Ids : Step(i)
<1>1. /\ items' = [items EXCEPT ![id] = expireLocked(items[id], now)]
      /\ db' = db /\ origin' = origin /\ expireLocked(items[id], now) # NoApproval
  BY DEF PollGet
<1>2. items[id] \in Approval /\ now \in Nat
  BY <1>1 DEF Inv, TypeOK, expireLocked
<1>3. /\ items'[id] = expireLocked(items[id], now) /\ items'[id] \in Approval
      /\ Moved(items[id], items'[id])
      /\ \A i \in Ids : i # id => items'[i] = items[i]
  BY Zenon, <1>1, <1>2, ExpireMoves, ExpireMoved DEF Inv, TypeOK
<1> QED
  BY Zenon, <1>1, <1>2, <1>3, StepOfStay, StepOfMove

LEMMA ReportSteps ==
    ASSUME Inv, NEW p \in Pollers, PollReport(p)
    PROVE  \A i \in Ids : Step(i)
<1> DEFINE id == poll[p].id
           m == ReportResultOnce(expireLocked(items[id], now))
<1>1. items' = [items EXCEPT ![id] = m] /\ db' = db /\ origin' = origin
  BY Zenon DEF PollReport
<1>2. id \in Ids /\ items[id] \in Entry /\ now \in Nat /\ items \in [Ids -> Entry]
  BY Zenon DEF PollReport, Inv, Known, TypeOK, Entry
<1>3. items'[id] = m /\ \A i \in Ids : i # id => items'[i] = items[i]
  BY ZenonT(30), <1>1, <1>2
<1>4. CASE items[id] = NoApproval
  <2>1. m = NoApproval
    BY Zenon, <1>4 DEF expireLocked, ReportResultOnce, Reports
  <2> QED
    BY <1>1, <1>3, <1>4, <2>1, StepOfStay
<1>5. CASE items[id] \in Approval
  <2>1. Moved(items[id], m)
    BY ZenonT(30), <1>2, <1>5, ReportMoved
  <2>2. m \in Approval
    <3> DEFINE x == expireLocked(items[id], now)
    <3>1. x \in Entry /\ x # NoApproval /\ TRUE \in BOOLEAN
      BY <1>2, <1>5, ExpireMoves DEF Entry
    <3> HIDE DEF x
    <3>2. ReportResultOnce(x) \in Entry /\ ReportResultOnce(x) # NoApproval
      BY Zenon, <3>1, ConsumeFacts
    <3> QED
      BY <3>2 DEF Entry, x
  <2> QED
    BY Zenon, <1>1, <1>3, <1>5, <2>1, <2>2, StepOfStay, StepOfMove
<1> QED
  BY Zenon, <1>2, <1>4, <1>5 DEF Entry

LEMMA ClaimSteps ==
    ASSUME Inv, NEW p \in Pollers, PollClaim(p)
    PROVE  \A i \in Ids : Step(i)
<1> DEFINE id == poll[p].id
           b == BeginConsume(expireLocked(items[id], now))
<1>1. items' = [items EXCEPT ![id] = b] /\ db' = db /\ origin' = origin
  BY DEF PollClaim
<1>2. id \in Ids /\ items[id] \in Entry /\ now \in Nat /\ items \in [Ids -> Entry]
  BY Zenon DEF PollClaim, Inv, Known, TypeOK, Entry
<1>3. items'[id] = b /\ \A i \in Ids : i # id => items'[i] = items[i]
  BY Zenon, <1>1, <1>2
<1>4. CASE items[id] = NoApproval
  <2>1. b = NoApproval
    BY Zenon, <1>4 DEF expireLocked, BeginConsume, Startable
  <2> QED
    BY <1>1, <1>3, <1>4, <2>1, StepOfStay
<1>5. CASE items[id] \in Approval
  <2>1. Moved(items[id], b)
    BY Zenon, <1>2, <1>5, ClaimMoved
  <2>2. b \in Approval
    <3> DEFINE x == expireLocked(items[id], now)
    <3>1. x \in Entry /\ x # NoApproval /\ TRUE \in BOOLEAN
      BY <1>2, <1>5, ExpireMoves DEF Entry
    <3> HIDE DEF x
    <3>2. BeginConsume(x) \in Entry /\ BeginConsume(x) # NoApproval
      BY Zenon, <3>1, ConsumeFacts
    <3> QED
      BY <3>2 DEF Entry, x
  <2> QED
    BY Zenon, <1>1, <1>3, <1>5, <2>1, <2>2, StepOfStay, StepOfMove
<1> QED
  BY <1>2, <1>4, <1>5 DEF Entry

LEMMA FinishSteps ==
    ASSUME Inv, NEW p \in Pollers, PollFinish(p)
    PROVE  \A i \in Ids : Step(i)
<1> DEFINE id == poll[p].id
           f == FinishConsume(items[id], poll[p].ok)
           row == [db EXCEPT ![id].consumed = TRUE]
<1>1. /\ items' = [items EXCEPT ![id] = f] /\ origin' = origin
      /\ \/ db' = db
         \/ poll[p].ok /\ items[id] # NoApproval /\ db[id] # NoApproval /\ db' = row
  BY DEF PollFinish, BestEffort, outcomeVars
<1>2. /\ id \in Ids /\ items[id] \in Entry /\ db[id] \in Entry /\ poll[p].ok \in BOOLEAN
      /\ items \in [Ids -> Entry] /\ db \in [Ids -> Entry]
  BY DEF PollFinish, Inv, Known, TypeOK, Entry, Poll
<1>3. items'[id] = f /\ \A i \in Ids : i # id => items'[i] = items[i] /\ db'[i] = db[i]
  BY <1>1, <1>2
<1>4. CASE items[id] = NoApproval
  <2>1. f = NoApproval
    BY <1>4 DEF FinishConsume
  <2> QED
    BY <1>1, <1>3, <1>4, <2>1, StepOfStay
<1>5. CASE items[id] \in Approval
  <2>0. items[id] # NoApproval /\ Holds(p, id)
    BY Zenon, <1>5, RegistryAssumption DEF PollFinish, Holds
  <2>1. items[id].status = "approved" /\ items[id].issuing
    BY ZenonT(30), <1>2, <2>0 DEF Inv, ClaimExclusive
  <2>2. Moved(items[id], f)
    BY <1>2, <1>5, <2>1, FinishMoved
  <2>3. f \in Approval /\ f # NoApproval /\ (poll[p].ok => f.consumed)
    <3>1. /\ f \in Entry /\ f # NoApproval
          /\ f.consumed = (items[id].consumed \/ poll[p].ok)
      <4>1. items[id] \in Entry /\ items[id] # NoApproval /\ poll[p].ok \in BOOLEAN
        BY Zenon, <1>2, <2>0
      <4> HIDE DEF id
      <4> QED
        BY <4>1, ConsumeFacts
    <3> HIDE DEF f
    <3> QED
      BY ZenonT(30), <3>1 DEF Entry
  <2>4. CASE db'[id] = db[id]
    BY ZenonT(30), <1>1, <1>3, <1>5, <2>2, <2>3, <2>4, StepOfStay, StepOfMove
  <2>5. CASE db' = row /\ db[id] # NoApproval /\ poll[p].ok
    <3>1. db[id] \in Approval
      BY <1>2, <2>5 DEF Entry
    <3> DEFINE x == [db[id] EXCEPT !.consumed = TRUE]
    <3>2. /\ x \in Approval /\ x.consumed
          /\ x.caller = db[id].caller /\ x.stripped = db[id].stripped
          /\ x.createdAt = db[id].createdAt /\ x.status = db[id].status
          /\ x.learn = db[id].learn /\ x.decidedBy = db[id].decidedBy
          /\ x.decidedAt = db[id].decidedAt
      BY Zenon, <3>1 DEF Approval
    <3>3. db'[id] = x
      BY Zenon, <1>2, <2>5
    <3> HIDE DEF x
    <3>4. RowMoved(db[id], db'[id], items[id], items'[id])
      BY Zenon, <1>3, <2>0, <2>3, <2>5, <3>2, <3>3, RegistryAssumption DEF RowMoved
    <3>5. Step(id)
      BY Zenon, <1>1, <1>3, <2>0, <2>2, <2>3, <3>4 DEF Step
    <3> QED
      BY Zenon, <1>1, <1>3, <3>5, StepOfStay
  <2> QED
    BY <1>1, <2>4, <2>5
<1> QED
  BY Zenon, <1>2, <1>4, <1>5 DEF Entry

LEMMA DecideSteps ==
    ASSUME Inv, NEW cn \in Approvers, NEW id \in Ids, NEW approve \in BOOLEAN,
           NEW learn \in BOOLEAN, handleApprovalDecide(cn, id, approve, learn)
    PROVE  \A i \in Ids : Step(i)
<1> DEFINE x == expireLocked(items[id], now)
           f == Decided(x, approve, cn, learn, now)
           row == [db EXCEPT ![id].status = f.status, ![id].learn = f.learn,
                             ![id].decidedBy = f.decidedBy, ![id].decidedAt = f.decidedAt]
<1>1. /\ x # NoApproval /\ origin' = origin
      /\ \/ items' = [items EXCEPT ![id] = x] /\ db' = db
         \/ /\ ~SelfApproval(cn, x) /\ MayDecide(x, approve, learn)
            /\ items' = [items EXCEPT ![id] = f]
            /\ db' = db \/ (db[id] # NoApproval /\ db' = row)
  BY Zenon DEF handleApprovalDecide, BestEffort
<1>2. /\ items[id] \in Approval /\ db[id] \in Entry /\ now \in Nat /\ cn \in CNs
      /\ items \in [Ids -> Entry] /\ db \in [Ids -> Entry]
  <2>1. items[id] # NoApproval
    BY Zenon, <1>1 DEF expireLocked
  <2> QED
    BY <2>1, ControlPlaneAssumption DEF Inv, TypeOK, Entry
<1>3. \A i \in Ids : i # id => items'[i] = items[i] /\ db'[i] = db[i]
  BY <1>1, <1>2
<1>4. x \in Approval /\ Moved(items[id], x)
  BY <1>2, ExpireMoves, ExpireMoved
<1>5. CASE items' = [items EXCEPT ![id] = x] /\ db' = db
  <2>1. items'[id] = x
    BY <1>2, <1>5
  <2> HIDE DEF x
  <2> QED
    BY Zenon, <1>1, <1>2, <1>3, <1>4, <1>5, <2>1, StepOfStay, StepOfMove
<1>6. CASE /\ ~SelfApproval(cn, x) /\ MayDecide(x, approve, learn)
           /\ items' = [items EXCEPT ![id] = f]
           /\ db' = db \/ (db[id] # NoApproval /\ db' = row)
  <2>1. /\ items[id].status = "pending" /\ f.status \in {"approved", "denied"}
        /\ Moved(items[id], f)
    BY <1>2, <1>6, DecideMoved
  <2>2. f \in Approval /\ f # NoApproval
    <3> HIDE DEF x
    <3> QED
      BY <1>2, <1>4, DecidedFacts, RegistryAssumption
  <2>3. items'[id] = f
    BY <1>2, <1>6
  <2> HIDE DEF f, x
  <2>4. CASE db'[id] = db[id]
    BY Zenon, <1>1, <1>2, <1>3, <2>1, <2>2, <2>3, <2>4, StepOfStay, StepOfMove
  <2>5. CASE db[id] # NoApproval /\ db' = row
    <3>1. db[id] \in Approval
      BY <1>2, <2>5 DEF Entry
    <3> DEFINE r == [db[id] EXCEPT !.status = f.status, !.learn = f.learn,
                                   !.decidedBy = f.decidedBy, !.decidedAt = f.decidedAt]
    <3>2. db' = [db EXCEPT ![id] = r]
      BY Zenon, <1>2, <2>5
    <3>3. /\ r.caller = db[id].caller /\ r.stripped = db[id].stripped
          /\ r.createdAt = db[id].createdAt /\ r.consumed = db[id].consumed
          /\ r.status = f.status /\ r.learn = f.learn
          /\ r.decidedBy = f.decidedBy /\ r.decidedAt = f.decidedAt
      BY Zenon, <3>1 DEF Approval
    <3>4. r \in Approval
      BY Zenon, <2>2, <3>1 DEF Approval
    <3> HIDE DEF r
    <3>5. db'[id] = r /\ r # NoApproval
      BY Zenon, <1>2, <3>2, <3>4, RegistryAssumption
    <3>6. items[id] # NoApproval
      BY Zenon, <1>2, RegistryAssumption
    <3>7. RowMoved(db[id], db'[id], items[id], items'[id])
      BY Zenon, <2>1, <2>2, <2>3, <2>5, <3>3, <3>5, <3>6 DEF RowMoved
    <3>8. Step(id)
      BY Zenon, <1>1, <2>1, <2>2, <2>3, <3>6, <3>7 DEF Step
    <3> QED
      BY Zenon, <1>1, <1>3, <3>8, StepOfStay
  <2> QED
    BY Zenon, <1>6, <2>4, <2>5
<1> QED
  BY Zenon, <1>1, <1>5, <1>6

LEMMA ListSteps ==
    ASSUME Inv, List
    PROVE  \A i \in Ids : Step(i)
<1>1. ASSUME NEW i \in Ids PROVE Step(i)
  <2>1. /\ items'[i] = expireLocked(PurgedEntry(items[i], now), now)
        /\ db'[i] \in {db[i], PurgedRow(db[i], now)}
        /\ origin'[i] = origin[i]
    BY Zenon DEF List, BestEffort
  <2> QED
    BY Zenon, <2>1, StepOfPurge
<1> QED
  BY Zenon, <1>1

(* Every step of a life of the process changes every entry and its row as  *)
(* Moved and RowMoved say.                                                 *)
LEMMA Steps ==
    ASSUME Inv, [Next]_vars, restarts' = restarts
    PROVE  \A i \in Ids : Step(i)
<1>1. CASE UNCHANGED <<items, db, origin>>
  BY <1>1, StepOfStay
<1>2. ASSUME NEW s \in Signers, NEW cn \in CNs, NEW u \in EndUsers \cup {""},
             NEW h \in Hosts, NEW c \in Cmds, handleSign(s, cn, u, h, c)
      PROVE  \A i \in Ids : Step(i)
  BY Zenon, <1>1, <1>2 DEF handleSign
<1>2a. ASSUME NEW s \in Signers, SignAnswer(s)
       PROVE  \A i \in Ids : Step(i)
  BY Zenon, <1>1, <1>2a, AnswerCases, RequireSteps DEF Inv
<1>3. ASSUME NEW p \in Pollers, PollStep(p)
      PROVE  \A i \in Ids : Step(i)
  <2>1. CASE PollForward(p) \/ PollGate(p)
    BY Zenon, <1>1, <2>1 DEF PollForward, PollGate, registryVars
  <2> QED
    BY Zenon, <1>3, <2>1, ReportSteps, ClaimSteps, FinishSteps DEF PollStep
<1>4. CASE \E cn \in Approvers : DecideGate(cn)
  BY Zenon, <1>1, <1>4 DEF DecideGate
<1>5. CASE Tick \/ UNCHANGED vars
  BY <1>1, <1>5 DEF Tick, registryVars, vars
<1>6. CASE Restart
  <2>1. restarts' = restarts + 1 /\ restarts \in Nat
    BY <1>6 DEF Restart, Inv, TypeOK
  <2> QED
    BY <2>1
<1> QED
  BY Zenon, <1>2, <1>2a, <1>3, <1>4, <1>5, <1>6, GetSteps, DecideSteps, ListSteps DEF Next
-----------------------------------------------------------------------------
(* The invariants.  Answered: a refusal of id is on record, or a poll is   *)
(* about to report one.                                                    *)
Answered(id) ==
    \/ reports[id] > 0
    \/ \E p \in Pollers : poll[p].pc = "report" /\ poll[p].id = id

Outcome(id) ==
    /\ reports[id] <= 1
    /\ delivered[id] = 0 \/ reports[id] = 0
    /\ delivered[id] > 0 /\ items[id] # NoApproval => items[id].status = "approved"
    /\ Answered(id) => origin[id] # NoApproval /\ \A p \in Pollers : ~Holds(p, id)
    /\ id \in told => origin[id] # NoApproval
    /\ id \in told /\ items[id] # NoApproval =>
          items[id].status \in Refused \/ items[id].consumed
    /\ reports[id] = 1 /\ items[id] # NoApproval =>
          items[id].status \in Refused /\ items[id].resultReported
    /\ \A p \in Pollers : poll[p].id = id /\ items[id] # NoApproval =>
          /\ poll[p].pc = "report" => items[id].status \in Refused
          /\ poll[p].pc = "claim" => items[id].status # "pending"

Outcomes == \A id \in Ids : Outcome(id)

-----------------------------------------------------------------------------
(* The counters of answers in what follows are 0 or 1.                     *)
LEMMA ZeroOne ==
    /\ 0 <= 1 /\ 1 <= 1 /\ ~(0 > 0) /\ 0 # 1 /\ 0 + 1 = 1
    /\ \A n \in Nat : (~(n > 0) => n = 0) /\ (n <= 1 /\ n # 1 => n = 0)
OBVIOUS

LEMMA Delivered ==
    ASSUME Inv, NEW id \in Ids
    PROVE  delivered[id] > 0 => delivered[id] = 1
<1>1. delivered[id] \in Nat
  BY DEF Inv, TypeOK
<1>2. delivered[id] <= 1
  BY Zenon DEF Inv, OneCredential
<1> QED
  BY <1>1, <1>2

(* What a restart makes of request i: the entry is its row, if that is not *)
(* too old, and the rest of the life before is gone.                       *)
LEMMA RestartFacts ==
    ASSUME Inv, Restart, NEW i \in Ids
    PROVE  /\ \/ /\ items'[i] = NoApproval
                 /\ db[i] = NoApproval \/ ~StateDB \/ now - db[i].createdAt >= 2 * TTL
              \/ /\ StateDB /\ db[i] \in Approval /\ db[i] # NoApproval
                 /\ ~(now - db[i].createdAt >= 2 * TTL)
                 /\ items'[i] = expireLocked(db[i], now)
                 /\ items'[i] \in Approval /\ items'[i] # NoApproval
           /\ db'[i] \in {db[i], PurgedRow(db[i], now)}
           /\ \A p \in Pollers : poll'[p].pc = "idle"
           /\ delivered'[i] = 0 /\ reports'[i] = 0 /\ told' = {}
           /\ UNCHANGED <<now, origin, granted>>
<1>0. db[i] \in Entry /\ now \in Nat
  BY Zenon DEF Inv, TypeOK, Entry
<1>1. /\ items'[i] = IF StateDB THEN expireLocked(Loaded(db[i], now), now) ELSE NoApproval
      /\ db'[i] \in {db[i], PurgedRow(db[i], now)}
  BY Zenon DEF Restart, BestEffort
<1>2. /\ \A p \in Pollers : poll'[p].pc = "idle"
      /\ delivered'[i] = 0 /\ reports'[i] = 0 /\ told' = {}
      /\ UNCHANGED <<now, origin, granted>>
  BY Zenon DEF Restart, IdlePoll
<1>3. CASE ~StateDB \/ Loaded(db[i], now) = NoApproval
  <2>1. items'[i] = NoApproval
    BY Zenon, <1>1, <1>3 DEF expireLocked
  <2>2. db[i] = NoApproval \/ ~StateDB \/ now - db[i].createdAt >= 2 * TTL
    <3>1. db[i] # NoApproval => db[i].createdAt \in Nat
      BY Zenon, <1>0 DEF Entry, Approval
    <3> QED
      BY <1>0, <1>3, <3>1, RegistryAssumption DEF Loaded
  <2> QED
    BY Zenon, <1>1, <1>2, <2>1, <2>2
<1>4. CASE StateDB /\ Loaded(db[i], now) # NoApproval
  <2>1. db[i] \in Approval /\ db[i] # NoApproval /\ items'[i] = expireLocked(db[i], now)
    BY <1>0, <1>1, <1>4 DEF Loaded, Entry
  <2>2. items'[i] \in Approval /\ items'[i] # NoApproval
    BY Zenon, <1>0, <2>1, ExpireMoves
  <2>3. ~(now - db[i].createdAt >= 2 * TTL)
    <3>1. db[i].createdAt \in Nat
      BY Zenon, <2>1 DEF Approval
    <3> QED
      BY <1>0, <1>4, <3>1, RegistryAssumption DEF Loaded
  <2> QED
    BY ZenonT(30), <1>1, <1>2, <1>4, <2>1, <2>2, <2>3
<1> QED
  BY Zenon, <1>3, <1>4

(* A step that gives nobody an answer, a credential or a claim; at most a  *)
(* poll takes a snapshot of an entry that was decided or expired.          *)
Snapshot(q, a) ==
    /\ a # NoApproval
    /\ q.pc = "report" => a.status \in Refused
    /\ q.pc = "claim" => a.status # "pending"

LEMMA QuietOutcome ==
    ASSUME Inv, Inv', NEW i \in Ids, Outcome(i), Step(i),
           UNCHANGED <<delivered, reports, told>>,
           \A p \in Pollers : Holds(p, i)' => Holds(p, i),
           \A p \in Pollers : poll'[p].pc \in {"report", "claim"} /\ poll'[p].id = i =>
              poll'[p] = poll[p] \/ Snapshot(poll'[p], items'[i])
    PROVE  Outcome(i)'
<1>1. Answered(i)' => \/ Answered(i)
                      \/ items'[i] # NoApproval /\ items'[i].status \in Refused
  BY Zenon DEF Answered, Snapshot
<1>2. \A p \in Pollers : poll[p].pc # "idle" => origin[poll[p].id] # NoApproval
  BY Zenon DEF Inv, Known
<1>3. delivered[i] > 0 /\ items[i] # NoApproval =>
         items[i].status = "approved" /\ (items[i].consumed \/ items[i].issuing)
  <2>1. delivered[i] > 0 => delivered[i] = 1
    BY Zenon, Delivered
  <2> QED
    BY Zenon, <2>1 DEF Outcome, Inv, Spent, ClaimExclusive
<1>4. Answered(i)' => origin'[i] # NoApproval /\ \A p \in Pollers : ~Holds(p, i)'
  <2>1. CASE Answered(i)
    BY Zenon, <2>1 DEF Outcome, Step, Registered
  <2>2. CASE items'[i] # NoApproval /\ items'[i].status \in Refused
    BY Zenon, <2>2 DEF Inv, Known, ClaimExclusive, Refused
  <2> QED
    BY Zenon, <1>1, <2>1, <2>2
<1>5. CASE Registered(i)
  <2>1. ~Answered(i) /\ delivered[i] = 0 /\ reports[i] = 0
    <3>1. ~Answered(i)
      BY Zenon, <1>5 DEF Registered, Outcome
    <3>2. delivered[i] \in Nat /\ reports[i] \in Nat
      BY DEF Inv, TypeOK
    <3>3. ~(delivered[i] > 0) /\ ~(reports[i] > 0)
      BY Zenon, <1>5, <3>1 DEF Registered, Answered, Inv, Known
    <3> QED
      BY <3>1, <3>2, <3>3, ZeroOne, Zenon
  <2>2. \A p \in Pollers : poll'[p].id = i /\ items'[i] # NoApproval =>
           /\ poll'[p].pc = "report" => items'[i].status \in Refused
           /\ poll'[p].pc = "claim" => items'[i].status # "pending"
    BY Zenon, <1>2, <1>5 DEF Registered, Snapshot
  <2>3. i \notin told'
    BY Zenon, <1>5 DEF Registered, Outcome
  <2>4. delivered'[i] = 0 /\ reports'[i] = 0
    BY Zenon, <2>1
  <2> QED
    BY <1>4, <2>2, <2>3, <2>4, ZeroOne, Zenon DEF Outcome
<1>6. CASE origin'[i] = origin[i] /\ (items'[i] = items[i] \/ items'[i] = NoApproval)
  BY Zenon, <1>4, <1>6 DEF Outcome, Snapshot
<1>7. CASE /\ origin'[i] = origin[i] /\ items'[i] # NoApproval /\ items[i] # NoApproval
           /\ Moved(items[i], items'[i])
  BY ZenonT(30), <1>3, <1>4, <1>7 DEF Outcome, Moved, Refused, Snapshot
<1> QED
  BY Zenon, <1>5, <1>6, <1>7 DEF Step

LEMMA GetOutcome ==
    ASSUME Inv, Inv', Outcomes, \A i \in Ids : Step(i),
           NEW p \in Pollers, NEW cn \in CNs, NEW id \in Ids, PollGet(p, cn, id)
    PROVE  Outcomes'
<1> DEFINE a == expireLocked(items[id], now)
<1>1. /\ items' = [items EXCEPT ![id] = a] /\ a # NoApproval
      /\ UNCHANGED <<delivered, reports, told>>
      /\ \/ poll' = poll
         \/ /\ a.status # "pending"
            /\ poll' = [poll EXCEPT ![p] =
                          [pc |-> IF a.status = "approved" THEN "claim" ELSE "report",
                           id |-> id, by |-> a.decidedBy, ok |-> FALSE]]
  BY DEF PollGet, outcomeVars
<1>2. items'[id] = a /\ poll \in [Pollers -> Poll] /\ a.status \in Statuses
  BY Zenon, <1>1 DEF Inv, TypeOK, Approval
<1> HIDE DEF a
<1>3. \A q \in Pollers : poll'[q] = poll[q] \/
         /\ poll'[q].id = id /\ poll'[q].pc \in {"claim", "report"} /\ a.status # "pending"
         /\ poll'[q].pc = "report" => a.status # "approved"
  BY <1>1, <1>2
<1>4. ASSUME NEW i \in Ids PROVE Outcome(i)'
  <2>1. \A q \in Pollers : Holds(q, i)' => Holds(q, i)
    BY Zenon, <1>3 DEF Holds
  <2>2. \A q \in Pollers : poll'[q].pc \in {"report", "claim"} /\ poll'[q].id = i =>
           poll'[q] = poll[q] \/ Snapshot(poll'[q], items'[i])
    BY <1>1, <1>2, <1>3 DEF Snapshot, Refused, Statuses
  <2> QED
    BY Zenon, <1>1, <2>1, <2>2, QuietOutcome DEF Outcomes
<1> QED
  BY Zenon, <1>4 DEF Outcomes

(* A refusal is recorded once, and only for a request that gave out no     *)
(* credential and that no poll holds.                                      *)
LEMMA ReportOutcome ==
    ASSUME Inv, Inv', Outcomes, \A i \in Ids : Step(i), NEW p \in Pollers, PollReport(p)
    PROVE  Outcomes'
<1> PICK id \in Ids : poll[p].id = id
  BY Zenon DEF PollReport, Inv, Known
<1> DEFINE a == expireLocked(items[id], now)
           m == ReportResultOnce(a)
<1>0. id \in Ids /\ poll[p].pc = "report" /\ poll \in [Pollers -> Poll]
      /\ items[id] \in Entry /\ now \in Nat /\ reports \in [Ids -> Nat]
  BY Zenon DEF PollReport, Inv, TypeOK, Entry
<1>1. /\ items' = [items EXCEPT ![id] = m]
      /\ poll' = [poll EXCEPT ![p] = IdlePoll]
      /\ told' = told \cup {id} /\ UNCHANGED <<delivered, origin>>
      /\ reports' = reports \/ (Reports(a) /\ reports' = [reports EXCEPT ![id] = @ + 1])
  BY Zenon DEF PollReport
<1>2. items'[id] = m
  BY Zenon, <1>0, <1>1 DEF Inv, TypeOK
<1>3. \A q \in Pollers : poll'[q] = poll[q] \/ poll'[q].pc = "idle"
  BY <1>0, <1>1 DEF IdlePoll
<1>4. ASSUME NEW i \in Ids, i # id PROVE Outcome(i)'
  <2>1. items'[i] = items[i] /\ reports'[i] = reports[i] /\ (i \in told' <=> i \in told)
        /\ origin'[i] = origin[i] /\ delivered'[i] = delivered[i]
    BY ZenonT(30), <1>0, <1>1, <1>4 DEF Inv, TypeOK
  <2>2. Outcome(i)
    BY DEF Outcomes
  <2>3. (Answered(i)' => Answered(i)) /\ \A q \in Pollers : Holds(q, i)' => Holds(q, i)
    BY Zenon, <1>3, <2>1 DEF Answered, Holds
  <2> QED
    BY Zenon, <1>3, <2>1, <2>2, <2>3 DEF Outcome
<1>5. Outcome(id)'
  <2>1. Outcome(id) /\ Answered(id)
    BY Zenon, <1>0 DEF Outcomes, Answered
  <2>2. /\ origin[id] # NoApproval /\ \A q \in Pollers : ~Holds(q, id)
        /\ items[id] # NoApproval => items[id].status \in Refused
    BY Zenon, <1>0, <2>1 DEF Outcome
  <2>3. \A q \in Pollers : ~Holds(q, id)'
    BY Zenon, <1>3, <2>2 DEF Holds
  <2>4. a = items[id]
    BY Zenon, <1>0, <2>2 DEF expireLocked, Overdue, Refused, Entry, Approval
  <2>5. /\ m = NoApproval <=> items[id] = NoApproval
        /\ m # NoApproval => /\ m.status = items[id].status /\ m.resultReported
    <3>1. CASE items[id] = NoApproval
      BY <2>4, <3>1 DEF ReportResultOnce, Reports
    <3>2. CASE items[id] # NoApproval
      <4>1. items[id] \in Approval
        BY Zenon, <1>0, <3>2 DEF Entry
      <4>2. items[id].resultReported \in BOOLEAN
        BY Zenon, <4>1 DEF Approval
      <4>3. \/ m = items[id] /\ items[id].resultReported
            \/ m = [items[id] EXCEPT !.resultReported = TRUE]
        BY <2>2, <2>4, <3>2 DEF ReportResultOnce, Reports, Refused
      <4>4. /\ [items[id] EXCEPT !.resultReported = TRUE] \in Approval
            /\ [items[id] EXCEPT !.resultReported = TRUE].resultReported
            /\ [items[id] EXCEPT !.resultReported = TRUE].status = items[id].status
        BY Zenon, <4>1 DEF Approval
      <4> HIDE DEF m
      <4> QED
        BY Zenon, <3>2, <4>1, <4>3, <4>4, RegistryAssumption
    <3> QED
      BY Zenon, <3>1, <3>2
  <2>6. delivered[id] > 0 => items[id] = NoApproval
    BY Zenon, <2>1, <2>2 DEF Outcome, Refused
  <2>7. Reports(a) => items[id] # NoApproval /\ ~items[id].resultReported
    BY Zenon, <2>4 DEF Reports
  <2>8. /\ reports'[id] = reports[id] \/ (reports[id] = 0 /\ reports'[id] = 1 /\ delivered[id] = 0)
        /\ delivered'[id] = delivered[id] /\ origin'[id] = origin[id]
    <3>1. reports[id] \in Nat /\ delivered[id] \in Nat
      BY <1>0 DEF Inv, TypeOK
    <3>2. Reports(a) => reports[id] = 0 /\ delivered[id] = 0
      <4>1. Reports(a) => ~(delivered[id] > 0)
        BY Zenon, <2>6, <2>7
      <4>2. reports[id] <= 1 /\ (Reports(a) => reports[id] # 1)
        BY Zenon, <2>1, <2>7 DEF Outcome
      <4> HIDE DEF a
      <4> QED
        BY <3>1, <4>1, <4>2, ZeroOne, Zenon
    <3> HIDE DEF a
    <3>3. reports'[id] = reports[id] \/ (Reports(a) /\ reports'[id] = reports[id] + 1)
      BY <1>0, <1>1
    <3> QED
      BY <1>1, <3>2, <3>3, ZeroOne, ZenonT(30)
  <2>9. /\ items'[id] = NoApproval <=> items[id] = NoApproval
        /\ items'[id] # NoApproval => items'[id].status \in Refused /\ items'[id].resultReported
    BY Zenon, <1>2, <2>2, <2>5
  <2> HIDE DEF a, m
  <2>10. /\ reports'[id] <= 1
         /\ delivered'[id] = 0 \/ reports'[id] = 0
    BY <2>1, <2>8, ZeroOne, Zenon DEF Outcome
  <2>11. /\ delivered'[id] > 0 => items'[id] = NoApproval
         /\ origin'[id] # NoApproval
    BY Zenon, <2>2, <2>6, <2>8, <2>9
  <2>12. \A q \in Pollers : poll'[q].id = id /\ items'[id] # NoApproval =>
            /\ poll'[q].pc = "report" => items'[id].status \in Refused
            /\ poll'[q].pc = "claim" => items'[id].status # "pending"
    BY Zenon, <2>9 DEF Refused
  <2> QED
    BY Zenon, <2>3, <2>9, <2>10, <2>11, <2>12 DEF Outcome
<1> QED
  BY Zenon, <1>0, <1>4, <1>5 DEF Outcomes

(* A claim is taken on an approval nobody was answered for, and an answer  *)
(* is given only when no poll holds the approval, or it was purged.        *)
LEMMA ClaimOutcome ==
    ASSUME Inv, Inv', Outcomes, \A i \in Ids : Step(i), NEW p \in Pollers, PollClaim(p)
    PROVE  Outcomes'
<1> PICK id \in Ids : poll[p].id = id
  BY Zenon DEF PollClaim, Inv, Known
<1> DEFINE a == expireLocked(items[id], now)
           b == BeginConsume(a)
<1>0. /\ poll[p].pc = "claim" /\ poll \in [Pollers -> Poll] /\ poll[p] \in Poll
      /\ items[id] \in Entry /\ now \in Nat /\ origin[id] # NoApproval
  BY DEF PollClaim, Inv, TypeOK, Entry, Known
<1>1. /\ items' = [items EXCEPT ![id] = b] /\ UNCHANGED <<delivered, reports, origin>>
      /\ Startable(a) =>
            poll' = [poll EXCEPT ![p] = [@ EXCEPT !.pc = "forward"]] /\ told' = told
      /\ ~Startable(a) =>
            /\ poll' = [poll EXCEPT ![p] = IdlePoll]
            /\ told' = told \/ (told' = told \cup {id} /\ ~Retriable(a))
  BY Zenon DEF PollClaim
<1>2. items'[id] = b /\ \A i \in Ids : i # id => items'[i] = items[i]
  BY <1>1 DEF Inv, TypeOK
<1>3. /\ \A q \in Pollers : q # p => poll'[q] = poll[q]
      /\ poll'[p].pc = IF Startable(a) THEN "forward" ELSE "idle"
      /\ Startable(a) => poll'[p].id = id
  BY <1>0, <1>1 DEF IdlePoll, Poll
<1>4. ASSUME NEW i \in Ids, i # id PROVE Outcome(i)'
  <2>1. /\ items'[i] = items[i] /\ reports'[i] = reports[i] /\ (i \in told' <=> i \in told)
        /\ origin'[i] = origin[i] /\ delivered'[i] = delivered[i]
    BY <1>1, <1>2, <1>4
  <2>2. Outcome(i)
    BY DEF Outcomes
  <2>3. /\ Answered(i)' => Answered(i)
        /\ \A q \in Pollers : Holds(q, i)' => Holds(q, i)
    BY Zenon, <1>3, <1>4, <2>1 DEF Answered, Holds
  <2> QED
    BY Zenon, <1>3, <2>1, <2>2, <2>3 DEF Outcome
<1>5. CASE Startable(a)
  <2>0. a # NoApproval /\ a.status = "approved" /\ ~a.consumed
    BY Zenon, <1>5 DEF Startable
  <2>1. a = items[id] /\ items[id] # NoApproval
    <3>1. items[id] \in Approval /\ items[id] # NoApproval
      BY <1>0, <2>0 DEF expireLocked, Entry
    <3> QED
      BY Zenon, <1>0, <2>0, <3>1, ExpireMoves
  <2>2. ~Answered(id) /\ id \notin told
    <3>0. Outcome(id) /\ reports[id] \in Nat /\ items[id].status \notin Refused
      BY Zenon, <2>0, <2>1 DEF Outcomes, Refused, Inv, TypeOK
    <3>1. reports[id] <= 1 /\ reports[id] # 1
      BY Zenon, <2>1, <3>0 DEF Outcome
    <3>2. id \notin told
      BY Zenon, <2>0, <2>1, <3>0 DEF Outcome
    <3>3. \A q \in Pollers : ~(poll[q].pc = "report" /\ poll[q].id = id)
      BY Zenon, <2>1, <3>0 DEF Outcome
    <3> QED
      <4>1. ~(reports[id] > 0)
        BY Zenon, <3>0, <3>1, ZeroOne
      <4> QED
        BY <3>2, <3>3, <4>1, Zenon DEF Answered
  <2>3. ~Answered(id)'
    BY Zenon, <1>1, <1>3, <1>5, <2>2 DEF Answered
  <2>4. b # NoApproval /\ b.status = "approved"
    <3> HIDE DEF a
    <3>1. a \in Entry /\ TRUE \in BOOLEAN
      BY Zenon, <1>0, <2>1
    <3> QED
      BY Zenon, <1>5, <2>0, <3>1, ConsumeFacts
  <2> HIDE DEF a, b
  <2>5. Outcome(id)'
    BY <1>1, <1>2, <1>3, <1>5, <2>2, <2>3, <2>4 DEF Outcomes, Outcome, Answered, Refused
  <2> QED
    BY Zenon, <1>4, <2>5 DEF Outcomes
<1>6. CASE ~Startable(a)
  <2>1. b = a
    BY Zenon, <1>6 DEF BeginConsume
  <2>2. /\ a = NoApproval <=> items[id] = NoApproval
        /\ items[id] # NoApproval => Moved(items[id], a)
    <3>1. CASE items[id] = NoApproval
      BY <3>1 DEF expireLocked
    <3>2. CASE items[id] \in Approval
      BY Zenon, <1>0, <3>2, ExpireMoves, ExpireMoved, RegistryAssumption
    <3> QED
      BY Zenon, <1>0, <3>1, <3>2 DEF Entry
  <2>3. \A q \in Pollers : Holds(q, id)' => Holds(q, id)
    BY ZenonT(30), <1>3, <1>6 DEF Holds
  <2>4. CASE told' = told
    <3>1. \A q \in Pollers : poll'[q].pc \in {"report", "claim"} => poll'[q] = poll[q]
      BY Zenon, <1>3, <1>6
    <3>2. Outcome(id)'
      BY Zenon, <1>1, <2>3, <2>4, <3>1, QuietOutcome DEF Outcomes
    <3> QED
      BY Zenon, <1>4, <3>2 DEF Outcomes
  <2>4a. CASE told' = told \cup {id} /\ a = NoApproval
    <3>1. items[id] = NoApproval /\ items'[id] = NoApproval
      BY Zenon, <1>2, <2>1, <2>2, <2>4a
    <3>2. Answered(id)' => Answered(id)
      BY Zenon, <1>1, <1>3, <1>6 DEF Answered
    <3> HIDE DEF a, b
    <3>3. Outcome(id)'
      BY Zenon, <1>0, <1>1, <2>3, <2>4a, <3>1, <3>2 DEF Outcomes, Outcome
    <3> QED
      BY Zenon, <1>4, <3>3 DEF Outcomes
  <2>5. CASE told' = told \cup {id} /\ a # NoApproval /\ ~Retriable(a)
    <3>1. items[id] # NoApproval /\ items[id].status # "pending"
      BY Zenon, <1>0, <2>2, <2>5 DEF Outcomes, Outcome
    <3>2. a.status # "pending" /\ a.status \in Statuses
      <4>1. a \in Approval
        BY Zenon, <1>0, <2>5, ExpireFacts DEF Entry
      <4> QED
        BY Zenon, <2>2, <3>1, <4>1 DEF Moved, Approval
    <3>3. a.status \in Refused \/ a.consumed
      BY Zenon, <1>6, <2>5, <3>2 DEF Startable, Retriable, Refused, Statuses
    <3>4. \A q \in Pollers : ~Holds(q, id)'
      <4>1. items'[id] = a /\ a # NoApproval
        BY Zenon, <1>2, <2>1, <2>5
      <4> HIDE DEF a
      <4> QED
        BY Zenon, <3>3, <4>1 DEF Inv, ClaimExclusive, Refused
    <3>5. delivered[id] > 0 => a.status = "approved"
      <4>1. delivered[id] > 0 => delivered[id] = 1
        BY Delivered
      <4>2. delivered[id] > 0 =>
               items[id].status = "approved" /\ (items[id].consumed \/ items[id].issuing)
        BY Zenon, <3>1, <4>1 DEF Outcomes, Outcome, Inv, Spent, ClaimExclusive
      <4> QED
        BY ZenonT(30), <2>2, <3>1, <4>2 DEF Moved
    <3>6. reports[id] = 1 => a.status \in Refused /\ a.resultReported
      BY Zenon, <2>2, <3>1 DEF Outcomes, Outcome, Moved
    <3>7. \A q \in Pollers : poll'[q].pc = "report" /\ poll'[q].id = id => a.status \in Refused
      <4>1. \A q \in Pollers : poll[q].pc = "report" /\ poll[q].id = id =>
               items[id].status \in Refused
        BY Zenon, <3>1 DEF Outcomes, Outcome
      <4>2. items[id].status \in Refused => a.status \in Refused
        BY Zenon, <2>2, <3>1 DEF Moved
      <4> HIDE DEF a
      <4> QED
        BY Zenon, <1>3, <1>6, <4>1, <4>2
    <3> HIDE DEF a, b
    <3>8. Outcome(id)'
      BY Zenon, <1>0, <1>1, <1>2, <2>1, <2>5, <3>2, <3>3, <3>4, <3>5, <3>6, <3>7
         DEF Outcomes, Outcome, Answered
    <3> QED
      BY <1>4, <3>8 DEF Outcomes
  <2> QED
    BY Zenon, <1>1, <1>6, <2>4, <2>4a, <2>5
<1> QED
  BY Zenon, <1>5, <1>6

(* The gate hands out a credential of an approval that is held, so nobody  *)
(* was refused it.                                                         *)
LEMMA GateOutcome ==
    ASSUME Inv, Inv', Outcomes, NEW p \in Pollers, PollGate(p)
    PROVE  Outcomes'
<1> PICK id \in Ids : poll[p].id = id
  BY DEF PollGate, Inv, Known
<1>0. /\ poll[p].pc = "gate" /\ poll \in [Pollers -> Poll] /\ poll[p] \in Poll
      /\ delivered \in [Ids -> Nat] /\ reports \in [Ids -> Nat]
  BY DEF PollGate, Inv, TypeOK
<1>1. /\ UNCHANGED <<items, origin, told, reports>>
      /\ delivered' = delivered \/ delivered' = [delivered EXCEPT ![id] = @ + 1]
      /\ \/ poll' = [poll EXCEPT ![p].pc = "finish", ![p].ok = TRUE]
         \/ poll' = [poll EXCEPT ![p].pc = "finish"]
  BY DEF PollGate
<1>2. /\ \A q \in Pollers : q # p => poll'[q] = poll[q]
      /\ poll'[p].pc = "finish" /\ poll'[p].id = id
  BY <1>0, <1>1 DEF Poll
<1>3. ASSUME NEW i \in Ids PROVE Outcome(i)'
  <2>1. Outcome(i)
    BY DEF Outcomes
  <2>2. /\ Answered(i)' <=> Answered(i)
        /\ \A q \in Pollers : Holds(q, i)' <=> Holds(q, i)
    BY Zenon, <1>0, <1>1, <1>2 DEF Answered, Holds
  <2>3. CASE delivered'[i] = delivered[i]
    BY ZenonT(30), <1>1, <1>2, <2>1, <2>2, <2>3 DEF Outcome
  <2>4. CASE i = id
    <3>1. Holds(p, i)
      BY Zenon, <1>0, <2>4 DEF Holds
    <3>2. ~Answered(i) /\ reports[i] = 0
      <4>1. ~Answered(i)
        BY Zenon, <2>1, <3>1 DEF Outcome
      <4>2. reports[i] \in Nat /\ ~(reports[i] > 0)
        BY Zenon, <1>0, <4>1 DEF Answered
      <4> QED
        BY <4>1, <4>2
    <3>3. items[i] # NoApproval => items[i].status = "approved"
      BY Zenon, <3>1 DEF Inv, ClaimExclusive
    <3> QED
      BY ZenonT(30), <1>1, <1>2, <2>1, <2>2, <3>2, <3>3 DEF Outcome
  <2> QED
    BY Zenon, <1>0, <1>1, <2>3, <2>4
<1> QED
  BY Zenon, <1>3 DEF Outcomes

LEMMA InitOutcomes == Init => Outcomes
<1> SUFFICES ASSUME Init, NEW id \in Ids PROVE Outcome(id)
  BY Zenon DEF Outcomes
<1>1. /\ reports[id] = 0 /\ delivered[id] = 0 /\ id \notin told /\ items[id] = NoApproval
      /\ \A p \in Pollers : poll[p].pc = "idle"
  BY DEF Init, IdlePoll
<1> QED
  <2>1. ~Answered(id)
    BY <1>1, ZeroOne, Zenon DEF Answered
  <2> QED
    BY <1>1, <2>1, ZeroOne, Zenon DEF Outcome

(* Only a restart starts another life.                                     *)
LEMMA SameLife ==
    ASSUME [Next]_vars, ~Restart
    PROVE  restarts' = restarts
<1>1. ASSUME NEW p \in Pollers, PollStep(p) PROVE restarts' = restarts
  BY Zenon, <1>1 DEF PollStep, PollReport, PollClaim, PollForward, PollGate, PollFinish
<1>2. ASSUME NEW p \in Pollers, NEW cn \in CNs, NEW id \in Ids, PollGet(p, cn, id)
      PROVE  restarts' = restarts
  BY <1>2 DEF PollGet
<1>3. ASSUME NEW s \in Signers, NEW cn \in CNs, NEW u \in EndUsers \cup {""},
             NEW h \in Hosts, NEW c \in Cmds, handleSign(s, cn, u, h, c)
      PROVE  restarts' = restarts
  BY Zenon, <1>3 DEF handleSign
<1>3a. ASSUME NEW s \in Signers, SignAnswer(s)
       PROVE  restarts' = restarts
  BY Zenon, <1>3a DEF SignAnswer
<1>4. ASSUME NEW cn \in Approvers, NEW id \in Ids, NEW approve \in BOOLEAN,
             NEW learn \in BOOLEAN, handleApprovalDecide(cn, id, approve, learn)
      PROVE  restarts' = restarts
  BY Zenon, <1>4 DEF handleApprovalDecide
<1>5. CASE (\E cn \in Approvers : DecideGate(cn)) \/ List \/ Tick \/ UNCHANGED vars
  BY Zenon, <1>5 DEF DecideGate, List, Tick, vars
<1> QED
  BY Zenon, <1>1, <1>2, <1>3, <1>3a, <1>4, <1>5 DEF Next

LEMMA NextOutcomes ==
    ASSUME Inv, Inv', Outcomes, [Next]_vars
    PROVE  Outcomes'
<1>1. CASE Restart
  <2>1. ASSUME NEW id \in Ids PROVE Outcome(id)'
    <3>1. /\ reports'[id] = 0 /\ delivered'[id] = 0 /\ told' = {}
          /\ \A p \in Pollers : poll'[p].pc = "idle"
      BY Zenon, <1>1, RestartFacts
    <3>2. ~(0 > 0)
      OBVIOUS
    <3>3. ~Answered(id)'
      BY Zenon, <3>1, <3>2 DEF Answered
    <3> QED
      BY <3>1, <3>3, ZeroOne, Zenon DEF Outcome
  <2> QED
    BY <2>1 DEF Outcomes
<1>2. CASE ~Restart
  <2>1. restarts' = restarts
    BY <1>2, SameLife
  <2>2. \A i \in Ids : Step(i)
    BY Zenon, <2>1, Steps
  <2>3. ASSUME UNCHANGED <<delivered, reports, told>>,
               \A p \in Pollers : poll'[p] = poll[p]
        PROVE  Outcomes'
    <3>1. \A p \in Pollers, i \in Ids : Holds(p, i)' => Holds(p, i)
      BY Zenon, <2>3 DEF Holds
    <3> QED
      BY Zenon, <2>2, <2>3, <3>1, QuietOutcome DEF Outcomes
  <2>4. ASSUME NEW s \in Signers, NEW cn \in CNs, NEW u \in EndUsers \cup {""},
               NEW h \in Hosts, NEW c \in Cmds, handleSign(s, cn, u, h, c)
        PROVE  Outcomes'
    <3>1. UNCHANGED <<poll, outcomeVars>>
      BY Zenon, <2>4 DEF handleSign
    <3> QED
      BY Zenon, <2>3, <3>1 DEF outcomeVars
  <2>4a. ASSUME NEW s \in Signers, SignAnswer(s)
         PROVE  Outcomes'
    <3>1. UNCHANGED <<poll, outcomeVars>>
      BY Zenon, <2>4a DEF SignAnswer
    <3> QED
      BY Zenon, <2>3, <3>1 DEF outcomeVars
  <2>5. CASE \E cn \in Approvers, id \in Ids, approve, learn \in BOOLEAN :
                handleApprovalDecide(cn, id, approve, learn)
    BY SMTT(20), <2>3, <2>5 DEF handleApprovalDecide, outcomeVars
  <2>6. CASE (\E cn \in Approvers : DecideGate(cn)) \/ List \/ Tick \/ UNCHANGED vars
    BY <2>3, <2>6 DEF DecideGate, List, Tick, vars, outcomeVars
  <2>7. ASSUME NEW p \in Pollers, PollForward(p) \/ PollFinish(p) PROVE Outcomes'
    <3>1. UNCHANGED <<delivered, reports, told>> /\ poll \in [Pollers -> Poll] /\ poll[p] \in Poll
      BY Zenon, <2>7 DEF PollForward, PollFinish, outcomeVars, Inv, TypeOK
    <3>2. /\ \A q \in Pollers : q # p => poll'[q] = poll[q]
          /\ Claimed(poll[p]) /\ poll'[p].pc \in {"finish", "gate", "idle"}
          /\ poll'[p].pc # "idle" => poll'[p].id = poll[p].id
      BY <2>7, <3>1 DEF PollForward, PollFinish, IdlePoll, Poll, Claimed
    <3>3. \A q \in Pollers, i \in Ids : Holds(q, i)' => Holds(q, i)
      BY Zenon, <3>2 DEF Holds, Claimed
    <3>4. \A q \in Pollers : poll'[q].pc \in {"report", "claim"} => poll'[q] = poll[q]
      BY Zenon, <3>2
    <3> QED
      BY Zenon, <2>2, <3>1, <3>3, <3>4, QuietOutcome DEF Outcomes
  <2>8. ASSUME NEW p \in Pollers, PollStep(p) PROVE Outcomes'
    BY Zenon, <2>2, <2>7, <2>8, ReportOutcome, ClaimOutcome, GateOutcome DEF PollStep
  <2>9. ASSUME NEW p \in Pollers, NEW cn \in CNs, NEW id \in Ids, PollGet(p, cn, id)
        PROVE  Outcomes'
    BY <2>2, <2>9, GetOutcome
  <2> QED
    BY Zenon, <1>2, <2>4, <2>4a, <2>5, <2>6, <2>8, <2>9 DEF Next
<1> QED
  BY Zenon, <1>1, <1>2

(* A request has one outcome in a life of the process, however many polls  *)
(* race for it, whatever the signer, the state db and the audit log answer *)
(* and wherever the process crashes: at most one credential or one record  *)
(* of a refusal, and no poll carries it on once a refusal is on record or  *)
(* its broker was answered, except under an entry that was purged          *)
(* (BeginConsume, FinishConsume, ReportResultOnce, handleResult).          *)
THEOREM SingleUseHolds == Spec => []SingleUse
<1>1. Inv /\ Outcomes => SingleUse
  <2> SUFFICES ASSUME Inv, Outcomes, NEW id \in Ids
               PROVE  /\ delivered[id] + reports[id] <= 1
                      /\ reports[id] > 0 \/ (id \in told /\ items[id] # NoApproval) =>
                            \A p \in Pollers : ~Holds(p, id)
    BY Zenon DEF SingleUse
  <2>1. /\ delivered[id] \in Nat /\ reports[id] \in Nat /\ delivered[id] <= 1
        /\ reports[id] <= 1 /\ (delivered[id] = 0 \/ reports[id] = 0)
    BY Zenon DEF Inv, TypeOK, OneCredential, Outcomes, Outcome
  <2>2. reports[id] > 0 => \A p \in Pollers : ~Holds(p, id)
    BY Zenon DEF Outcomes, Outcome, Answered
  <2>3. id \in told /\ items[id] # NoApproval => \A p \in Pollers : ~Holds(p, id)
    BY Zenon DEF Outcomes, Outcome, Refused, Inv, ClaimExclusive
  <2>4. delivered[id] + reports[id] <= 1
    BY <2>1
  <2> QED
    BY Zenon, <2>2, <2>3, <2>4
<1>2. Init => Inv /\ Outcomes
  BY Zenon, InitInv, InitOutcomes
<1>3. Inv /\ Outcomes /\ [Next]_vars => (Inv /\ Outcomes)'
  BY NextInv, NextOutcomes
<1> QED
  BY <1>1, <1>2, <1>3, PTL DEF Spec

-----------------------------------------------------------------------------
(***************************************************************************)
(* Four eyes, the window of an approval and the refinement of              *)
(* ApprovalLifecycle, and how far a row may lag behind its entry when      *)
(* writes of the state db fail.                                            *)
(*                                                                         *)
(* Each step of a handler is a move of the lifecycle or a stutter, and a   *)
(* restart takes a request back only as far as its row lags behind its     *)
(* entry.                                                                  *)
(***************************************************************************)
(* What entry or row a says about the request first registered as o.       *)
Genuine(a, o, t) ==
    /\ a.caller = o.caller /\ a.stripped = o.stripped /\ a.createdAt = o.createdAt
    /\ a.createdAt <= t
    /\ a.learn => ~a.stripped
    /\ a.status = "approved" => a.decidedBy \in Approvers /\ a.decidedBy # a.caller
    /\ a.status = "approved" /\ ~a.consumed =>
          a.decidedAt \in Nat /\ a.decidedAt - a.createdAt \in 0..TTL

(* The row d of entry a lags behind it, by what was not written.  Expiry   *)
(* is never written, and finds the row as overdue as the entry.            *)
Lags(d, a, t) ==
    /\ d.consumed => a.consumed
    /\ a.consumed => d.consumed \/ a.status = "approved"
    /\ a.status = "pending" => d.status = "pending"
    /\ a.status = "approved" => d.status \in {"pending", "approved"}
    /\ a.status = "denied" => d.status \in {"pending", "denied"}
    /\ a.status = "approved" /\ d.status = "approved" => d.decidedAt = a.decidedAt
    /\ a.status = "expired" => Overdue(d, t) /\ ~a.consumed

(* A request: its entry and its row are genuine, a row outlives its entry  *)
(* only when it is too old to be loaded, and otherwise lags behind it.     *)
Request(id) ==
    /\ items[id] # NoApproval => Genuine(items[id], origin[id], now)
    /\ db[id] # NoApproval =>
          /\ StateDB /\ Genuine(db[id], origin[id], now) /\ db[id].status # "expired"
          /\ items[id] = NoApproval => now - db[id].createdAt >= 2 * TTL
          /\ items[id] # NoApproval => Lags(db[id], items[id], now)

Requests == \A id \in Ids : Request(id)

(* Times, apart from the records that hold them.                           *)
LEMMA InWindow ==
    ASSUME NEW t \in Nat, NEW c \in Nat, NEW w \in Nat, c <= t, ~(t - c > w)
    PROVE  t - c \in 0..w
OBVIOUS

LEMMA WindowPassed ==
    ASSUME NEW t \in Nat, NEW c \in Nat, NEW x \in Nat, NEW w \in Nat,
           x - c \in 0..w, t - x > w
    PROVE  t - c > w
OBVIOUS

LEMMA StillEarlier ==
    ASSUME NEW t \in Nat, NEW c \in Nat, c <= t
    PROVE  c <= t + 1
OBVIOUS

LEMMA PendingOverdue ==
    ASSUME NEW a, NEW t, a.status = "pending"
    PROVE  Overdue(a, t) <=> t - a.createdAt > TTL
BY DEF Overdue

LEMMA GenuineMoved ==
    ASSUME NEW e \in Approval, NEW f \in Approval, NEW o, now \in Nat,
           Genuine(e, o, now), Moved(e, f)
    PROVE  Genuine(f, o, now)
<1>0. /\ e.createdAt \in Nat /\ e.status \in Statuses /\ TTL \in Nat
      /\ f.createdAt = e.createdAt
  BY ZenonT(30), RegistryAssumption DEF Approval, Moved
<1>1. CASE f.status # "approved"
  BY Zenon, <1>1 DEF Genuine, Moved
<1>2. CASE f.status = "approved" /\ e.status = "approved"
  BY Zenon, <1>2 DEF Genuine, Moved
<1>3. CASE f.status = "approved" /\ e.status # "approved"
  <2>1. /\ e.status = "pending" /\ f.decidedBy \in Approvers /\ f.decidedBy # f.caller
        /\ f.decidedAt = now
    BY <1>3 DEF Moved
  <2>2. ~f.consumed => now - f.createdAt \in 0..TTL
    <3>1. ~f.consumed => ~Overdue(e, now)
      BY Zenon, <1>3 DEF Moved
    <3>2. e.createdAt <= now
      BY Zenon DEF Genuine
    <3>3. ~f.consumed => ~(now - e.createdAt > TTL)
      BY Zenon, <2>1, <3>1, PendingOverdue
    <3> QED
      BY Zenon, <1>0, <3>2, <3>3, InWindow
  <2> QED
    BY ZenonT(30), <2>1, <2>2 DEF Genuine, Moved
<1> QED
  BY <1>1, <1>2, <1>3

LEMMA LagsMoved ==
    ASSUME NEW d \in Approval, NEW e \in Approval, NEW f \in Approval, NEW o, now \in Nat,
           ~d.issuing, Genuine(d, o, now), Genuine(e, o, now), Lags(d, e, now), Moved(e, f)
    PROVE  Lags(d, f, now)
<1>0. /\ e.createdAt \in Nat /\ d.createdAt = e.createdAt /\ TTL \in Nat
      /\ e.status \in Statuses /\ d.status \in Statuses
  BY Zenon, RegistryAssumption DEF Approval, Genuine
<1>1. f.status = "expired" => Overdue(d, now) /\ ~f.consumed
  <2> SUFFICES ASSUME f.status = "expired" PROVE Overdue(d, now) /\ ~f.consumed
    BY Zenon
  <2>1. CASE e.status = "expired"
    <3>1. Overdue(d, now) /\ ~e.consumed
      BY <2>1 DEF Lags
    <3> QED
      BY Zenon, <3>1 DEF Moved
  <2>2. CASE e.status # "expired"
    <3>1. Overdue(e, now) /\ ~f.consumed
      BY <2>2 DEF Moved
    <3>2. CASE e.status = "pending"
      <4>1. d.status = "pending"
        BY <3>2 DEF Lags
      <4> QED
        BY <1>0, <3>1, <3>2, <4>1 DEF Overdue
    <3>3. CASE e.status = "approved"
      <4>1. ~e.consumed /\ e.decidedAt \in Nat /\ e.decidedAt - e.createdAt \in 0..TTL
        BY <3>1, <3>3 DEF Overdue, Genuine
      <4>2. now - e.decidedAt > TTL
        BY <3>1, <3>3, <4>1, RegistryAssumption DEF Overdue
      <4>3. CASE d.status = "approved"
        <5>1. d.decidedAt = e.decidedAt /\ ~d.consumed
          BY <3>3, <4>1, <4>3 DEF Lags
        <5> QED
          BY Zenon, <3>1, <4>1, <4>2, <4>3, <5>1, RegistryAssumption DEF Overdue
      <4>4. CASE d.status = "pending"
        <5>1. now - d.createdAt > TTL
          BY Zenon, <1>0, <4>1, <4>2, WindowPassed
        <5> QED
          BY Zenon, <3>1, <4>4, <5>1, PendingOverdue
      <4> QED
        BY <3>3, <4>3, <4>4 DEF Lags
    <3> QED
      BY ZenonT(30), <3>1, <3>2, <3>3 DEF Overdue
  <2> QED
    BY <2>1, <2>2
<1>2. f.consumed => d.consumed \/ f.status = "approved"
  BY Zenon DEF Lags, Moved
<1>3. f.status = "approved" => /\ d.status \in {"pending", "approved"}
                               /\ d.status = "approved" => d.decidedAt = f.decidedAt
  <2>1. CASE e.status = "approved"
    <3>1. /\ d.status \in {"pending", "approved"}
          /\ d.status = "approved" => d.decidedAt = e.decidedAt
      BY Zenon, <2>1 DEF Lags
    <3>2. f.status = "approved" => f.decidedAt = e.decidedAt
      BY Zenon, <2>1 DEF Moved
    <3> QED
      BY Zenon, <3>1, <3>2
  <2>2. CASE e.status # "approved"
    <3>1. f.status = "approved" => e.status = "pending"
      BY Zenon, <2>2 DEF Moved
    <3>2. e.status = "pending" => d.status = "pending"
      BY Zenon DEF Lags
    <3> QED
      BY Zenon, <3>1, <3>2
  <2> QED
    BY Zenon, <2>1, <2>2
<1>4. f.status = "denied" => d.status \in {"pending", "denied"}
  BY ZenonT(30) DEF Lags, Moved
<1> QED
  BY Zenon, <1>1, <1>2, <1>3, <1>4 DEF Lags, Moved

(* The row of an entry that moved: kept, marked as consumed, or given the  *)
(* decision.                                                               *)
LEMMA RowKept ==
    ASSUME NEW d \in Approval, NEW r \in Approval, NEW e \in Approval, NEW f \in Approval,
           NEW o, now \in Nat, ~d.issuing, Genuine(d, o, now), Genuine(e, o, now), Lags(d, e, now),
           Moved(e, f), RowMoved(d, r, e, f), d.status # "expired"
    PROVE  Genuine(r, o, now) /\ Lags(r, f, now) /\ r.status # "expired"
<1>0. Genuine(f, o, now) /\ Lags(d, f, now) /\ r # NoApproval
  BY GenuineMoved, LagsMoved, RegistryAssumption
<1>1. CASE r = d
  BY <1>0, <1>1
<1>2. CASE /\ r.caller = d.caller /\ r.stripped = d.stripped /\ r.createdAt = d.createdAt
           /\ r.consumed /\ f.consumed /\ r.status = d.status /\ r.learn = d.learn
           /\ r.decidedBy = d.decidedBy /\ r.decidedAt = d.decidedAt
  <2>1. Genuine(r, o, now)
    BY Zenon, <1>2 DEF Genuine
  <2>2. f.status # "expired"
    BY <1>0, <1>2 DEF Lags
  <2> QED
    BY ZenonT(30), <1>0, <1>2, <2>1, <2>2 DEF Lags
<1>3. CASE /\ r.caller = d.caller /\ r.stripped = d.stripped /\ r.createdAt = d.createdAt
           /\ r.consumed = d.consumed /\ e.status = "pending"
           /\ r.status = f.status /\ r.status \in {"approved", "denied"}
           /\ r.learn = f.learn
           /\ r.decidedBy = f.decidedBy /\ r.decidedAt = f.decidedAt
  <2>1. r.caller = f.caller /\ r.stripped = f.stripped /\ r.createdAt = f.createdAt
    BY ZenonT(30), <1>3 DEF Genuine, Moved
  <2>2. f.consumed /\ ~r.consumed => f.status = "approved" /\ ~e.consumed
    BY Zenon, <1>3 DEF Lags, Moved
  <2>3. r.consumed => f.consumed
    BY <1>0, <1>3 DEF Lags
  <2>4. r.status = "approved" /\ ~r.consumed =>
           r.decidedAt \in Nat /\ r.decidedAt - r.createdAt \in 0..TTL
    <3> SUFFICES ASSUME r.status = "approved", ~r.consumed
                 PROVE  r.decidedAt \in Nat /\ r.decidedAt - r.createdAt \in 0..TTL
      OBVIOUS
    <3>1. ~e.consumed
      BY SMTT(20), <1>3 DEF Lags
    <3>2. f.decidedAt = now /\ ~Overdue(e, now) /\ f.createdAt = e.createdAt
      BY Zenon, <1>3, <3>1 DEF Moved
    <3>3. e.createdAt \in Nat /\ e.createdAt <= now /\ TTL \in Nat
      BY Zenon, RegistryAssumption DEF Approval, Genuine
    <3> QED
      BY <1>3, <2>1, <3>2, <3>3 DEF Overdue
  <2>5. Genuine(r, o, now)
    BY ZenonT(30), <1>0, <1>3, <2>1, <2>4 DEF Genuine
  <2> QED
    BY ZenonT(30), <1>3, <2>2, <2>3, <2>5 DEF Lags
<1> QED
  BY <1>0, <1>1, <1>2, <1>3 DEF RowMoved

LEMMA StepRequest ==
    ASSUME Inv, TypeOK', NEW i \in Ids, Request(i), Step(i), now' = now
    PROVE  Request(i)'
<1>0. /\ items[i] \in Entry /\ items'[i] \in Entry /\ db[i] \in Entry /\ db'[i] \in Entry
      /\ now \in Nat
  BY SMTT(20) DEF Inv, TypeOK, Entry
<1>1. CASE Registered(i)
  <2>1. CASE items'[i] = NoApproval /\ db'[i] = NoApproval
    BY Zenon, <2>1 DEF Request
  <2>2. CASE items'[i] # NoApproval
    <3> DEFINE a == items'[i]
    <3>1. /\ a \in Approval /\ origin'[i] = a /\ a.status = "pending" /\ a.createdAt = now
          /\ ~a.learn /\ ~a.consumed
          /\ db'[i] # NoApproval => StateDB /\ db'[i] = Row(a)
      BY <1>0, <1>1, <2>2 DEF Registered, Entry
    <3> HIDE DEF a
    <3>2. /\ Row(a) # NoApproval /\ Row(a).caller = a.caller /\ Row(a).stripped = a.stripped
          /\ Row(a).createdAt = a.createdAt /\ Row(a).status = a.status
          /\ Row(a).learn = a.learn /\ Row(a).consumed = a.consumed
      BY ZenonT(30), <3>1, RowFacts
    <3>3. Genuine(a, a, now) /\ Genuine(Row(a), a, now)
      BY <1>0, <3>1, <3>2 DEF Genuine
    <3>4. Lags(Row(a), a, now)
      BY Zenon, <3>1, <3>2 DEF Lags
    <3> QED
      BY ZenonT(30), <2>2, <3>1, <3>2, <3>3, <3>4 DEF Request, a
  <2> QED
    BY Zenon, <1>1, <2>1, <2>2 DEF Registered
<1>2. CASE /\ origin'[i] = origin[i]
           /\ \/ items'[i] = items[i]
              \/ items'[i] = NoApproval /\ now - items[i].createdAt > 2 * TTL
              \/ items'[i] # NoApproval /\ items[i] # NoApproval /\ Moved(items[i], items'[i])
           /\ RowMoved(db[i], db'[i], items[i], items'[i])
  <2> DEFINE o == origin[i]
  <2>3. items'[i] # NoApproval =>
           /\ items[i] \in Approval /\ items'[i] \in Approval /\ Moved(items[i], items'[i])
           /\ Genuine(items[i], o, now) /\ Genuine(items'[i], o, now)
    <3> SUFFICES ASSUME items'[i] # NoApproval
                 PROVE  /\ items[i] \in Approval /\ items'[i] \in Approval
                        /\ Moved(items[i], items'[i])
                        /\ Genuine(items[i], o, now) /\ Genuine(items'[i], o, now)
      BY Zenon
    <3>1. items[i] \in Approval /\ items'[i] \in Approval /\ items[i] # NoApproval
      BY ZenonT(30), <1>0, <1>2 DEF Entry
    <3>2. Moved(items[i], items'[i])
      <4>1. CASE items'[i] = items[i]
        BY Zenon, <3>1, <4>1 DEF Moved, Approval
      <4> QED
        BY <1>2, <4>1
    <3>3. Genuine(items[i], o, now)
      BY Zenon, <3>1 DEF Request
    <3> HIDE DEF o
    <3> QED
      BY ZenonT(30), <1>0, <3>1, <3>2, <3>3, GenuineMoved
  <2>4. db'[i] # NoApproval => /\ db[i] \in Approval /\ db'[i] \in Approval /\ db[i] # NoApproval
                               /\ StateDB /\ Genuine(db[i], o, now) /\ db[i].status # "expired"
                               /\ ~db[i].issuing
    BY Zenon, <1>0, <1>2 DEF RowMoved, Entry, Request, Inv, RowsIdle
  <2>5. ASSUME db'[i] # NoApproval, items'[i] # NoApproval
        PROVE  Genuine(db'[i], o, now) /\ Lags(db'[i], items'[i], now) /\ db'[i].status # "expired"
    <3>1. Lags(db[i], items[i], now)
      BY Zenon, <2>3, <2>4, <2>5, RegistryAssumption DEF Request
    <3> HIDE DEF o
    <3> QED
      BY ZenonT(30), <1>0, <1>2, <2>3, <2>4, <2>5, <3>1, RowKept
  <2>6. ASSUME db'[i] # NoApproval, items'[i] = NoApproval
        PROVE  db'[i] = db[i] /\ now - db[i].createdAt >= 2 * TTL
    <3>1. db'[i] = db[i]
      BY Zenon, <1>2, <2>6 DEF RowMoved
    <3>2. CASE items[i] = NoApproval
      BY ZenonT(30), <2>4, <2>6, <3>1, <3>2 DEF Request
    <3>3. CASE items[i] # NoApproval
      <4>1. items[i].createdAt = o.createdAt /\ db[i].createdAt = o.createdAt
            /\ now - items[i].createdAt > 2 * TTL
        BY Zenon, <1>2, <2>4, <2>6, <3>3 DEF Request, Genuine
      <4>2. items[i].createdAt \in Nat /\ TTL \in Nat
        BY ZenonT(30), <1>0, <3>3, RegistryAssumption DEF Entry, Approval
      <4> QED
        BY SMTT(30), <1>0, <3>1, <4>1, <4>2
    <3> QED
      BY Zenon, <3>2, <3>3
  <2>7. items'[i] # NoApproval => Genuine(items'[i], o, now)
    BY Zenon, <2>3
  <2>8. db'[i] # NoApproval => Genuine(db'[i], o, now) /\ db'[i].status # "expired"
    BY ZenonT(30), <2>4, <2>5, <2>6
  <2> QED
    BY Zenon, <1>2, <2>4, <2>5, <2>6, <2>7, <2>8 DEF Request
<1> QED
  BY ZenonT(30), <1>1, <1>2 DEF Step

(* Time makes no entry less genuine and no row less overdue.               *)
LEMMA TickRequest ==
    ASSUME Inv, NEW i \in Ids, Request(i), Tick
    PROVE  Request(i)'
<1>0. items[i] \in Entry /\ db[i] \in Entry /\ now \in Nat /\ TTL \in Nat
  BY RegistryAssumption DEF Inv, TypeOK, Entry
<1>1. now' = now + 1 /\ UNCHANGED <<items, db, origin>>
  BY ZenonT(30) DEF Tick, registryVars
<1>2. ASSUME NEW a \in Approval, NEW o, Genuine(a, o, now) PROVE Genuine(a, o, now + 1)
  <2>1. a.createdAt \in Nat
    BY Zenon DEF Approval
  <2> QED
    BY Zenon, <1>0, <1>2, <2>1, StillEarlier DEF Genuine
<1>3. ASSUME NEW d \in Approval, NEW a \in Approval, Lags(d, a, now) PROVE Lags(d, a, now + 1)
  <2>1. d.createdAt \in Nat /\ d.decidedAt \in Nat \cup {NoTime}
    BY Zenon DEF Approval
  <2>2. Overdue(d, now) => Overdue(d, now + 1)
    BY <1>0, <2>1 DEF Overdue
  <2> QED
    BY <1>3, <2>2 DEF Lags
<1>4. db[i] # NoApproval /\ now - db[i].createdAt >= 2 * TTL =>
         (now + 1) - db[i].createdAt >= 2 * TTL
  <2>1. db[i] # NoApproval => db[i].createdAt \in Nat
    BY Zenon, <1>0 DEF Entry, Approval
  <2> QED
    BY <1>0, <2>1
<1>5. items[i] # NoApproval => Genuine(items[i], origin[i], now + 1)
  BY ZenonT(30), <1>0, <1>2 DEF Request, Entry
<1>6. db[i] # NoApproval =>
         /\ Genuine(db[i], origin[i], now + 1)
         /\ items[i] # NoApproval => Lags(db[i], items[i], now + 1)
  BY <1>0, <1>2, <1>3 DEF Request, Entry
<1> DEFINE t == now + 1
<1>7. now' = t /\ items'[i] = items[i] /\ db'[i] = db[i] /\ origin'[i] = origin[i]
  BY <1>1
<1>8. db[i] # NoApproval =>
         /\ StateDB /\ db[i].status # "expired"
         /\ items[i] = NoApproval => t - db[i].createdAt >= 2 * TTL
  <2>1. db[i] # NoApproval =>
           /\ StateDB /\ db[i].status # "expired"
           /\ items[i] = NoApproval => now - db[i].createdAt >= 2 * TTL
    BY ZenonT(30) DEF Request
  <2> QED
    BY Zenon, <1>4, <2>1
<1>9. /\ items[i] # NoApproval => Genuine(items[i], origin[i], t)
      /\ db[i] # NoApproval =>
            /\ Genuine(db[i], origin[i], t)
            /\ items[i] # NoApproval => Lags(db[i], items[i], t)
  BY <1>5, <1>6
<1> HIDE DEF t
<1> QED
  BY Zenon, <1>7, <1>8, <1>9 DEF Request

(* A restart makes the row the entry, expired if it is overdue.            *)
LEMMA RestartRequest ==
    ASSUME Inv, TypeOK', NEW i \in Ids, Request(i), Restart
    PROVE  Request(i)'
<1> DEFINE d == db[i]
<1>0. now \in Nat /\ now' = now /\ origin' = origin
  BY RestartFacts DEF Inv, TypeOK
<1>1. CASE db'[i] # NoApproval
  <2>1. db'[i] = d /\ d # NoApproval /\ d \in Approval /\ ~d.issuing
    BY Zenon, <1>1, RestartFacts DEF PurgedRow, Inv, TypeOK, RowsIdle
  <2>2. StateDB /\ Genuine(d, origin[i], now) /\ d.status # "expired"
    BY Zenon, <2>1 DEF Request
  <2>3. CASE items'[i] = NoApproval
    <3>1. now - d.createdAt >= 2 * TTL
      BY Zenon, <2>1, <2>2, <2>3, RestartFacts
    <3> QED
      BY Zenon, <1>0, <1>1, <2>1, <2>2, <2>3, <3>1 DEF Request
  <2>4. CASE items'[i] # NoApproval
    <3>1. items'[i] = expireLocked(d, now) /\ items'[i] \in Approval
      BY ZenonT(30), <2>4, RestartFacts
    <3>2. Moved(d, items'[i])
      BY Zenon, <1>0, <2>1, <3>1, ExpireMoved
    <3>3. Lags(d, d, now)
      BY Zenon, <2>1, <2>2 DEF Lags, Approval, Statuses
    <3> HIDE DEF d
    <3>4. Genuine(items'[i], origin[i], now) /\ Lags(d, items'[i], now)
      BY Zenon, <1>0, <2>1, <2>2, <3>1, <3>2, <3>3, GenuineMoved, LagsMoved
    <3> QED
      BY Zenon, <1>0, <1>1, <2>1, <2>2, <2>4, <3>4 DEF Request
  <2> QED
    BY Zenon, <2>3, <2>4
<1>2. CASE db'[i] = NoApproval
  <2>1. CASE items'[i] = NoApproval
    BY Zenon, <1>2, <2>1 DEF Request
  <2>2. CASE items'[i] # NoApproval
    <3>1. /\ items'[i] = expireLocked(d, now) /\ items'[i] \in Approval
          /\ d \in Approval /\ d # NoApproval
      BY Zenon, <2>2, RestartFacts
    <3>2. Moved(d, items'[i]) /\ Genuine(d, origin[i], now)
      BY Zenon, <1>0, <3>1, ExpireMoved DEF Request
    <3> HIDE DEF d
    <3>3. Genuine(items'[i], origin[i], now)
      BY Zenon, <1>0, <3>1, <3>2, GenuineMoved
    <3> QED
      BY Zenon, <1>0, <1>2, <3>3 DEF Request
  <2> QED
    BY <2>1, <2>2
<1> QED
  BY ZenonT(30), <1>1, <1>2

LEMMA InitRequests == Init => Requests
BY DEF Init, Requests, Request

LEMMA SameTime ==
    ASSUME [Next]_vars, ~Restart, ~Tick
    PROVE  now' = now
<1>1. ASSUME NEW p \in Pollers, PollStep(p) PROVE now' = now
  BY ZenonT(30), <1>1 DEF PollStep, PollReport, PollClaim, PollForward, PollGate, PollFinish
<1>2. ASSUME NEW p \in Pollers, NEW cn \in CNs, NEW id \in Ids, PollGet(p, cn, id)
      PROVE  now' = now
  BY <1>2 DEF PollGet
<1>3. ASSUME NEW s \in Signers, NEW cn \in CNs, NEW u \in EndUsers \cup {""},
             NEW h \in Hosts, NEW c \in Cmds, handleSign(s, cn, u, h, c)
      PROVE  now' = now
  BY Zenon, <1>3 DEF handleSign
<1>3a. ASSUME NEW s \in Signers, SignAnswer(s)
       PROVE  now' = now
  BY Zenon, <1>3a DEF SignAnswer
<1>4. ASSUME NEW cn \in Approvers, NEW id \in Ids, NEW approve \in BOOLEAN,
             NEW learn \in BOOLEAN, handleApprovalDecide(cn, id, approve, learn)
      PROVE  now' = now
  BY <1>4 DEF handleApprovalDecide
<1>5. CASE (\E cn \in Approvers : DecideGate(cn)) \/ List \/ UNCHANGED vars
  BY <1>5 DEF DecideGate, List, vars
<1> QED
  BY Zenon, <1>1, <1>2, <1>3, <1>3a, <1>4, <1>5 DEF Next

LEMMA NextRequests ==
    ASSUME Inv, Inv', Requests, [Next]_vars
    PROVE  Requests'
<1>1. ASSUME NEW i \in Ids PROVE Request(i)'
  <2>0. Request(i) /\ TypeOK'
    BY DEF Requests, Inv
  <2>1. CASE Restart
    BY <2>0, <2>1, RestartRequest
  <2>2. CASE Tick
    BY <2>0, <2>2, TickRequest
  <2>3. CASE ~Restart /\ ~Tick
    <3>1. now' = now /\ restarts' = restarts
      BY <2>3, SameTime, SameLife
    <3>2. Step(i)
      BY Zenon, <3>1, Steps
    <3> QED
      BY <2>0, <3>1, <3>2, StepRequest
  <2> QED
    BY <2>1, <2>2, <2>3
<1> QED
  BY <1>1 DEF Requests
-----------------------------------------------------------------------------
(* A decision that is being redeemed, or was, names an approver who is not *)
(* the broker that asked; and a credential has its record.                 *)
ByAnother(cn, id) == cn \in Approvers /\ cn # origin[id].caller

Attributed ==
    /\ \A p \in Pollers : poll[p].pc \notin {"idle", "report"} => ByAnother(poll[p].by, poll[p].id)
    /\ \A r \in granted : origin[r[1]] # NoApproval /\ ByAnother(r[2], r[1])
    /\ FailClosed => \A id \in Ids : delivered[id] > 0 => \E r \in granted : r[1] = id

(* A step that takes no snapshot and writes no record.                     *)
LEMMA QuietAttributed ==
    ASSUME Inv, Attributed, granted' = granted, delivered' = delivered,
           \A i \in Ids : origin[i] # NoApproval => origin'[i] = origin[i],
           \A p \in Pollers : poll'[p].pc \notin {"idle", "report"} =>
              /\ poll[p].pc \notin {"idle", "report"}
              /\ poll'[p].by = poll[p].by /\ poll'[p].id = poll[p].id
    PROVE  Attributed'
<1>1. \A p \in Pollers : poll[p].pc # "idle" => poll[p].id \in Ids /\ origin[poll[p].id] # NoApproval
  BY Zenon DEF Inv, Known
<1>2. \A r \in granted : r[1] \in Ids
  BY DEF Inv, TypeOK
<1> QED
  <2>1. ASSUME NEW p \in Pollers, poll'[p].pc \notin {"idle", "report"}
        PROVE  ByAnother(poll[p].by, poll[p].id)'
    <3>1. /\ poll[p].pc \notin {"idle", "report"}
          /\ poll'[p].by = poll[p].by /\ poll'[p].id = poll[p].id
      BY <2>1
    <3>2. ByAnother(poll[p].by, poll[p].id) /\ origin'[poll[p].id] = origin[poll[p].id]
      BY Zenon, <1>1, <3>1 DEF Attributed
    <3> QED
      BY ZenonT(30), <3>1, <3>2 DEF ByAnother
  <2>2. ASSUME NEW r \in granted'
        PROVE  origin'[r[1]] # NoApproval /\ ByAnother(r[2], r[1])'
    BY ZenonT(30), <1>2 DEF Attributed, ByAnother
  <2> QED
    BY Zenon, <2>1, <2>2 DEF Attributed

LEMMA InitAttributed == Init => Attributed
BY DEF Init, Attributed, IdlePoll

LEMMA GetAttributed ==
    ASSUME Inv, Inv', Attributed, Requests', NEW p \in Pollers, NEW cn \in CNs, NEW id \in Ids,
           PollGet(p, cn, id)
    PROVE  Attributed'
<1> DEFINE a == expireLocked(items[id], now)
<1>1. /\ items' = [items EXCEPT ![id] = a] /\ a # NoApproval
      /\ UNCHANGED <<delivered, granted, origin>> /\ poll \in [Pollers -> Poll]
      /\ \/ poll' = poll
         \/ poll' = [poll EXCEPT ![p] =
                       [pc |-> IF a.status = "approved" THEN "claim" ELSE "report",
                        id |-> id, by |-> a.decidedBy, ok |-> FALSE]]
  BY Zenon DEF PollGet, outcomeVars, Inv, TypeOK
<1>2. items'[id] = a
  BY Zenon, <1>1 DEF Inv, TypeOK
<1> HIDE DEF a
<1>3. a.status = "approved" => ByAnother(a.decidedBy, id)
  <2>1. Genuine(items'[id], origin'[id], now')
    BY Zenon, <1>1, <1>2 DEF Requests, Request
  <2>2. Genuine(a, origin[id], now')
    BY ZenonT(30), <1>1, <1>2, <2>1
  <2> QED
    BY Zenon, <2>2 DEF Genuine, ByAnother
<1>4. \A q \in Pollers :
         \/ poll'[q] = poll[q]
         \/ poll'[q].pc = "report"
         \/ a.status = "approved" /\ poll'[q].id = id /\ poll'[q].by = a.decidedBy
  BY <1>1
<1> QED
  BY ZenonT(30), <1>1, <1>3, <1>4 DEF Attributed, ByAnother

LEMMA GateAttributed ==
    ASSUME Inv, Attributed, NEW p \in Pollers, PollGate(p)
    PROVE  Attributed'
<1> PICK id \in Ids : poll[p].id = id
  BY DEF PollGate, Inv, Known
<1> PICK ok \in AuditOutcomes :
      /\ granted' = IF ok THEN granted \cup {<<id, poll[p].by>>} ELSE granted
      /\ IF auditGate(ok)
         THEN /\ delivered' = [delivered EXCEPT ![id] = @ + 1]
              /\ poll' = [poll EXCEPT ![p].pc = "finish", ![p].ok = TRUE]
         ELSE /\ poll' = [poll EXCEPT ![p].pc = "finish"]
              /\ UNCHANGED delivered
  BY DEF PollGate
<1>0. /\ poll[p].pc = "gate" /\ poll \in [Pollers -> Poll] /\ poll[p] \in Poll
      /\ delivered \in [Ids -> Nat] /\ origin' = origin /\ origin[id] # NoApproval
  BY DEF PollGate, Inv, TypeOK, Known
<1>1. ByAnother(poll[p].by, id)
  BY <1>0 DEF Attributed
<1>2. /\ \A q \in Pollers : q # p => poll'[q] = poll[q]
      /\ poll'[p].by = poll[p].by /\ poll'[p].id = id
  BY <1>0 DEF Poll
<1>3. \A q \in Pollers : poll'[q].pc \notin {"idle", "report"} =>
         ByAnother(poll'[q].by, poll'[q].id)
  BY <1>0, <1>1, <1>2 DEF Attributed
<1>4. \A r \in granted' : origin[r[1]] # NoApproval /\ ByAnother(r[2], r[1])
  BY <1>0, <1>1 DEF Attributed
<1>5. FailClosed => \A i \in Ids : delivered'[i] > 0 => \E r \in granted' : r[1] = i
  <2> SUFFICES ASSUME FailClosed, NEW i \in Ids, delivered'[i] > 0
               PROVE  \E r \in granted' : r[1] = i
    OBVIOUS
  <2>1. CASE delivered[i] > 0
    BY <2>1 DEF Attributed
  <2>2. CASE ~(delivered[i] > 0)
    <3>1. auditGate(ok) /\ i = id
      BY <1>0, <2>2
    <3>2. ok
      BY <3>1 DEF auditGate
    <3>3. <<id, poll[p].by>> \in granted'
      BY <3>2
    <3> QED
      BY <3>1, <3>3
  <2> QED
    BY <2>1, <2>2
<1> QED
  BY Zenon, <1>0, <1>3, <1>4, <1>5 DEF Attributed, ByAnother

LEMMA NextAttributed ==
    ASSUME Inv, Inv', Attributed, Requests', [Next]_vars
    PROVE  Attributed'
<1>1. CASE Restart
  <2>1. /\ granted' = granted /\ origin' = origin
        /\ \A p \in Pollers : poll'[p].pc = "idle"
        /\ \A id \in Ids : delivered'[id] = 0
    BY <1>1 DEF Restart, IdlePoll
  <2> QED
    BY SMTT(20), <2>1 DEF Attributed, ByAnother
<1>2. CASE ~Restart
  <2>0. \A i \in Ids : origin[i] # NoApproval => origin'[i] = origin[i]
    BY ZenonT(30), <1>2, SameLife, Steps DEF Step, Registered
  <2>1. CASE poll' = poll /\ granted' = granted /\ delivered' = delivered
    BY <2>0, <2>1, QuietAttributed
  <2>2. ASSUME NEW p \in Pollers, NEW cn \in CNs, NEW id \in Ids, PollGet(p, cn, id)
        PROVE  Attributed'
    BY Zenon, <2>2, GetAttributed
  <2>3. ASSUME NEW p \in Pollers, PollReport(p) \/ PollClaim(p) \/ PollForward(p) \/ PollFinish(p)
        PROVE  Attributed'
    <3>1. granted' = granted /\ delivered' = delivered
      BY Zenon, <2>3 DEF PollReport, PollClaim, PollForward, PollFinish, outcomeVars
    <3>2. poll \in [Pollers -> Poll] /\ poll[p] \in Poll
      BY ZenonT(30) DEF Inv, TypeOK
    <3>3. poll[p].pc \notin {"idle", "report"} \/ poll' = [poll EXCEPT ![p] = IdlePoll]
      BY <2>3 DEF PollReport, PollClaim, PollForward, PollFinish
    <3>4. \/ poll' = [poll EXCEPT ![p] = IdlePoll]
          \/ \E pc \in PollStates : poll' = [poll EXCEPT ![p].pc = pc]
      <4>1. CASE PollReport(p) \/ PollFinish(p)
        BY <4>1 DEF PollReport, PollFinish
      <4>2. CASE PollClaim(p)
        BY Zenon, <4>2, "forward" \in PollStates DEF PollClaim, PollStates
      <4>3. CASE PollForward(p)
        BY Zenon, <4>3, "finish" \in PollStates, "gate" \in PollStates DEF PollForward, PollStates
      <4> QED
        BY ZenonT(30), <2>3, <4>1, <4>2, <4>3
    <3>5. \A q \in Pollers : poll'[q].pc \notin {"idle", "report"} =>
             /\ poll[q].pc \notin {"idle", "report"}
             /\ poll'[q].by = poll[q].by /\ poll'[q].id = poll[q].id
      BY <3>2, <3>3, <3>4 DEF IdlePoll, Poll
    <3> QED
      BY Zenon, <2>0, <3>1, <3>5, QuietAttributed
  <2>4. ASSUME NEW p \in Pollers, PollGate(p) PROVE Attributed'
    BY <2>4, GateAttributed
  <2>5. ASSUME NEW s \in Signers, NEW cn \in CNs, NEW u \in EndUsers \cup {""},
               NEW h \in Hosts, NEW c \in Cmds, handleSign(s, cn, u, h, c)
        PROVE  Attributed'
    BY Zenon, <2>1, <2>5 DEF handleSign, outcomeVars
  <2>5a. ASSUME NEW s \in Signers, SignAnswer(s)
         PROVE  Attributed'
    BY Zenon, <2>1, <2>5a DEF SignAnswer, outcomeVars
  <2>6. ASSUME NEW cn \in Approvers, NEW id \in Ids, NEW approve \in BOOLEAN,
               NEW learn \in BOOLEAN, handleApprovalDecide(cn, id, approve, learn)
        PROVE  Attributed'
    BY ZenonT(30), <2>1, <2>6 DEF handleApprovalDecide, outcomeVars
  <2>7. CASE (\E cn \in Approvers : DecideGate(cn)) \/ List \/ Tick \/ UNCHANGED vars
    BY <2>1, <2>7 DEF DecideGate, List, Tick, outcomeVars, vars
  <2> QED
    BY Zenon, <1>2, <2>2, <2>3, <2>4, <2>5, <2>5a, <2>6, <2>7 DEF Next, PollStep
<1> QED
  BY ZenonT(30), <1>1, <1>2
-----------------------------------------------------------------------------
(* Four eyes, for every set of ids, polls, approvers and brokers: who may  *)
(* decide is checked against the entry when the decision is taken          *)
(* (handleApprovalDecide), and the record names the decision of the        *)
(* snapshot that was redeemed, however the registry changed in between.    *)
THEOREM FourEyesHolds == Spec => []FourEyes
<1>1. Inv /\ Requests /\ Attributed => FourEyes
  <2> SUFFICES ASSUME Inv, Requests, Attributed PROVE FourEyes
    BY Zenon
  <2>1. \A r \in granted : r[2] \in Approvers /\ r[2] # origin[r[1]].caller
    BY ZenonT(30) DEF Attributed, ByAnother
  <2>2. \A id \in Ids : items[id] # NoApproval /\ items[id].learn => ~origin[id].stripped
    BY Zenon DEF Requests, Request, Genuine
  <2> QED
    BY Zenon, <2>1, <2>2 DEF FourEyes, Attributed
<1>2. Init => Inv /\ Requests /\ Attributed
  BY InitInv, InitRequests, InitAttributed
<1>3. Inv /\ Requests /\ Attributed /\ [Next]_vars => (Inv /\ Requests /\ Attributed)'
  BY NextInv, NextRequests, NextAttributed
<1> QED
  BY <1>1, <1>2, <1>3, PTL DEF Spec

(* The window of an approval, for every TTL and every bound on the clock:  *)
(* BeginConsume starts only what expireLocked leaves approved, so a claim  *)
(* comes at most TTL after the decision and 2 TTL after the request.       *)
THEOREM RedeemWindowHolds == Spec => RedeemWindow
<1>1. Inv /\ Requests /\ Inv' /\ [Next]_vars =>
         [\A id \in Ids : Claims(id) => /\ now - items[id].decidedAt <= TTL
                                        /\ now - items[id].createdAt <= 2 * TTL]_vars
  <2> SUFFICES ASSUME Inv, Requests, Inv', [Next]_vars, NEW id \in Ids, Claims(id)
               PROVE  /\ now - items[id].decidedAt <= TTL
                      /\ now - items[id].createdAt <= 2 * TTL
    BY ZenonT(30)
  <2>1. ~Restart
    <3> SUFFICES ASSUME Restart PROVE FALSE
      BY ZenonT(30)
    <3>1. /\ db[id] \in Approval /\ db[id] # NoApproval /\ now \in Nat
          /\ items'[id] = expireLocked(db[id], now) /\ items'[id].issuing
      BY RestartFacts DEF Claims, Inv, TypeOK
    <3>2. expireLocked(db[id], now).issuing = db[id].issuing
      BY Zenon, <3>1 DEF expireLocked, Approval
    <3> QED
      BY Zenon, <3>1, <3>2 DEF Inv, RowsIdle
  <2> DEFINE e == items[id]
  <2>2. e \in Approval /\ now \in Nat /\ TTL \in Nat
    BY Zenon, RegistryAssumption DEF Claims, Inv, TypeOK
  <2>3. Moved(e, items'[id])
    BY ZenonT(30), <2>1, SameLife, Steps DEF Step, Registered, Claims
  <2>4. e.status = "approved" /\ ~e.consumed /\ ~e.issuing /\ ~Overdue(e, now)
    BY ZenonT(30), <2>3 DEF Moved, Claims
  <2>5. e.decidedAt \in Nat /\ e.decidedAt - e.createdAt \in 0..TTL
    BY Zenon, <2>4 DEF Requests, Request, Genuine, Claims
  <2>6. e.createdAt \in Nat
    BY Zenon, <2>2 DEF Approval
  <2> HIDE DEF e
  <2>7. now - e.decidedAt <= TTL
    <3>1. e.decidedAt # NoTime
      BY <2>5, RegistryAssumption
    <3> QED
      BY <2>2, <2>4, <2>5, <3>1 DEF Overdue
  <2>8. now - e.createdAt <= 2 * TTL
    BY <2>2, <2>5, <2>6, <2>7
  <2> QED
    BY Zenon, <2>7, <2>8 DEF e
<1>2. Init => Inv /\ Requests
  BY InitInv, InitRequests
<1>3. Inv /\ Requests /\ [Next]_vars => (Inv /\ Requests)'
  BY NextInv, NextRequests
<1> QED
  BY <1>1, <1>2, <1>3, PTL DEF Spec, RedeemWindow
-----------------------------------------------------------------------------
Held(id) == \E p \in Pollers : Holds(p, id)

(* The state of a request that no poll holds.                              *)
EntryState(id) ==
    IF items[id] # NoApproval THEN IF items[id].consumed THEN "redeemed" ELSE items[id].status
    ELSE IF origin[id] = NoApproval THEN "none" ELSE "gone"

(* A poll that will burn its approval has handed out the credential.       *)
Paid == \A p \in Pollers : poll[p].ok => poll[p].pc = "finish" /\ delivered[poll[p].id] > 0

(* lifecycle, read case by case.                                           *)
Reading ==
    \A id \in Ids :
        /\ delivered[id] \in {0, 1}
        /\ delivered[id] = 1 => lifecycle[id] = "redeemed"
        /\ delivered[id] = 0 /\ Held(id) => lifecycle[id] = "claimed"
        /\ delivered[id] = 0 /\ ~Held(id) => lifecycle[id] = EntryState(id)

LEMMA LifecycleOf == Inv => Reading
<1> SUFFICES ASSUME Inv, NEW id \in Ids
             PROVE  /\ delivered[id] \in {0, 1}
                    /\ delivered[id] = 1 => lifecycle[id] = "redeemed"
                    /\ delivered[id] = 0 /\ Held(id) => lifecycle[id] = "claimed"
                    /\ delivered[id] = 0 /\ ~Held(id) => lifecycle[id] = EntryState(id)
  BY DEF Reading
<1>1. delivered[id] \in {0, 1}
  BY DEF Inv, TypeOK, OneCredential
<1>2. lifecycle[id] = CASE delivered[id] > 1 -> "overused"
                        [] delivered[id] = 1 -> "redeemed"
                        [] delivered[id] = 0 /\ Held(id) -> "claimed"
                        [] OTHER -> EntryState(id)
  BY ZenonT(30) DEF lifecycle, Held, EntryState
<1> QED
  BY SMTT(20), <1>1, <1>2

LEMMA LifecycleOfNext == Inv' => Reading'
BY LifecycleOf, PTL

(* The moves and the states of the lifecycle, one by one.                  *)
LEMMA MovesAre ==
    /\ <<"none", "pending">> \in Lifecycle!Moves
    /\ <<"pending", "approved">> \in Lifecycle!Moves
    /\ <<"pending", "denied">> \in Lifecycle!Moves
    /\ <<"pending", "expired">> \in Lifecycle!Moves
    /\ <<"approved", "claimed">> \in Lifecycle!Moves
    /\ <<"approved", "expired">> \in Lifecycle!Moves
    /\ <<"claimed", "approved">> \in Lifecycle!Moves
    /\ <<"claimed", "redeemed">> \in Lifecycle!Moves
    /\ <<"claimed", "gone">> \in Lifecycle!Moves
    /\ \A s \in {"pending", "approved", "denied", "expired", "redeemed"} :
          <<s, "gone">> \in Lifecycle!Moves
BY Zenon DEF Lifecycle!Moves

LEMMA StatesAre ==
    {"none", "pending", "approved", "denied", "expired", "claimed", "redeemed", "gone"}
        \subseteq Lifecycle!States
<1>1. ASSUME NEW s, NEW t, <<s, t>> \in Lifecycle!Moves
      PROVE  s \in Lifecycle!States /\ t \in Lifecycle!States
  <2>1. <<s, t>>[1] = s /\ <<s, t>>[2] = t
    OBVIOUS
  <2> QED
    BY <1>1, <2>1 DEF Lifecycle!States
<1> QED
  BY ZenonT(30), <1>1, MovesAre

InStates == \A id \in Ids : lifecycle[id] \in Lifecycle!States

LEMMA AlwaysInStates == Inv => InStates
<1> SUFFICES ASSUME Inv, NEW id \in Ids PROVE lifecycle[id] \in Lifecycle!States
  BY DEF InStates
<1>1. EntryState(id) \in {"none", "pending", "approved", "denied", "expired", "redeemed", "gone"}
  BY Zenon DEF EntryState, Inv, TypeOK, Approval, Statuses
<1> QED
  BY <1>1, LifecycleOf, StatesAre DEF Reading

LEMMA NextInStates == Inv' => InStates'
BY AlwaysInStates, PTL
-----------------------------------------------------------------------------
MovesOrStays(i) ==
    lifecycle'[i] = lifecycle[i] \/ <<lifecycle[i], lifecycle'[i]>> \in Lifecycle!Moves

(* A step that takes or drops no claim and hands out no credential.        *)
LEMMA QuietMoves ==
    ASSUME Inv, Inv', NEW i \in Ids, Step(i), delivered'[i] = delivered[i],
           Held(i)' <=> Held(i)
    PROVE  MovesOrStays(i)
<1>1. CASE delivered[i] = 1 \/ Held(i)
  BY <1>1, LifecycleOf, LifecycleOfNext DEF Reading, MovesOrStays
<1>2. CASE delivered[i] # 1 /\ ~Held(i)
  <2>1. lifecycle[i] = EntryState(i) /\ lifecycle'[i] = EntryState(i)'
    BY Zenon, <1>2, LifecycleOf, LifecycleOfNext DEF Reading
  <2>2. /\ items[i] # NoApproval => items[i].status \in Statuses /\ origin[i] # NoApproval
        /\ items'[i] # NoApproval => items'[i].status \in Statuses
        /\ items[i] # NoApproval => ~items[i].issuing
    <3>1. /\ items[i] # NoApproval => items[i].status \in Statuses
          /\ items'[i] # NoApproval => items'[i].status \in Statuses
      BY Zenon DEF Inv, TypeOK, Approval
    <3>2. items[i] # NoApproval => origin[i] # NoApproval
      BY Zenon DEF Inv, Known
    <3>3. items[i] # NoApproval => ~items[i].issuing
      BY Zenon, <1>2 DEF Inv, NoOrphanClaim, Held
    <3> QED
      BY Zenon, <3>1, <3>2, <3>3
  <2>3. CASE Registered(i)
    BY Zenon, <2>1, <2>2, <2>3, MovesAre DEF Registered, EntryState, MovesOrStays
  <2>4. CASE origin'[i] = origin[i] /\ items'[i] = items[i]
    BY Zenon, <2>1, <2>4 DEF EntryState, MovesOrStays
  <2>5. CASE origin'[i] = origin[i] /\ items[i] # NoApproval /\ items'[i] = NoApproval
    <3>1. EntryState(i)' = "gone"
      BY Zenon, <2>2, <2>5 DEF EntryState
    <3>2. EntryState(i) \in {"pending", "approved", "denied", "expired", "redeemed"}
      BY Zenon, <2>2, <2>5 DEF EntryState, Statuses
    <3> QED
      BY Zenon, <2>1, <3>1, <3>2, MovesAre DEF MovesOrStays
  <2>6. CASE /\ items[i] # NoApproval /\ items'[i] # NoApproval
             /\ Moved(items[i], items'[i])
    <3>1. items'[i].consumed <=> items[i].consumed
      BY Zenon, <2>2, <2>6 DEF Moved
    <3>2. CASE items[i].consumed
      BY Zenon, <2>1, <2>6, <3>1, <3>2 DEF EntryState, MovesOrStays
    <3>3. CASE ~items[i].consumed
      <4>1. EntryState(i) = items[i].status /\ EntryState(i)' = items'[i].status
        BY Zenon, <2>6, <3>1, <3>3 DEF EntryState
      <4>2. \/ items'[i].status = items[i].status
            \/ items[i].status = "pending" /\ items'[i].status \in {"approved", "denied", "expired"}
            \/ items[i].status = "approved" /\ items'[i].status = "expired"
        BY Zenon, <2>2, <2>6 DEF Moved, Statuses, Refused
      <4> QED
        BY Zenon, <2>1, <4>1, <4>2, MovesAre DEF MovesOrStays
    <3> QED
      BY Zenon, <3>2, <3>3
  <2> QED
    BY Zenon, <2>3, <2>4, <2>5, <2>6 DEF Step
<1> QED
  BY ZenonT(30), <1>1, <1>2
(* BeginConsume takes an approved request to claimed.                      *)
LEMMA ClaimMoves ==
    ASSUME Inv, Inv', NEW p \in Pollers, PollClaim(p), NEW i \in Ids, Step(i)
    PROVE  MovesOrStays(i)
<1> PICK id \in Ids : poll[p].id = id
  BY Zenon DEF PollClaim, Inv, Known
<1> DEFINE a == expireLocked(items[id], now)
<1>0. /\ poll[p].pc = "claim" /\ poll \in [Pollers -> Poll] /\ delivered' = delivered
      /\ poll' = [poll EXCEPT ![p] = IF Startable(a) THEN [@ EXCEPT !.pc = "forward"]
                                     ELSE IdlePoll]
  BY DEF PollClaim, Inv, TypeOK
<1>1. CASE i = id /\ Startable(a)
  <2>1. Holds(p, id)'
    BY Zenon, <1>0, <1>1 DEF Holds, Poll
  <2>2. items[i] # NoApproval /\ items[i].status = "approved" /\ ~items[i].consumed
    <3>1. a # NoApproval /\ a.status = "approved" /\ ~a.consumed
      BY Zenon, <1>1 DEF Startable
    <3>2. items[id] \in Approval /\ items[id] # NoApproval /\ now \in Nat
      BY <3>1 DEF expireLocked, Inv, TypeOK
    <3>3. a = items[id]
      BY ZenonT(30), <3>1, <3>2, ExpireMoves
    <3> QED
      BY Zenon, <1>1, <3>1, <3>3
  <2>3. EntryState(i) = "approved" /\ Held(i)'
    BY <1>1, <2>1, <2>2 DEF EntryState, Held
  <2> HIDE DEF a
  <2> QED
    BY Zenon, <1>0, <2>3, LifecycleOf, LifecycleOfNext, MovesAre DEF Reading, MovesOrStays
<1>2. CASE i # id \/ ~Startable(a)
  <2>1. \A q \in Pollers : Holds(q, i)' <=> Holds(q, i)
    BY Zenon, <1>0, <1>2 DEF Holds, Poll, IdlePoll
  <2> QED
    BY Zenon, <1>0, <2>1, QuietMoves DEF Held
<1> QED
  BY Zenon, <1>1, <1>2

(* The answer with the credential takes a claimed request to redeemed.     *)
LEMMA GateMoves ==
    ASSUME Inv, Inv', NEW p \in Pollers, PollGate(p), NEW i \in Ids, Step(i)
    PROVE  MovesOrStays(i)
<1> PICK id \in Ids : poll[p].id = id
  BY Zenon DEF PollGate, Inv, Known
<1>0. /\ poll[p].pc = "gate" /\ poll \in [Pollers -> Poll] /\ delivered \in [Ids -> Nat]
      /\ delivered' = delivered \/ delivered' = [delivered EXCEPT ![id] = @ + 1]
      /\ \/ poll' = [poll EXCEPT ![p].pc = "finish", ![p].ok = TRUE]
         \/ poll' = [poll EXCEPT ![p].pc = "finish"]
  BY DEF PollGate, Inv, TypeOK
<1>1. \A q \in Pollers : Holds(q, i)' <=> Holds(q, i)
  BY <1>0 DEF Holds, Poll
<1>2. CASE delivered'[i] = delivered[i]
  BY Zenon, <1>1, <1>2, QuietMoves DEF Held
<1>3. CASE delivered'[i] # delivered[i]
  <2>1. i = id /\ delivered'[i] = delivered[i] + 1
    BY Zenon, <1>0, <1>3
  <2>2. delivered[i] = 0 /\ delivered'[i] = 1
    BY <1>0, <2>1, LifecycleOf, LifecycleOfNext DEF Reading
  <2>3. Held(i)
    BY Zenon, <1>0, <2>1 DEF Held, Holds
  <2> QED
    BY Zenon, <2>2, <2>3, LifecycleOf, LifecycleOfNext, MovesAre DEF Reading, MovesOrStays
<1> QED
  BY Zenon, <1>2, <1>3

LEMMA FinishStays ==
    ASSUME NEW a \in Entry, NEW ok \in BOOLEAN, a # NoApproval
    PROVE  FinishConsume(a, ok) # NoApproval
BY Zenon, ConsumeFacts

(* FinishConsume gives back an approval that was not used, unless it was   *)
(* purged in the meantime.                                                 *)
LEMMA FinishMoves ==
    ASSUME Inv, Inv', Paid, NEW p \in Pollers, PollFinish(p), NEW i \in Ids, Step(i)
    PROVE  MovesOrStays(i)
<1> PICK id \in Ids : poll[p].id = id
  BY Zenon DEF PollFinish, Inv, Known
<1>0. /\ poll[p].pc = "finish" /\ poll \in [Pollers -> Poll] /\ delivered' = delivered
      /\ poll' = [poll EXCEPT ![p] = IdlePoll] /\ origin' = origin /\ origin[id] # NoApproval
      /\ items' = [items EXCEPT ![id] = FinishConsume(@, poll[p].ok)]
  BY Zenon DEF PollFinish, Inv, TypeOK, Known, outcomeVars
<1>1. CASE i # id \/ delivered[i] = 1
  <2>1. CASE i # id
    <3>1. \A q \in Pollers : Holds(q, i)' <=> Holds(q, i)
      BY Zenon, <1>0, <2>1 DEF Holds, Poll, IdlePoll
    <3> QED
      BY Zenon, <1>0, <3>1, QuietMoves DEF Held
  <2>2. CASE delivered[i] = 1
    BY Zenon, <1>0, <2>2, LifecycleOf, LifecycleOfNext DEF Reading, MovesOrStays
  <2> QED
    BY Zenon, <1>1, <2>1, <2>2
<1>2. CASE i = id /\ delivered[i] # 1
  <2>1. delivered[i] = 0 /\ delivered'[i] = 0
    BY Zenon, <1>0, <1>2, LifecycleOf DEF Reading
  <2>2. Holds(p, id) /\ lifecycle[i] = "claimed"
    BY ZenonT(30), <1>0, <1>2, <2>1, LifecycleOf DEF Reading, Held, Holds
  <2>3. poll[p].ok = FALSE
    <3>0. ~(delivered[i] > 0)
      BY <2>1
    <3>1. ~poll[p].ok
      BY Zenon, <1>2, <3>0 DEF Paid
    <3>2. poll[p].ok \in BOOLEAN
      BY Zenon, <1>0 DEF Poll
    <3> QED
      BY Zenon, <3>1, <3>2
  <2>4. ~Held(i)'
    <3>1. \A q \in Pollers : Holds(q, id) => q = p
      BY Zenon, <2>2 DEF Inv, ClaimExclusive
    <3>2. \A q \in Pollers : ~Holds(q, id)'
      BY Zenon, <1>0, <3>1 DEF Holds, IdlePoll
    <3> QED
      BY <1>2, <3>2 DEF Held
  <2>5. lifecycle'[i] = EntryState(i)'
    BY Zenon, <2>1, <2>4, LifecycleOfNext DEF Reading
  <2>6. items'[id] = FinishConsume(items[id], FALSE)
    BY Zenon, <1>0, <2>3 DEF Inv, TypeOK
  <2>7. CASE items[id] = NoApproval
    <3>1. EntryState(i)' = "gone"
      BY Zenon, <1>0, <1>2, <2>6, <2>7 DEF FinishConsume, EntryState
    <3> QED
      BY Zenon, <2>2, <2>5, <3>1, MovesAre DEF MovesOrStays
  <2>8. CASE items[id] # NoApproval
    <3>1. items[id] \in Approval /\ items[id].status = "approved" /\ ~items[id].consumed
      BY Zenon, <2>2, <2>8 DEF Inv, TypeOK, ClaimExclusive
    <3>2. items'[id].status = "approved" /\ ~items'[id].consumed /\ items'[id] # NoApproval
      <4>1. items'[id] = [items[id] EXCEPT !.consumed = @ \/ FALSE, !.issuing = FALSE]
        BY Zenon, <2>6, <2>8 DEF FinishConsume
      <4>2. items[id] \in Entry /\ FALSE \in BOOLEAN
        BY <3>1 DEF Entry
      <4>3. items'[id] # NoApproval
        BY <2>6, <2>8, <4>2, FinishStays, Zenon
      <4> QED
        BY Zenon, <3>1, <4>1, <4>3 DEF Approval
    <3>3. EntryState(i)' = "approved"
      BY <1>2, <3>2 DEF EntryState
    <3> QED
      BY Zenon, <2>2, <2>5, <3>3, MovesAre DEF MovesOrStays
  <2> QED
    BY Zenon, <2>7, <2>8
<1> QED
  BY Zenon, <1>1, <1>2

LEMMA StepsMove ==
    ASSUME Inv, Inv', Paid, [Next]_vars, ~Restart, NEW i \in Ids
    PROVE  MovesOrStays(i)
<1>0. Step(i) /\ poll \in [Pollers -> Poll]
  BY Zenon, SameLife, Steps DEF Inv, TypeOK
<1>1. CASE delivered' = delivered /\ \A q \in Pollers : Holds(q, i)' <=> Holds(q, i)
  BY Zenon, <1>0, <1>1, QuietMoves DEF Held
<1>2. CASE delivered' = delivered /\ poll' = poll
  BY <1>1, <1>2 DEF Holds
<1>3. ASSUME NEW s \in Signers, NEW cn \in CNs, NEW u \in EndUsers \cup {""},
             NEW h \in Hosts, NEW c \in Cmds, handleSign(s, cn, u, h, c)
      PROVE  MovesOrStays(i)
  BY Zenon, <1>2, <1>3 DEF handleSign, outcomeVars
<1>3a. ASSUME NEW s \in Signers, SignAnswer(s)
       PROVE  MovesOrStays(i)
  BY Zenon, <1>2, <1>3a DEF SignAnswer, outcomeVars
<1>4. ASSUME NEW p \in Pollers, NEW cn \in CNs, NEW id \in Ids, PollGet(p, cn, id)
      PROVE  MovesOrStays(i)
  <2> DEFINE a == expireLocked(items[id], now)
  <2>1. /\ poll[p].pc = "idle" /\ delivered' = delivered
        /\ \/ poll' = poll
           \/ poll' = [poll EXCEPT ![p] =
                         [pc |-> IF a.status = "approved" THEN "claim" ELSE "report",
                          id |-> id, by |-> a.decidedBy, ok |-> FALSE]]
    BY Zenon, <1>4 DEF PollGet, outcomeVars
  <2> HIDE DEF a
  <2>2. \A q \in Pollers : Holds(q, i)' <=> Holds(q, i)
    BY <1>0, <2>1 DEF Holds
  <2> QED
    BY Zenon, <1>1, <2>1, <2>2
<1>5. ASSUME NEW p \in Pollers, PollReport(p) PROVE MovesOrStays(i)
  <2>1. /\ poll[p].pc = "report" /\ delivered' = delivered
        /\ poll' = [poll EXCEPT ![p] = IdlePoll]
    BY Zenon, <1>5 DEF PollReport
  <2>2. \A q \in Pollers : Holds(q, i)' <=> Holds(q, i)
    BY <1>0, <2>1 DEF Holds, IdlePoll
  <2> QED
    BY Zenon, <1>1, <2>1, <2>2
<1>6. ASSUME NEW p \in Pollers, PollForward(p) PROVE MovesOrStays(i)
  <2>1. /\ poll[p].pc = "forward" /\ delivered' = delivered
        /\ poll' = [poll EXCEPT ![p].pc = "finish"] \/ poll' = [poll EXCEPT ![p].pc = "gate"]
    BY <1>6 DEF PollForward
  <2>2. \A q \in Pollers : Holds(q, i)' <=> Holds(q, i)
    BY <1>0, <2>1 DEF Holds, Poll
  <2> QED
    BY Zenon, <1>1, <2>1, <2>2
<1>7. ASSUME NEW cn \in Approvers, NEW id \in Ids, NEW approve \in BOOLEAN,
             NEW learn \in BOOLEAN, handleApprovalDecide(cn, id, approve, learn)
      PROVE  MovesOrStays(i)
  BY Zenon, <1>2, <1>7 DEF handleApprovalDecide, outcomeVars
<1>8. CASE (\E cn \in Approvers : DecideGate(cn)) \/ List \/ Tick \/ UNCHANGED vars
  BY Zenon, <1>2, <1>8 DEF DecideGate, List, Tick, outcomeVars, vars
<1>9. ASSUME NEW p \in Pollers, PollClaim(p) \/ PollGate(p) \/ PollFinish(p)
      PROVE  MovesOrStays(i)
  BY ZenonT(30), <1>0, <1>9, ClaimMoves, GateMoves, FinishMoves
<1> QED
  BY Zenon, <1>3, <1>3a, <1>4, <1>5, <1>6, <1>7, <1>8, <1>9 DEF Next, PollStep
-----------------------------------------------------------------------------
LEMMA InitPaid == Init => Paid
BY DEF Init, Paid, IdlePoll

LEMMA NextPaid ==
    ASSUME Inv, Inv', Paid, [Next]_vars
    PROVE  Paid'
<1>0. poll \in [Pollers -> Poll] /\ delivered \in [Ids -> Nat]
  BY Zenon DEF Inv, TypeOK
<1>1. CASE Restart
  BY ZenonT(30), <1>1 DEF Restart, Paid, IdlePoll
<1>2. CASE delivered' = delivered /\ poll' = poll
  BY <1>2 DEF Paid
<1>3. ASSUME NEW s \in Signers, NEW cn \in CNs, NEW u \in EndUsers \cup {""},
             NEW h \in Hosts, NEW c \in Cmds, handleSign(s, cn, u, h, c)
      PROVE  Paid'
  BY Zenon, <1>2, <1>3 DEF handleSign, outcomeVars
<1>3a. ASSUME NEW s \in Signers, SignAnswer(s)
       PROVE  Paid'
  BY Zenon, <1>2, <1>3a DEF SignAnswer, outcomeVars
<1>4. ASSUME NEW p \in Pollers, NEW cn \in CNs, NEW id \in Ids, PollGet(p, cn, id)
      PROVE  Paid'
  BY Zenon, <1>0, <1>4 DEF PollGet, outcomeVars, Paid
<1>5. ASSUME NEW p \in Pollers, PollReport(p) \/ PollFinish(p) PROVE Paid'
  <2>1. delivered' = delivered /\ poll' = [poll EXCEPT ![p] = IdlePoll]
    BY <1>5 DEF PollReport, PollFinish, outcomeVars
  <2> QED
    BY Zenon, <1>0, <2>1 DEF Paid, IdlePoll
<1>6. ASSUME NEW p \in Pollers, PollForward(p) \/ PollClaim(p) PROVE Paid'
  <2>1. /\ poll[p].pc # "finish" /\ delivered' = delivered
        /\ poll' = [poll EXCEPT ![p] = IdlePoll]
           \/ \E pc \in PollStates : poll' = [poll EXCEPT ![p].pc = pc]
    <3>1. "forward" \in PollStates /\ "gate" \in PollStates /\ "finish" \in PollStates
      BY DEF PollStates
    <3>2. CASE PollForward(p)
      BY <3>1, <3>2 DEF PollForward
    <3>3. CASE PollClaim(p)
      BY Zenon, <3>1, <3>3 DEF PollClaim
    <3> QED
      BY Zenon, <1>6, <3>2, <3>3
  <2>2. \A q \in Pollers : poll'[q].ok => q # p /\ poll'[q] = poll[q]
    BY <1>0, <2>1 DEF Paid, IdlePoll, Poll
  <2> QED
    BY <2>1, <2>2 DEF Paid
<1>7. ASSUME NEW p \in Pollers, PollGate(p) PROVE Paid'
  <2> PICK id \in Ids : poll[p].id = id
    BY <1>7 DEF PollGate, Inv, Known
  <2>1. /\ poll[p].pc = "gate"
        /\ \/ /\ delivered' = [delivered EXCEPT ![id] = @ + 1]
              /\ poll' = [poll EXCEPT ![p].pc = "finish", ![p].ok = TRUE]
           \/ delivered' = delivered /\ poll' = [poll EXCEPT ![p].pc = "finish"]
    BY <1>7 DEF PollGate
  <2>2. \A q \in Pollers : q # p => poll'[q] = poll[q]
    BY <1>0, <2>1
  <2>3. \A i \in Ids : delivered[i] > 0 => delivered'[i] > 0
    BY <1>0, <2>1
  <2>4. poll'[p].ok => poll'[p].pc = "finish" /\ delivered'[poll'[p].id] > 0
    BY <1>0, <2>1 DEF Paid, Poll
  <2>5. \A q \in Pollers : poll[q].pc = "finish" => poll[q].id \in Ids
    BY Zenon DEF Inv, Known
  <2> QED
    BY Zenon, <2>2, <2>3, <2>4, <2>5 DEF Paid
<1>8. ASSUME NEW cn \in Approvers, NEW id \in Ids, NEW approve \in BOOLEAN,
             NEW learn \in BOOLEAN, handleApprovalDecide(cn, id, approve, learn)
      PROVE  Paid'
  BY Zenon, <1>2, <1>8 DEF handleApprovalDecide, outcomeVars
<1>9. CASE (\E cn \in Approvers : DecideGate(cn)) \/ List \/ Tick \/ UNCHANGED vars
  BY Zenon, <1>2, <1>9 DEF DecideGate, List, Tick, outcomeVars, vars
<1> QED
  BY ZenonT(30), <1>1, <1>3, <1>3a, <1>4, <1>5, <1>6, <1>7, <1>8, <1>9 DEF Next, PollStep
-----------------------------------------------------------------------------
(* What a restart may make of the row d of an entry a.                     *)
LEMMA RowReload ==
    ASSUME NEW d \in Approval, now \in Nat, d.status # "expired", ~d.issuing
    PROVE  LET x == expireLocked(d, now)
           IN /\ x.consumed = d.consumed
              /\ x.status = d.status \/ (x.status = "expired" /\ ~d.consumed)
              /\ Overdue(d, now) /\ ~d.consumed => x.status = "expired"
<1>1. CASE Overdue(d, now) /\ ~d.consumed
  <2>1. expireLocked(d, now) = [d EXCEPT !.status = "expired"]
    BY Zenon, <1>1, RegistryAssumption DEF expireLocked
  <2> QED
    BY Zenon, <1>1, <2>1 DEF Approval
<1>2. CASE ~(Overdue(d, now) /\ ~d.consumed)
  BY Zenon, <1>2 DEF expireLocked
<1> QED
  BY Zenon, <1>1, <1>2

LEMMA RestartKeeps ==
    ASSUME Inv, Inv', Outcomes, Requests, Restart, NEW i \in Ids
    PROVE  lifecycle'[i] \in Lifecycle!Kept(lifecycle[i])
<1> DEFINE d == db[i]
           a == items[i]
           s == lifecycle[i]
<1>0. /\ now \in Nat /\ origin'[i] = origin[i]
      /\ d # NoApproval => d \in Approval /\ ~d.issuing /\ origin[i] # NoApproval
      /\ a # NoApproval => a \in Approval /\ origin[i] # NoApproval
  BY Zenon, RestartFacts DEF Inv, TypeOK, RowsIdle, Known
<1>1. lifecycle'[i] = EntryState(i)'
  <2>1. delivered'[i] = 0 /\ ~Held(i)'
    BY RestartFacts DEF Held, Holds
  <2> QED
    BY ZenonT(30), <2>1, LifecycleOfNext DEF Reading
<1>2. CASE origin[i] = NoApproval
  <2>1. a = NoApproval /\ d = NoApproval /\ delivered[i] = 0 /\ ~Held(i)
    <3>1. delivered[i] = 0 \/ delivered[i] = 1
      BY Zenon, LifecycleOf DEF Reading
    <3>2. ~(delivered[i] > 0)
      BY Zenon, <1>2 DEF Inv, Known
    <3>3. ~Held(i)
      BY Zenon, <1>2 DEF Inv, Known, Held, Holds
    <3> QED
      BY SMTT(20), <1>0, <1>2, <3>1, <3>2, <3>3
  <2>2. s = "none" /\ items'[i] = NoApproval
    BY Zenon, <1>2, <2>1, LifecycleOf, RestartFacts DEF Reading, EntryState
  <2>3. lifecycle'[i] = "none"
    BY Zenon, <1>0, <1>1, <1>2, <2>2 DEF EntryState
  <2> QED
    BY ZenonT(30), <2>2, <2>3 DEF Lifecycle!Kept
<1>3. CASE origin[i] # NoApproval /\ items'[i] = NoApproval
  <2>1. lifecycle'[i] = "gone"
    BY Zenon, <1>0, <1>1, <1>3 DEF EntryState
  <2>2. s \in {"gone", "expired", "pending", "approved", "denied", "claimed", "redeemed"}
    BY Zenon, <1>0, <1>3, LifecycleOf DEF Reading, EntryState, Approval, Statuses
  <2> HIDE DEF s
  <2>3. "gone" \in Lifecycle!Kept(s)
    BY Zenon, <2>2 DEF Lifecycle!Kept
  <2> QED
    BY Zenon, <2>1, <2>3 DEF s
<1>4. CASE items'[i] # NoApproval
  <2>1. /\ d # NoApproval /\ d \in Approval /\ ~d.issuing /\ d.status \in Statuses
        /\ items'[i] = expireLocked(d, now) /\ ~(now - d.createdAt >= 2 * TTL)
    BY Zenon, <1>0, <1>4, RestartFacts DEF Approval
  <2>2. a # NoApproval /\ a \in Approval /\ d.status # "expired" /\ Lags(d, a, now)
    BY Zenon, <1>0, <2>1 DEF Requests, Request
  <2> DEFINE x == expireLocked(d, now)
  <2>3. /\ x.consumed = d.consumed
        /\ x.status = d.status \/ (x.status = "expired" /\ ~d.consumed)
        /\ Overdue(d, now) /\ ~d.consumed => x.status = "expired"
    BY Zenon, <1>0, <2>1, <2>2, RowReload
  <2>4. lifecycle'[i] = IF x.consumed THEN "redeemed" ELSE x.status
    BY Zenon, <1>1, <1>4, <2>1 DEF EntryState
  <2>5. \/ s = "redeemed" /\ (a.status = "approved" \/ (a.consumed /\ d.consumed))
        \/ s = "claimed" /\ a.status = "approved" /\ ~a.consumed
        \/ s = a.status /\ ~a.consumed
    <3>1. CASE delivered[i] = 1
      <4>1. s = "redeemed"
        BY Zenon, <3>1, LifecycleOf DEF Reading
      <4>2. delivered[i] > 0
        BY <3>1
      <4>3. a.status = "approved"
        BY Zenon, <2>2, <4>2 DEF Outcomes, Outcome
      <4> QED
        BY Zenon, <4>1, <4>3
    <3>2. CASE delivered[i] = 0 /\ Held(i)
      BY Zenon, <2>2, <3>2, LifecycleOf DEF Reading, Held, Inv, ClaimExclusive
    <3>3. CASE delivered[i] = 0 /\ ~Held(i)
      BY Zenon, <2>2, <3>3, LifecycleOf DEF Reading, EntryState, Lags
    <3> QED
      BY Zenon, <3>1, <3>2, <3>3, LifecycleOf DEF Reading
  <2>6. a.status \in Statuses
    BY Zenon, <2>2 DEF Approval
  <2> HIDE DEF s, a, d, x
  <2>7. CASE s = "redeemed" /\ (a.status = "approved" \/ (a.consumed /\ d.consumed))
    <3>1. lifecycle'[i] \in {"pending", "approved", "redeemed", "expired"}
      BY Zenon, <2>2, <2>3, <2>4, <2>7 DEF Lags
    <3> QED
      BY Zenon, <2>7, <3>1 DEF Lifecycle!Kept, s
  <2>8. CASE s = "claimed" /\ a.status = "approved" /\ ~a.consumed
    <3>1. lifecycle'[i] \in {"pending", "approved", "expired"}
      BY Zenon, <2>2, <2>3, <2>4, <2>8 DEF Lags
    <3> QED
      BY Zenon, <2>8, <3>1 DEF Lifecycle!Kept, s
  <2>9. CASE s = a.status /\ ~a.consumed
    <3>1. CASE s = "expired"
      <4>1. lifecycle'[i] = "expired"
        BY Zenon, <2>2, <2>3, <2>4, <2>9, <3>1 DEF Lags
      <4> QED
        BY Zenon, <3>1, <4>1 DEF Lifecycle!Kept, s
    <3>2. CASE s \in {"pending", "approved", "denied"}
      <4>1. lifecycle'[i] \in {"pending", s, "expired"}
        BY Zenon, <2>2, <2>3, <2>4, <2>9, <3>2 DEF Lags
      <4> QED
        BY Zenon, <3>2, <4>1 DEF Lifecycle!Kept, s
    <3> QED
      BY Zenon, <2>6, <2>9, <3>1, <3>2 DEF Statuses
  <2> QED
    BY Zenon, <2>5, <2>7, <2>8, <2>9
<1> QED
  BY Zenon, <1>2, <1>3, <1>4
-----------------------------------------------------------------------------
(* The control plane implements the lifecycle: whatever the polls, the     *)
(* approvers, the state db, the audit log and the signer do, a request     *)
(* goes through ApprovalLifecycle's moves, and a restart (LoadRegistry)    *)
(* takes it back to an earlier state or on to expired or gone, never to a  *)
(* decision nobody took.                                                   *)
THEOREM Refinement == Spec => RefinesLifecycle
<1> DEFINE I == Inv /\ Outcomes /\ Requests /\ Paid
<1>1. Init => Lifecycle!Init
  <2> SUFFICES ASSUME Init PROVE Lifecycle!Init
    OBVIOUS
  <2>1. \A id \in Ids : lifecycle[id] = "none"
    BY DEF Init, lifecycle, Holds, IdlePoll
  <2>2. lifecycle = [id \in Ids |-> lifecycle[id]] /\ restarts = 0
    BY DEF Init, lifecycle
  <2>3. lifecycle = [id \in Ids |-> "none"]
    BY <2>1, <2>2
  <2> QED
    BY <2>2, <2>3 DEF Lifecycle!Init
<1>2. I /\ I' /\ [Next]_vars => [Lifecycle!Next]_<<lifecycle, restarts>>
  <2> SUFFICES ASSUME I, I', [Next]_vars PROVE Lifecycle!Next
    OBVIOUS
  <2>1. lifecycle' \in [Ids -> Lifecycle!States]
    <3>1. lifecycle' = [id \in Ids |-> lifecycle'[id]]
      BY DEF lifecycle
    <3> QED
      BY <3>1, NextInStates DEF InStates
  <2>2. CASE Restart
    <3>1. \A id \in Ids : lifecycle'[id] \in Lifecycle!Kept(lifecycle[id])
      BY Zenon, <2>2, RestartKeeps
    <3>2. restarts' = restarts + 1
      BY Zenon, <2>2 DEF Restart
    <3> QED
      BY Zenon, <2>1, <3>1, <3>2 DEF Lifecycle!Next, Lifecycle!Restart
  <2>3. CASE ~Restart
    <3>1. \A id \in Ids : MovesOrStays(id)
      BY Zenon, <2>3, StepsMove
    <3>2. restarts' = restarts
      BY <2>3, SameLife
    <3> QED
      BY Zenon, <2>1, <3>1, <3>2 DEF Lifecycle!Next, Lifecycle!Step, MovesOrStays
  <2> QED
    BY Zenon, <2>2, <2>3
<1>3. Init => I
  BY Zenon, InitInv, InitOutcomes, InitRequests, InitPaid
<1>4. I /\ [Next]_vars => I'
  BY Zenon, NextInv, NextOutcomes, NextRequests, NextPaid
<1> QED
  BY <1>1, <1>2, <1>3, <1>4, PTL DEF Spec, RefinesLifecycle, Lifecycle!Spec
=============================================================================
