------------------------- MODULE SignerState_proofs -------------------------
(***************************************************************************)
(* The kill switch of the signer and the audit of what it learns, for      *)
(* every number of requests, administrators, subjects, grants, commits     *)
(* that a power loss may drop, and restarts.                               *)
(***************************************************************************)
EXTENDS SignerState, TLAPS

(* What a store holds: in fail-closed mode no waiver without a record.     *)
Audited == {g \in Grant : FailClosed => g.kind = "allow" \/ g.recorded}

Grants == [GrantIds -> Audited \cup {NoGrant}]

Rows == [grants : Grants, freezes : SUBSET Subjects]

StoreOK(st) ==
    /\ st \in [grants : Grants, frozen : SUBSET Subjects, wal : Seq(Rows)]
    /\ Len(st.wal) > 0

(* A power loss cannot take the freeze of x away.                          *)
Walled(st, x) == \A k \in DOMAIN st.wal : x \in st.wal[k].freezes

(* An operation on the grants leaves the freezes alone.                    *)
Keeps(st, to) ==
    /\ StoreOK(to)
    /\ to.frozen = st.frozen
    /\ \A x \in Subjects : Walled(st, x) => Walled(to, x)

LEMMA DbRow ==
    ASSUME NEW st, StoreOK(st)
    PROVE  /\ Db(st) \in Rows
           /\ \A x \in Subjects : Walled(st, x) => x \in Db(st).freezes
<1>1. Len(st.wal) \in DOMAIN st.wal /\ st.wal \in Seq(Rows)
  BY DEF StoreOK
<1> QED
  BY <1>1 DEF Db, Walled

(* The wal after a commit.                                                 *)
LEMMA WalCommit ==
    ASSUME NEW w \in Seq(Rows), Len(w) > 0, NEW c \in Rows,
           NEW v, v = Append(w, c) \/ v = Append(Tail(w), c)
    PROVE  /\ v \in Seq(Rows) /\ Len(v) > 0 /\ v[Len(v)] = c
           /\ \A x : (\A k \in DOMAIN w : x \in w[k].freezes) /\ x \in c.freezes
                       => \A k \in DOMAIN v : x \in v[k].freezes
<1>1. CASE v = Append(w, c)
  BY <1>1
<1>2. CASE v = Append(Tail(w), c)
  <2>1. Tail(w) \in Seq(Rows) /\ \A k \in DOMAIN Tail(w) : k + 1 \in DOMAIN w /\ Tail(w)[k] = w[k + 1]
    OBVIOUS
  <2>2. v \in Seq(Rows) /\ Len(v) = Len(Tail(w)) + 1 /\ v[Len(v)] = c
    BY <1>2, <2>1
  <2>3. \A k \in DOMAIN v : k = Len(v) \/ (k \in DOMAIN Tail(w) /\ v[k] = Tail(w)[k])
    BY <1>2, <2>1
  <2> QED
    BY <2>1, <2>2, <2>3
<1> QED
  BY <1>1, <1>2

LEMMA CommitKeeps ==
    ASSUME NEW st, StoreOK(st), NEW c \in Rows
    PROVE  /\ StoreOK(Commit(st, c))
           /\ Commit(st, c).frozen = st.frozen /\ Commit(st, c).grants = st.grants
           /\ \A x \in Subjects : Walled(st, x) /\ x \in c.freezes => Walled(Commit(st, c), x)
           /\ StateDB => Db(Commit(st, c)) = c
<1>1. CASE ~StateDB
  BY <1>1 DEF Commit
<1>2. CASE StateDB
  <2>1. PICK v : /\ v = Append(st.wal, c) \/ v = Append(Tail(st.wal), c)
                 /\ Commit(st, c) = [st EXCEPT !.wal = v]
    BY Zenon, <1>2 DEF Commit
  <2>2. st.wal \in Seq(Rows) /\ Len(st.wal) > 0
    BY DEF StoreOK
  <2>3. /\ v \in Seq(Rows) /\ Len(v) > 0 /\ v[Len(v)] = c
        /\ \A x : (\A k \in DOMAIN st.wal : x \in st.wal[k].freezes) /\ x \in c.freezes
                    => \A k \in DOMAIN v : x \in v[k].freezes
    BY SMTT(20), <2>1, <2>2, WalCommit
  <2>4. /\ Commit(st, c).wal = v /\ Commit(st, c).frozen = st.frozen
        /\ Commit(st, c).grants = st.grants
    BY <2>1 DEF StoreOK
  <2>5. StoreOK(Commit(st, c))
    BY Zenon, <2>1, <2>3 DEF StoreOK
  <2> QED
    BY <2>3, <2>4, <2>5 DEF Walled, Db
<1> QED
  BY Zenon, <1>1, <1>2, StoresAssumption DEF StoresAssumption
(* A commit that leaves the freezes alone, and any change of the grants.   *)
LEMMA RowKeeps ==
    ASSUME NEW st, StoreOK(st), NEW c \in Rows, c.freezes = Db(st).freezes
    PROVE  Keeps(st, Commit(st, c))
BY Zenon, CommitKeeps, DbRow DEF Keeps

LEMMA MemoryKeeps ==
    ASSUME NEW st, NEW to, Keeps(st, to), NEW m \in Grants
    PROVE  Keeps(st, [to EXCEPT !.grants = m])
<1>1. /\ [to EXCEPT !.grants = m].wal = to.wal /\ [to EXCEPT !.grants = m].frozen = to.frozen
  BY DEF Keeps, StoreOK
<1>2. StoreOK([to EXCEPT !.grants = m])
  BY DEF Keeps, StoreOK
<1> QED
  BY <1>1, <1>2 DEF Keeps, Walled

LEMMA SameKeeps ==
    ASSUME NEW st, StoreOK(st)
    PROVE  Keeps(st, st)
BY DEF Keeps

LEMMA WithoutGrants ==
    ASSUME NEW m \in Grants, NEW ids
    PROVE  Without(m, ids) \in Grants
BY DEF Without, Grants

LEMMA DroppedKeeps ==
    ASSUME NEW st, StoreOK(st), NEW ids
    PROVE  /\ Keeps(st, Commit(st, Dropped(st, ids)))
           /\ Commit(st, Dropped(st, ids)).grants = st.grants
<1>1. Db(st) \in Rows
  BY DbRow
<1>2. Without(Db(st).grants, ids) \in Grants
  BY <1>1, WithoutGrants DEF Rows
<1>3. Dropped(st, ids) \in Rows /\ Dropped(st, ids).freezes = Db(st).freezes
  BY <1>1, <1>2 DEF Dropped, Rows
<1> QED
  BY <1>3, RowKeeps, CommitKeeps

LEMMA AddGrantKeeps ==
    ASSUME NEW st, StoreOK(st), NEW id \in GrantIds, NEW g \in Audited,
           NEW to \in AddGrant(st, id, g)
    PROVE  Keeps(st, to)
<1> DEFINE u == canonicalGrantSudoUser(g.sudo, g.sudoUser)
           canonical == [g EXCEPT !.sudoUser = u]
           c == [Db(st) EXCEPT !.grants[id] = canonical]
<1>1. u \in SudoUsers \cup {""}
  BY Zenon, StoresAssumption DEF StoresAssumption, canonicalGrantSudoUser, Audited, Grant
<1>2. canonical \in Audited
  <2> HIDE DEF u
  <2>1. canonical \in Grant /\ canonical.kind = g.kind /\ canonical.recorded = g.recorded
    BY Zenon, <1>1 DEF Audited, Grant
  <2> QED
    BY Zenon, <2>1 DEF Audited
<1>3. to = st \/ to = [Commit(st, c) EXCEPT !.grants[id] = canonical]
  BY DEF AddGrant
<1> HIDE DEF canonical
<1>4. c \in Rows /\ c.freezes = Db(st).freezes
  BY <1>2, DbRow DEF Rows, Grants
<1> HIDE DEF c
<1>5. Keeps(st, Commit(st, c)) /\ Commit(st, c).grants = st.grants
  BY <1>4, RowKeeps, CommitKeeps
<1>6. [st.grants EXCEPT ![id] = canonical] \in Grants
  BY <1>2 DEF StoreOK, Grants
<1>7. [Commit(st, c) EXCEPT !.grants[id] = canonical]
        = [Commit(st, c) EXCEPT !.grants = [st.grants EXCEPT ![id] = canonical]]
  BY <1>5
<1> QED
  BY <1>3, <1>5, <1>6, <1>7, MemoryKeeps, SameKeeps

LEMMA SupersedeKeeps ==
    ASSUME NEW st, StoreOK(st), NEW g, NEW to \in SupersedeWaiver(st, g)
    PROVE  Keeps(st, to)
<1> DEFINE ids == Twins(st, g)
           kept == [st EXCEPT !.grants = Without(st.grants, ids)]
<1>1. PICK failed : to = IF ids = failed THEN kept ELSE Commit(kept, Dropped(st, ids \ failed))
  BY Zenon DEF SupersedeWaiver
<1> HIDE DEF ids
<1>2. Keeps(st, kept)
  BY SameKeeps, WithoutGrants, MemoryKeeps DEF StoreOK
<1>3. kept.wal = st.wal /\ StoreOK(kept)
  BY <1>2 DEF StoreOK, Keeps
<1>4. Dropped(st, ids \ failed) = Dropped(kept, ids \ failed)
  BY <1>3 DEF Dropped, Db
<1> HIDE DEF kept
<1>5. Keeps(kept, Commit(kept, Dropped(kept, ids \ failed)))
  BY <1>3, DroppedKeeps
<1>6. Keeps(st, Commit(kept, Dropped(kept, ids \ failed)))
  BY <1>2, <1>5 DEF Keeps
<1> QED
  BY <1>1, <1>2, <1>4, <1>6

LEMMA ListKeeps ==
    ASSUME NEW st, StoreOK(st), NEW t
    PROVE  Keeps(st, ListGrants(st, t)) /\ ListGrants(st, t).wal = st.wal
<1> DEFINE m == Without(st.grants, Expired(st.grants, t))
<1>1. m \in Grants
  BY WithoutGrants DEF StoreOK
<1>2. ListGrants(st, t) = [st EXCEPT !.grants = m]
  BY DEF ListGrants
<1> HIDE DEF m
<1> QED
  BY <1>1, <1>2, SameKeeps, MemoryKeeps DEF StoreOK

LEMMA PurgeKeeps ==
    ASSUME NEW st, StoreOK(st), NEW t, NEW to \in Purge(st, t)
    PROVE  Keeps(st, to)
<1> DEFINE listed == ListGrants(st, t)
           ids == Expired(Db(st).grants, t)
<1>1. to = listed \/ to = Commit(listed, Dropped(st, ids))
  BY DEF Purge
<1>2. Keeps(st, listed) /\ listed.wal = st.wal
  BY ListKeeps
<1> HIDE DEF listed, ids
<1>3. Dropped(st, ids) = Dropped(listed, ids)
  BY <1>2 DEF Dropped, Db
<1>4. Keeps(listed, Commit(listed, Dropped(listed, ids)))
  BY <1>2, DroppedKeeps DEF Keeps
<1> QED
  BY <1>1, <1>2, <1>3, <1>4 DEF Keeps

LEMMA RevokeKeeps ==
    ASSUME NEW st, StoreOK(st), NEW id \in GrantIds, NEW o \in Revoke(st, id)
    PROVE  Keeps(st, o.store)
<1> DEFINE c == Commit(st, Dropped(st, {id}))
<1>1. o.store = st \/ o.store = [c EXCEPT !.grants[id] = NoGrant]
  BY DEF Revoke
<1>2. Keeps(st, c) /\ c.grants = st.grants
  BY DroppedKeeps
<1> HIDE DEF c
<1>3. [c EXCEPT !.grants[id] = NoGrant] = [c EXCEPT !.grants = [st.grants EXCEPT ![id] = NoGrant]]
  BY <1>2
<1>4. [st.grants EXCEPT ![id] = NoGrant] \in Grants
  BY DEF StoreOK, Grants
<1> QED
  BY <1>1, <1>2, <1>3, <1>4, SameKeeps, MemoryKeeps

LEMMA RevokeForKeeps ==
    ASSUME NEW st, StoreOK(st), NEW x, NEW o \in RevokeForSubject(st, x)
    PROVE  Keeps(st, o.store)
<1> DEFINE ids == ScopedTo(st, x)
           c == Commit(st, Dropped(st, ids))
<1>1. o.store = st \/ o.store = [c EXCEPT !.grants = Without(c.grants, ids)]
  BY DEF RevokeForSubject
<1>2. Keeps(st, c) /\ c.grants = st.grants
  BY DroppedKeeps
<1> HIDE DEF c, ids
<1>3. Without(c.grants, ids) \in Grants
  BY <1>2, WithoutGrants DEF StoreOK
<1> QED
  BY <1>1, <1>2, <1>3, SameKeeps, MemoryKeeps

(* FreezeStore.Add.                                                        *)
LEMMA CheckpointKeeps ==
    ASSUME NEW st, StoreOK(st)
    PROVE  /\ StoreOK(checkpointDurable(st))
           /\ checkpointDurable(st).frozen = st.frozen
           /\ \A x : Walled(checkpointDurable(st), x) <=> x \in Db(st).freezes
<1>1. <<Db(st)>> \in Seq(Rows)
  BY DbRow
<1>2. checkpointDurable(st) = [st EXCEPT !.wal = <<Db(st)>>]
  BY DEF checkpointDurable
<1>3. checkpointDurable(st).wal = <<Db(st)>> /\ checkpointDurable(st).frozen = st.frozen
  BY <1>2 DEF StoreOK
<1>4. StoreOK(checkpointDurable(st))
  <2>1. Len(<<Db(st)>>) > 0
    OBVIOUS
  <2>2. checkpointDurable(st) \in [grants : Grants, frozen : SUBSET Subjects, wal : Seq(Rows)]
    BY Zenon, <1>1, <1>2 DEF StoreOK
  <2> QED
    BY <1>3, <2>1, <2>2 DEF StoreOK
<1> QED
  BY <1>3, <1>4 DEF Walled

LEMMA FrozenOK ==
    ASSUME NEW st, StoreOK(st), NEW F \in SUBSET Subjects
    PROVE  /\ StoreOK([st EXCEPT !.frozen = F]) /\ [st EXCEPT !.frozen = F].frozen = F
           /\ [st EXCEPT !.frozen = F].wal = st.wal
BY DEF StoreOK

LEMMA AddFreezeFacts ==
    ASSUME NEW st, StoreOK(st), NEW y \in Subjects, NEW o \in AddFreeze(st, y)
    PROVE  /\ StoreOK(o.store) /\ st.frozen \subseteq o.store.frozen
           /\ \A x \in Subjects : Walled(st, x) => Walled(o.store, x)
           /\ o.res # "error" => y \in o.store.frozen
           /\ o.res = "ok" /\ StateDB => Walled(o.store, y)
           /\ o.res \in {"ok", "notdurable", "error"}
<1> DEFINE row == [Db(st) EXCEPT !.freezes = @ \cup {y}]
           c == Commit(st, row)
           enforced == [c EXCEPT !.frozen = @ \cup {y}]
<1>1. \/ o = [store |-> checkpointDurable(enforced), res |-> "ok"]
      \/ o = [store |-> enforced, res |-> "notdurable"]
      \/ o = [store |-> st, res |-> "error"]
  BY Zenon DEF AddFreeze
<1>2. row \in Rows /\ row.freezes = Db(st).freezes \cup {y}
  BY DbRow DEF Rows
<1> HIDE DEF row
<1>3. /\ StoreOK(c) /\ c.frozen = st.frozen
      /\ \A x \in Subjects : Walled(st, x) => Walled(c, x)
      /\ StateDB => y \in Db(c).freezes
  BY Zenon, <1>2, CommitKeeps, DbRow
<1> HIDE DEF c
<1>4. /\ StoreOK(enforced) /\ enforced.frozen = st.frozen \cup {y} /\ enforced.wal = c.wal
  BY <1>3, FrozenOK DEF StoreOK
<1> HIDE DEF enforced
<1>5. /\ \A x \in Subjects : Walled(st, x) => Walled(enforced, x) /\ x \in Db(enforced).freezes
      /\ StateDB => y \in Db(enforced).freezes
  BY <1>3, <1>4, DbRow DEF Walled, Db
<1>6. /\ StoreOK(checkpointDurable(enforced))
      /\ checkpointDurable(enforced).frozen = enforced.frozen
      /\ \A x : Walled(checkpointDurable(enforced), x) <=> x \in Db(enforced).freezes
  BY <1>4, CheckpointKeeps
<1>7. CASE o = [store |-> checkpointDurable(enforced), res |-> "ok"]
  BY <1>4, <1>5, <1>6, <1>7
<1>8. CASE o = [store |-> enforced, res |-> "notdurable"]
  BY <1>4, <1>5, <1>8
<1>9. CASE o = [store |-> st, res |-> "error"]
  BY <1>9
<1> QED
  BY <1>1, <1>7, <1>8, <1>9

LEMMA RemoveFreezeFacts ==
    ASSUME NEW st, StoreOK(st), NEW y \in Subjects, NEW o \in RemoveFreeze(st, y)
    PROVE  /\ StoreOK(o.store)
           /\ \A x \in Subjects : x # y => /\ Walled(st, x) => Walled(o.store, x)
                                           /\ x \in st.frozen => x \in o.store.frozen
<1> DEFINE row == [Db(st) EXCEPT !.freezes = @ \ {y}]
           c == Commit(st, row)
           p == checkpointDurable(c)
           removed == [p EXCEPT !.frozen = @ \ {y}]
<1>1. o.store = st \/ o.store = c \/ o.store = removed
  <2>1. \/ o = [store |-> st, res |-> "absent"]
        \/ o = [store |-> removed, res |-> "ok"]
        \/ o = [store |-> c, res |-> "error"]
        \/ o = [store |-> st, res |-> "error"]
    BY Zenon DEF RemoveFreeze
  <2> HIDE DEF removed, c
  <2> QED
    BY <2>1
<1>2. row \in Rows /\ row.freezes = Db(st).freezes \ {y}
  BY DbRow DEF Rows
<1> HIDE DEF row
<1>3. /\ StoreOK(c) /\ c.frozen = st.frozen
      /\ \A x \in Subjects : x # y /\ Walled(st, x) => Walled(c, x) /\ x \in Db(c).freezes
  BY Zenon, <1>2, CommitKeeps, DbRow
<1> HIDE DEF c
<1>4. /\ StoreOK(p) /\ p.frozen = st.frozen
      /\ \A x \in Subjects : x # y /\ Walled(st, x) => Walled(p, x)
  BY <1>3, CheckpointKeeps
<1> HIDE DEF p
<1>5. StoreOK(removed) /\ removed.frozen = st.frozen \ {y} /\ removed.wal = p.wal
  BY <1>4, FrozenOK DEF StoreOK
<1> HIDE DEF removed
<1>6. \A x \in Subjects : x # y /\ Walled(st, x) => Walled(removed, x)
  BY <1>4, <1>5 DEF Walled
<1> QED
  BY <1>1, <1>3, <1>5, <1>6

(* A restart enforces what every content has that a crash may leave.       *)
LEMMA LoadedFacts ==
    ASSUME NEW st, StoreOK(st), NEW t
    PROVE  /\ StoreOK(Loaded(st.wal, t))
           /\ \A x \in Subjects : Walled(st, x) => /\ Walled(Loaded(st.wal, t), x)
                                                   /\ x \in Loaded(st.wal, t).frozen
<1>1. Db(st) \in Rows
  BY DbRow
<1> DEFINE m == Without(Db(st).grants, Expired(Db(st).grants, t))
<1>2. m \in Grants
  BY <1>1, WithoutGrants DEF Rows
<1>3. Loaded(st.wal, t) = [grants |-> m, frozen |-> Db(st).freezes, wal |-> st.wal]
  BY DEF Loaded, Db
<1> HIDE DEF m
<1>4. StoreOK(Loaded(st.wal, t))
  BY <1>1, <1>2, <1>3 DEF StoreOK, Rows
<1> QED
  BY <1>3, <1>4, DbRow DEF Walled

-----------------------------------------------------------------------------
(* What is known of a sign request in progress.                            *)
Resolved(r) == {x \in Subjects : \/ x.kind = "caller" /\ x.value = resolveCaller(r)
                                 \/ x.kind = "end_user" /\ x.value = r.endUser}

SignInv(s) ==
    LET q == sign[s]
    IN /\ q = [pc |-> q.pc, req |-> q.req, gated |-> q.gated, recorded |-> q.recorded,
               barred |-> q.barred]
       /\ q.recorded \in BOOLEAN
       /\ q.pc # "idle" => up /\ q.req \in Requests
       /\ \A x \in q.barred : x \in Subjects /\ ack[x] # "no"
       /\ q.pc = "peer" => Resolved(q.req) \cap q.barred = {}
       /\ q.pc \notin {"idle", "frozen", "peer"} => SubjectsOf(q.req) \cap q.barred = {}
       /\ q.pc \in {"learn", "mint"} /\ FailClosed => q.recorded
       /\ q.pc = "mint" => writeMu = s

(* What is known of an administrative request in progress: its freeze is   *)
(* in force before the operator is told, because it holds writeMu.         *)
AdminInv(a) ==
    LET q == admin[a]
    IN /\ q.pc # "idle" => up
       /\ q.pc \in {"revoke", "sweep"} => writeMu = a /\ q.subj \in Subjects
       /\ q.pc = "revoke" => /\ q.subj \in store.frozen
                             /\ q.res = "ok" /\ StateDB => Walled(store, q.subj)
       /\ q.pc = "grant" => q.subj \in Scopes

Shapes ==
    /\ sign = [s \in Signs |-> sign[s]] /\ admin = [a \in Admins |-> admin[a]]
    /\ ack = [x \in Subjects |-> ack[x]]
    /\ now \in Nat /\ StoreOK(store)
    /\ \A x \in Subjects : ~up /\ ack[x] # "no" => ack[x] = "durable"

SignerInv ==
    /\ Shapes /\ FreezeDurable
    /\ \A s \in Signs : SignInv(s)
    /\ \A a \in Admins : AdminInv(a)

LEMMA InitSigner == Init => SignerInv
<1> SUFFICES ASSUME Init PROVE SignerInv
  OBVIOUS
<1>1. StoreOK(store)
  <2>1. NoContent \in Rows
    BY DEF NoContent, Rows, Grants
  <2>2. <<NoContent>> \in Seq(Rows) /\ Len(<<NoContent>>) > 0
    BY <2>1
  <2>3. store = [grants |-> [i \in GrantIds |-> NoGrant], frozen |-> {}, wal |-> <<NoContent>>]
    BY DEF Init, EmptyStore
  <2>4. [i \in GrantIds |-> NoGrant] \in Grants
    BY DEF Grants
  <2> QED
    BY <2>2, <2>3, <2>4 DEF StoreOK
<1>2. Shapes
  BY <1>1 DEF Init, Shapes
<1>3. FreezeDurable
  BY DEF Init, FreezeDurable
<1>4. ASSUME NEW s \in Signs PROVE SignInv(s)
  BY Zenon DEF Init, SignInv, IdleSign
<1>5. ASSUME NEW a \in Admins PROVE AdminInv(a)
  BY DEF Init, AdminInv, IdleAdmin
<1> QED
  BY <1>2, <1>3, <1>4, <1>5 DEF SignerInv
-----------------------------------------------------------------------------
(* A step takes no freeze away.                                            *)
Firm ==
    \A x \in Subjects : /\ x \in store.frozen => x \in store'.frozen
                        /\ Walled(store, x) => Walled(store', x)

LEMMA FirmKeeps == ASSUME Keeps(store, store') PROVE Firm
BY DEF Keeps, Firm

LEMMA FirmDurable ==
    ASSUME FreezeDurable, Firm, ack' = ack, up' = up
    PROVE  FreezeDurable'
<1> SUFFICES ASSUME NEW x \in Subjects
             PROVE  /\ ack[x] = "durable" => Walled(store', x)
                    /\ up /\ ack[x] # "no" => x \in store'.frozen
  BY DEF FreezeDurable, Walled
<1>1. /\ ack[x] = "durable" => Walled(store, x)
      /\ up /\ ack[x] # "no" => x \in store.frozen
  BY DEF FreezeDurable, Walled
<1> QED
  BY <1>1 DEF Firm

LEMMA SameSign ==
    ASSUME NEW s \in Signs, SignInv(s), sign'[s] = sign[s], up' = up,
           \A x \in Subjects : ack[x] # "no" => ack'[x] # "no",
           writeMu' = writeMu \/ writeMu # s
    PROVE  SignInv(s)'
<1>1. sign[s].pc = "mint" => writeMu' = s
  BY DEF SignInv
<1> QED
  BY <1>1 DEF SignInv

LEMMA SameAdmin ==
    ASSUME NEW a \in Admins, AdminInv(a), admin'[a] = admin[a], up' = up, Firm,
           writeMu' = writeMu \/ writeMu # a
    PROVE  AdminInv(a)'
<1>1. admin[a].pc \in {"revoke", "sweep"} => writeMu' = a /\ admin[a].subj \in Subjects
  BY DEF AdminInv
<1>2. admin[a].pc = "revoke" =>
         /\ admin[a].subj \in store'.frozen
         /\ admin[a].res = "ok" /\ StateDB => Walled(store', admin[a].subj)
  BY <1>1 DEF AdminInv, Firm
<1> QED
  BY <1>1, <1>2 DEF AdminInv

LEMMA SameMu ==
    ASSUME NEW s \in Signs \cup Admins
    PROVE  /\ s # Free
           /\ \A d \in Signs, a \in Admins : d # a
BY SignerAssumption DEF SignerAssumption

(* A step of one sign request.                                             *)
LEMMA OneSign ==
    ASSUME SignerInv, NEW s \in Signs, NEW q, sign' = [sign EXCEPT ![s] = q], SignInv(s)',
           UNCHANGED <<up, now, ack, admin>>, StoreOK(store'), Firm,
           writeMu' = writeMu \/ writeMu \in {Free, s}
    PROVE  SignerInv'
<1>1. Shapes'
  BY DEF SignerInv, Shapes
<1>2. FreezeDurable'
  BY FirmDurable DEF SignerInv
<1>3. ASSUME NEW d \in Signs PROVE SignInv(d)'
  <2>1. CASE d = s
    BY <2>1
  <2>2. CASE d # s
    <3>1. sign'[d] = sign[d] /\ SignInv(d) /\ (writeMu' = writeMu \/ writeMu # d)
      BY <2>2, SameMu DEF SignerInv, Shapes
    <3> QED
      BY <3>1, SameSign
  <2> QED
    BY <2>1, <2>2
<1>4. ASSUME NEW a \in Admins PROVE AdminInv(a)'
  <2>1. AdminInv(a) /\ (writeMu' = writeMu \/ writeMu # a)
    BY SameMu DEF SignerInv
  <2> QED
    BY <2>1, SameAdmin
<1> QED
  BY <1>1, <1>2, <1>3, <1>4 DEF SignerInv

(* A step of one administrative request, other than an unfreeze.           *)
LEMMA OneAdmin ==
    ASSUME SignerInv, NEW a \in Admins, NEW q, admin' = [admin EXCEPT ![a] = q], AdminInv(a)',
           UNCHANGED <<up, now, sign>>, up, StoreOK(store'), Firm, FreezeDurable',
           ack' = [x \in Subjects |-> ack'[x]],
           \A x \in Subjects : ack[x] # "no" => ack'[x] # "no",
           writeMu' = writeMu \/ writeMu \in {Free, a}
    PROVE  SignerInv'
<1>1. Shapes'
  BY DEF SignerInv, Shapes
<1>3. ASSUME NEW d \in Signs PROVE SignInv(d)'
  <2>1. SignInv(d) /\ (writeMu' = writeMu \/ writeMu # d)
    BY SameMu DEF SignerInv
  <2> QED
    BY <2>1, SameSign
<1>4. ASSUME NEW b \in Admins PROVE AdminInv(b)'
  <2>1. CASE b = a
    BY <2>1
  <2>2. CASE b # a
    <3>1. admin'[b] = admin[b] /\ AdminInv(b) /\ (writeMu' = writeMu \/ writeMu # b)
      BY <2>2, SameMu DEF SignerInv, Shapes
    <3> QED
      BY <3>1, SameAdmin
  <2> QED
    BY <2>1, <2>2
<1> QED
  BY <1>1, <1>3, <1>4 DEF SignerInv
-----------------------------------------------------------------------------
(* The subjects of a request that a look at the freezes finds.             *)
LEMMA LookFinds ==
    ASSUME NEW x \in Subjects, x \in store.frozen, NEW c, NEW u,
           (x.kind = "caller" /\ x.value = c) \/ (x.kind = "end_user" /\ x.value = u)
    PROVE  Frozen(store, c, u)
<1>1. x = [kind |-> x.kind, value |-> x.value]
  BY SignerAssumption DEF SignerAssumption, FreezeSubject
<1> QED
  BY <1>1 DEF Frozen

LEMMA BarredFrozen ==
    ASSUME SignerInv, NEW s \in Signs, sign[s].pc # "idle", NEW x \in sign[s].barred
    PROVE  x \in Subjects /\ x \in store.frozen
<1>1. SignInv(s) /\ FreezeDurable
  BY DEF SignerInv
<1>2. up /\ x \in Subjects /\ ack[x] # "no"
  BY <1>1 DEF SignInv
<1> QED
  BY <1>1, <1>2 DEF FreezeDurable

(* A request that is answered, and one that goes on to pc.                 *)
LEMMA ReplyInv ==
    ASSUME SignerInv, NEW s \in Signs, Reply(s)
    PROVE  SignInv(s)' /\ sign' = [sign EXCEPT ![s] = IdleSign]
<1>1. sign'[s] = IdleSign
  BY DEF Reply, SignerInv, Shapes
<1>2. /\ IdleSign = [pc |-> IdleSign.pc, req |-> IdleSign.req, gated |-> IdleSign.gated,
                     recorded |-> IdleSign.recorded, barred |-> IdleSign.barred]
      /\ IdleSign.pc = "idle" /\ IdleSign.recorded \in BOOLEAN /\ IdleSign.barred = {}
  BY DEF IdleSign
<1>3. SignInv(s)'
  BY <1>1, <1>2 DEF SignInv
<1> QED
  BY <1>3 DEF Reply

GoesTo(s, pc) ==
    /\ sign' = [sign EXCEPT ![s] = [sign[s] EXCEPT !.pc = pc]]
    /\ sign'[s] = [pc |-> pc, req |-> sign[s].req, gated |-> sign[s].gated,
                   recorded |-> sign[s].recorded, barred |-> sign[s].barred]

(* The fields of a request that was written out in full.                   *)
Written(v, pc, req, gated, recorded, barred) ==
    v = [pc |-> pc, req |-> req, gated |-> gated, recorded |-> recorded, barred |-> barred]

Fields(v, pc, req, gated, recorded, barred) ==
    /\ v = [pc |-> v.pc, req |-> v.req, gated |-> v.gated, recorded |-> v.recorded,
            barred |-> v.barred]
    /\ v.pc = pc /\ v.req = req /\ v.recorded = recorded /\ v.barred = barred

LEMMA SignFields ==
    ASSUME NEW v, NEW pc, NEW req, NEW gated, NEW recorded, NEW barred,
           Written(v, pc, req, gated, recorded, barred)
    PROVE  Fields(v, pc, req, gated, recorded, barred)
<1>1. /\ v.pc = pc /\ v.req = req /\ v.gated = gated
      /\ v.recorded = recorded /\ v.barred = barred
  BY DEF Written
<1> QED
  BY <1>1, Zenon DEF Written, Fields

LEMMA GotoFacts ==
    ASSUME SignerInv, NEW s \in Signs, NEW pc, Goto(s, pc)
    PROVE  GoesTo(s, pc)
<1>1. sign' = [sign EXCEPT ![s] = [sign[s] EXCEPT !.pc = pc]]
  BY DEF Goto
<1>2. sign'[s] = [sign[s] EXCEPT !.pc = pc]
  BY Zenon, <1>1 DEF SignerInv, Shapes
<1>3. sign[s] = [pc |-> sign[s].pc, req |-> sign[s].req, gated |-> sign[s].gated,
                 recorded |-> sign[s].recorded, barred |-> sign[s].barred]
  BY DEF SignerInv, SignInv
<1> QED
  BY <1>1, <1>2, <1>3 DEF GoesTo

(* A request goes on and nothing it depends on changes.                    *)
LEMMA GoesInv ==
    ASSUME SignerInv, NEW s \in Signs, NEW pc, GoesTo(s, pc), sign[s].pc # "idle",
           up' = up, ack' = ack,
           pc = "peer" => Resolved(sign[s].req) \cap sign[s].barred = {},
           pc \notin {"idle", "frozen", "peer"} => SubjectsOf(sign[s].req) \cap sign[s].barred = {},
           pc \in {"learn", "mint"} /\ FailClosed => sign[s].recorded,
           pc = "mint" => writeMu' = s
    PROVE  SignInv(s)'
<1>1. SignInv(s)
  BY DEF SignerInv
<1> QED
  BY <1>1 DEF SignInv, GoesTo

LEMMA HandleSignInv ==
    ASSUME SignerInv, NEW s \in Signs, NEW r \in Requests, handleSign(s, r)
    PROVE  SignerInv'
<1>1. PICK b, q : /\ b = {x \in Subjects : ack[x] # "no"}
                  /\ q = [IdleSign EXCEPT !.pc = "frozen", !.req = r, !.barred = b]
                  /\ sign' = [sign EXCEPT ![s] = q]
  BY Zenon DEF handleSign
<1>2. up /\ UNCHANGED <<store, writeMu, admin, up, now, ack>>
  BY DEF handleSign, history
<1>3. sign'[s] = q
  BY <1>1 DEF SignerInv, Shapes
<1>4. SignInv(s)'
  <2>1. /\ q = [pc |-> q.pc, req |-> q.req, gated |-> q.gated, recorded |-> q.recorded,
                barred |-> q.barred]
        /\ q.pc = "frozen" /\ q.req = r /\ q.recorded \in BOOLEAN /\ q.barred = b
    <3> SUFFICES ASSUME q = [IdleSign EXCEPT !.pc = "frozen", !.req = r, !.barred = b]
                 PROVE  /\ q = [pc |-> q.pc, req |-> q.req, gated |-> q.gated,
                                recorded |-> q.recorded, barred |-> q.barred]
                        /\ q.pc = "frozen" /\ q.req = r /\ q.recorded \in BOOLEAN /\ q.barred = b
      BY <1>1
    <3>1. q = [pc |-> q.pc, req |-> q.req, gated |-> q.gated, recorded |-> q.recorded,
               barred |-> q.barred]
      BY Zenon DEF IdleSign
    <3>2. q.pc = "frozen" /\ q.req = r /\ q.barred = b
      BY DEF IdleSign
    <3>3. q.recorded \in BOOLEAN
      BY DEF IdleSign
    <3> QED
      BY <3>1, <3>2, <3>3
  <2>2. \A x \in b : x \in Subjects /\ ack[x] # "no"
    BY <1>1
  <2> QED
    BY <1>2, <1>3, <2>1, <2>2 DEF SignInv
<1>5. StoreOK(store') /\ Firm
  BY <1>2 DEF SignerInv, Shapes, Firm
<1> QED
  BY Zenon, <1>1, <1>2, <1>4, <1>5, OneSign

(* Steps of a sign request that change nothing else.                       *)
LEMMA QuietInv ==
    ASSUME SignerInv, NEW s \in Signs, SignInv(s)', NEW q, sign' = [sign EXCEPT ![s] = q],
           UNCHANGED <<store, writeMu, admin, up, now, ack>>
    PROVE  SignerInv'
<1>1. StoreOK(store') /\ Firm
  BY Zenon DEF SignerInv, Shapes, Firm
<1> QED
  BY Zenon, <1>1, OneSign

LEMMA FrozenSubjectInv ==
    ASSUME SignerInv, NEW s \in Signs, frozenSubject(s)
    PROVE  SignerInv'
<1> DEFINE r == sign[s].req
<1>1. sign[s].pc = "frozen" /\ UNCHANGED <<store, writeMu, admin, up, now, ack>>
  BY DEF frozenSubject, history
<1>2. CASE Reply(s)
  BY <1>1, <1>2, ReplyInv, QuietInv
<1>3. CASE ~Frozen(store, resolveCaller(r), r.endUser)
           /\ Goto(s, IF PeerLookup(r) THEN "peer" ELSE "decide")
  <2>1. Resolved(r) \cap sign[s].barred = {}
    BY <1>1, <1>3, BarredFrozen, LookFinds DEF Resolved
  <2>2. ~PeerLookup(r) => SubjectsOf(r) \cap sign[s].barred = {}
    BY <2>1 DEF PeerLookup, SubjectsOf, Resolved
  <2>3. PICK pc \in {"peer", "decide"} : Goto(s, pc) /\ (pc = "peer" <=> PeerLookup(r))
    BY <1>3
  <2>4. GoesTo(s, pc)
    BY Zenon, <2>3, GotoFacts
  <2>5. SignInv(s)'
    BY <1>1, <2>1, <2>2, <2>3, <2>4, GoesInv
  <2> QED
    BY Zenon, <1>1, <2>4, <2>5, QuietInv DEF GoesTo
<1> QED
  BY ZenonT(30), <1>2, <1>3 DEF frozenSubject

LEMMA FrozenPeerInv ==
    ASSUME SignerInv, NEW s \in Signs, frozenPeer(s)
    PROVE  SignerInv'
<1> DEFINE r == sign[s].req
<1>1. sign[s].pc = "peer" /\ UNCHANGED <<store, writeMu, admin, up, now, ack>>
  BY Zenon DEF frozenPeer, history
<1>2. CASE Reply(s)
  BY <1>1, <1>2, ReplyInv, QuietInv
<1>3. CASE ~Frozen(store, r.peer, "") /\ Goto(s, "decide")
  <2>1. Resolved(r) \cap sign[s].barred = {}
    BY Zenon, <1>1 DEF SignerInv, SignInv
  <2>2. SubjectsOf(r) \cap sign[s].barred = {}
    <3> SUFFICES ASSUME NEW x \in SubjectsOf(r), x \in sign[s].barred PROVE FALSE
      OBVIOUS
    <3>1. x.kind = "caller" /\ x.value = r.peer
      BY <2>1 DEF SubjectsOf, Resolved
    <3> QED
      BY Zenon, <1>1, <1>3, <3>1, BarredFrozen, LookFinds
  <2>3. GoesTo(s, "decide")
    BY Zenon, <1>3, GotoFacts
  <2>4. SignInv(s)'
    BY <1>1, <2>2, <2>3, GoesInv
  <2> QED
    BY Zenon, <1>1, <2>3, <2>4, QuietInv DEF GoesTo
<1> QED
  BY Zenon, <1>2, <1>3 DEF frozenPeer

LEMMA PolicyInv ==
    ASSUME SignerInv, NEW s \in Signs, resolveCommandPolicy(s)
    PROVE  SignerInv'
<1>1. sign[s].pc = "decide" /\ UNCHANGED <<store, writeMu, admin, up, now, ack>>
  BY DEF resolveCommandPolicy, history
<1>2. CASE Reply(s)
  BY <1>1, <1>2, ReplyInv, QuietInv
<1>3. ASSUME NEW pc \in {"waiver", "respond"}, Goto(s, pc) PROVE SignerInv'
  <2>1. SubjectsOf(sign[s].req) \cap sign[s].barred = {}
    BY Zenon, <1>1 DEF SignerInv, SignInv
  <2>2. GoesTo(s, pc)
    BY ZenonT(30), <1>3, GotoFacts
  <2>3. SignInv(s)'
    BY <1>1, <2>1, <2>2, GoesInv
  <2> QED
    BY Zenon, <1>1, <2>2, <2>3, QuietInv DEF GoesTo
<1> QED
  BY Zenon, <1>2, <1>3 DEF resolveCommandPolicy

LEMMA WaiverInv ==
    ASSUME SignerInv, NEW s \in Signs, waiverCheck(s)
    PROVE  SignerInv'
<1>1. sign[s].pc = "waiver" /\ UNCHANGED <<store, writeMu, admin, up, now, ack>>
  BY DEF waiverCheck, history
<1>2. CASE Reply(s)
  BY <1>1, <1>2, ReplyInv, QuietInv
<1>3. ASSUME NEW g, sign' = [sign EXCEPT ![s].pc = "respond", ![s].gated = g] PROVE SignerInv'
  <2>1. sign' = [sign EXCEPT ![s] = [sign[s] EXCEPT !.pc = "respond", !.gated = g]]
    BY Zenon, <1>3
  <2>2. SignInv(s)
    BY DEF SignerInv
  <2>3. Written(sign'[s], "respond", sign[s].req, g, sign[s].recorded, sign[s].barred)
    BY Zenon, <2>1, <2>2 DEF SignerInv, Shapes, SignInv, Written
  <2>4. Fields(sign'[s], "respond", sign[s].req, g, sign[s].recorded, sign[s].barred)
    BY <2>3, SignFields, Zenon
  <2>5. SignInv(s)'
    BY <1>1, <2>2, <2>4 DEF SignInv, Fields
  <2> QED
    BY Zenon, <1>1, <2>1, <2>5, QuietInv
<1> QED
  BY <1>2, <1>3 DEF waiverCheck

LEMMA RespondInv ==
    ASSUME SignerInv, NEW s \in Signs, respondSignResult(s)
    PROVE  SignerInv'
<1>1. sign[s].pc = "respond" /\ UNCHANGED <<store, writeMu, admin, up, now, ack>>
  BY DEF respondSignResult, history
<1>2. CASE Reply(s)
  BY <1>1, <1>2, ReplyInv, QuietInv
<1>3. ASSUME NEW ok \in AuditOutcomes, ~appendAudit(ok),
             sign' = [sign EXCEPT ![s].pc = "learn", ![s].recorded = ok]
      PROVE  SignerInv'
  <2>1. sign' = [sign EXCEPT ![s] = [sign[s] EXCEPT !.pc = "learn", !.recorded = ok]]
    BY Zenon, <1>3
  <2>2. SignInv(s)
    BY DEF SignerInv
  <2>3. Written(sign'[s], "learn", sign[s].req, sign[s].gated, ok, sign[s].barred)
    BY Zenon, <2>1, <2>2 DEF SignerInv, Shapes, SignInv, Written
  <2>4. ok \in BOOLEAN /\ (FailClosed => ok)
    BY <1>3, SignerAssumption DEF SignerAssumption, appendAudit
  <2>5. Fields(sign'[s], "learn", sign[s].req, sign[s].gated, ok, sign[s].barred)
    BY ZenonT(30), <2>3, SignFields, Zenon
  <2>6. SignInv(s)'
    BY <1>1, <2>2, <2>4, <2>5 DEF SignInv, Fields
  <2> QED
    BY Zenon, <1>1, <2>1, <2>6, QuietInv
<1> QED
  BY <1>2, <1>3 DEF respondSignResult

(* The same for a grant.                                                   *)
GrantOf(g, kind, host, cmd, caller, endUser, sudo, sudoUser, expiresAt, recorded) ==
    g = [kind |-> kind, host |-> host, cmd |-> cmd, caller |-> caller, endUser |-> endUser,
         sudo |-> sudo, sudoUser |-> sudoUser, expiresAt |-> expiresAt, recorded |-> recorded]

GrantFields(g, kind, host, cmd, caller, endUser, sudo, sudoUser, expiresAt, recorded) ==
    /\ DOMAIN g = {"kind", "host", "cmd", "caller", "endUser", "sudo", "sudoUser",
                   "expiresAt", "recorded"}
    /\ g = [f \in DOMAIN g |-> g[f]]
    /\ g.kind = kind /\ g.host = host /\ g.cmd = cmd /\ g.caller = caller /\ g.endUser = endUser
    /\ g.sudo = sudo /\ g.sudoUser = sudoUser /\ g.expiresAt = expiresAt /\ g.recorded = recorded

LEMMA GrantOfFields ==
    ASSUME NEW g, NEW kind, NEW host, NEW cmd, NEW caller, NEW endUser, NEW sudo, NEW sudoUser,
           NEW expiresAt, NEW recorded,
           GrantOf(g, kind, host, cmd, caller, endUser, sudo, sudoUser, expiresAt, recorded)
    PROVE  GrantFields(g, kind, host, cmd, caller, endUser, sudo, sudoUser, expiresAt, recorded)
<1>1. /\ DOMAIN g = {"kind", "host", "cmd", "caller", "endUser", "sudo", "sudoUser",
                     "expiresAt", "recorded"}
      /\ g = [f \in DOMAIN g |-> g[f]]
  BY DEF GrantOf
<1>2. g.kind = kind /\ g.host = host /\ g.cmd = cmd /\ g.caller = caller /\ g.endUser = endUser
  BY DEF GrantOf
<1>3. g.sudo = sudo /\ g.sudoUser = sudoUser /\ g.expiresAt = expiresAt /\ g.recorded = recorded
  BY DEF GrantOf
<1> QED
  BY <1>1, <1>2, <1>3, Zenon DEF GrantFields

LEMMA GrantRecord ==
    ASSUME NEW g, DOMAIN g = {"kind", "host", "cmd", "caller", "endUser", "sudo", "sudoUser",
                              "expiresAt", "recorded"},
           g = [f \in DOMAIN g |-> g[f]],
           g.kind \in {"allow", "waive"}, g.host \in Hosts, g.cmd \in Cmds,
           g.caller \in Callers \cup {""}, g.endUser \in EndUsers \cup {""},
           g.sudo \in BOOLEAN, g.sudoUser \in SudoUsers \cup {""}, g.expiresAt \in Nat,
           g.recorded \in BOOLEAN
    PROVE  g \in Grant
BY Zenon DEF Grant

(* A waiver is learned from a request on record.                           *)
LEMMA WaiverAudited ==
    ASSUME SignerInv, NEW s \in Signs, sign[s].pc \in {"learn", "mint"}
    PROVE  NewWaiver(s) \in Audited
<1> DEFINE r == sign[s].req
<1>1. r \in Requests /\ sign[s].recorded \in BOOLEAN /\ (FailClosed => sign[s].recorded)
  BY Zenon DEF SignerInv, SignInv
<1>2. r \in Request
  BY <1>1, SignerAssumption DEF SignerAssumption
<1>3. resolveCaller(r) \in Callers
  BY Zenon, <1>2 DEF resolveCaller, Request
<1>4. now + TTL \in Nat
  BY SMTT(20), SignerAssumption DEF SignerAssumption, SignerInv, Shapes
<1> DEFINE g == NewWaiver(s)
<1>5. GrantOf(g, "waive", r.host, r.cmd, resolveCaller(r), r.endUser, r.sudo, r.sudoUser,
              now + TTL, sign[s].recorded)
  BY DEF NewWaiver, Intent, GrantOf
<1>6. /\ r.host \in Hosts /\ r.cmd \in Cmds /\ r.endUser \in EndUsers \cup {""}
      /\ r.sudo \in BOOLEAN /\ r.sudoUser \in SudoUsers \cup {""}
  BY Zenon, <1>2 DEF Request
<1> HIDE DEF r, g
<1>7. GrantFields(g, "waive", r.host, r.cmd, resolveCaller(r), r.endUser, r.sudo, r.sudoUser,
                  now + TTL, sign[s].recorded)
  BY <1>5, GrantOfFields, Zenon
<1>8. /\ DOMAIN g = {"kind", "host", "cmd", "caller", "endUser", "sudo", "sudoUser",
                     "expiresAt", "recorded"}
      /\ g = [f \in DOMAIN g |-> g[f]]
      /\ g.recorded = sign[s].recorded
  BY <1>7, Zenon DEF GrantFields
<1>9. g.sudo \in BOOLEAN /\ g.recorded \in BOOLEAN
  BY <1>1, <1>6, <1>7, Zenon DEF GrantFields
<1>10. /\ g.kind = "waive" /\ g.host \in Hosts /\ g.cmd \in Cmds
       /\ g.caller \in Callers \cup {""} /\ g.endUser \in EndUsers \cup {""}
       /\ g.sudoUser \in SudoUsers \cup {""} /\ g.expiresAt \in Nat
  BY <1>3, <1>4, <1>6, <1>7, Zenon DEF GrantFields
<1>11. g \in Grant
  BY <1>8, <1>9, <1>10, GrantRecord, Zenon
<1> QED
  BY <1>1, <1>8, <1>11, Zenon DEF Audited, g

LEMMA MintKeeps ==
    ASSUME StoreOK(store), NEW g \in Audited, Mint(g)
    PROVE  Keeps(store, store')
BY Zenon, AddGrantKeeps, SameKeeps DEF Mint

LEMMA LearnInv ==
    ASSUME SignerInv, NEW s \in Signs, maybeLearnWaiver(s)
    PROVE  SignerInv'
<1>1. sign[s].pc = "learn" /\ writeMu = Free /\ UNCHANGED <<admin, up, now, ack>>
  BY DEF maybeLearnWaiver, history
<1>2. CASE Reply(s) /\ UNCHANGED <<store, writeMu>>
  BY <1>1, <1>2, ReplyInv, QuietInv
<1>3. CASE store' \in SupersedeWaiver(store, NewWaiver(s)) /\ writeMu' = s /\ Goto(s, "mint")
  <2>1. Keeps(store, store')
    BY <1>3, SupersedeKeeps DEF SignerInv, Shapes
  <2>2. StoreOK(store') /\ Firm
    BY <2>1, FirmKeeps DEF Keeps
  <2>3. GoesTo(s, "mint")
    BY <1>3, GotoFacts
  <2>4. SubjectsOf(sign[s].req) \cap sign[s].barred = {} /\ (FailClosed => sign[s].recorded)
    BY ZenonT(30), <1>1 DEF SignerInv, SignInv
  <2>5. SignInv(s)'
    BY <1>1, <1>3, <2>3, <2>4, GoesInv
  <2> QED
    BY Zenon, <1>1, <2>2, <2>3, <2>5, OneSign DEF GoesTo
<1> QED
  BY ZenonT(30), <1>2, <1>3 DEF maybeLearnWaiver

LEMMA MintInv ==
    ASSUME SignerInv, NEW s \in Signs, mintWaiver(s)
    PROVE  SignerInv'
<1>1. /\ sign[s].pc = "mint" /\ writeMu' = Free /\ Reply(s) /\ Mint(NewWaiver(s))
      /\ UNCHANGED <<admin, up, now, ack>>
  BY DEF mintWaiver
<1>2. writeMu = s
  BY Zenon, <1>1 DEF SignerInv, SignInv
<1>3. Keeps(store, store')
  BY <1>1, WaiverAudited, MintKeeps DEF SignerInv, Shapes
<1>4. StoreOK(store') /\ Firm
  BY <1>3, FirmKeeps DEF Keeps
<1> QED
  BY Zenon, <1>1, <1>2, <1>4, ReplyInv, OneSign

-----------------------------------------------------------------------------
(* The administrative handlers.                                            *)
LEMMA AdminAt ==
    ASSUME SignerInv, NEW a \in Admins, NEW q, admin' = [admin EXCEPT ![a] = q]
    PROVE  admin'[a] = q
BY DEF SignerInv, Shapes

LEMMA IdleAdminInv ==
    ASSUME NEW a \in Admins, admin'[a] = IdleAdmin
    PROVE  AdminInv(a)'
<1>1. IdleAdmin.pc = "idle"
  BY DEF IdleAdmin
<1> QED
  BY <1>1 DEF AdminInv

LEMMA FreezeInv ==
    ASSUME SignerInv, NEW a \in Admins, NEW y \in Subjects, handleFreeze(a, y)
    PROVE  SignerInv'
<1>1. /\ up /\ admin[a].pc = "idle" /\ writeMu = Free
      /\ UNCHANGED <<sign, up, now, ack>>
  BY DEF handleFreeze, history
<1>2. PICK o \in AddFreeze(store, y) :
        /\ store' = o.store
        /\ writeMu' = IF o.res = "error" THEN Free ELSE a
        /\ admin' = IF o.res = "error" THEN admin
                    ELSE [admin EXCEPT ![a] = [pc |-> "revoke", subj |-> y, res |-> o.res]]
  BY Zenon DEF handleFreeze
<1>3. /\ StoreOK(o.store) /\ store.frozen \subseteq o.store.frozen
      /\ \A x \in Subjects : Walled(store, x) => Walled(o.store, x)
      /\ o.res # "error" => y \in o.store.frozen
      /\ o.res = "ok" /\ StateDB => Walled(o.store, y)
  BY Zenon, AddFreezeFacts DEF SignerInv, Shapes
<1>4. StoreOK(store') /\ Firm
  BY <1>2, <1>3 DEF Firm
<1>5. FreezeDurable'
  BY <1>1, <1>4, FirmDurable DEF SignerInv
<1>6. PICK q : admin' = [admin EXCEPT ![a] = q] /\ AdminInv(a)'
  <2>1. CASE o.res = "error"
    <3>1. admin' = [admin EXCEPT ![a] = admin[a]]
      BY Zenon, <1>2, <2>1 DEF SignerInv, Shapes
    <3>2. AdminInv(a)'
      BY <1>1, <1>2, <2>1 DEF AdminInv
    <3> QED
      BY Zenon, <3>1, <3>2
  <2>2. CASE o.res # "error"
    <3> DEFINE q == [pc |-> "revoke", subj |-> y, res |-> o.res]
    <3>1. admin' = [admin EXCEPT ![a] = q]
      BY <1>2, <2>2
    <3>2. admin'[a] = q
      BY Zenon, <3>1, AdminAt
    <3>3. /\ admin'[a].pc = "revoke" /\ admin'[a].subj = y /\ admin'[a].res = o.res
          /\ writeMu' = a /\ up' /\ store' = o.store
      BY SMTT(20), <1>1, <1>2, <2>2, <3>2
    <3>4. AdminInv(a)'
      BY <1>3, <2>2, <3>3 DEF AdminInv
    <3> QED
      BY Zenon, <3>1, <3>4
  <2> QED
    BY <2>1, <2>2
<1>7. ack' = [x \in Subjects |-> ack'[x]]
  BY <1>1 DEF SignerInv, Shapes
<1>8. writeMu \in {Free, a}
  BY <1>1
<1> QED
  BY Zenon, <1>1, <1>4, <1>5, <1>6, <1>7, <1>8, OneAdmin

LEMMA RevokeInv ==
    ASSUME SignerInv, NEW a \in Admins, freezeRevoke(a)
    PROVE  SignerInv'
<1> DEFINE y == admin[a].subj
<1>1. /\ admin[a].pc = "revoke" /\ writeMu' = Free
      /\ admin' = [admin EXCEPT ![a] = IdleAdmin] /\ UNCHANGED <<sign, up, now>>
  BY DEF freezeRevoke
<1>2. AdminInv(a) /\ FreezeDurable /\ StoreOK(store)
  BY Zenon DEF SignerInv, Shapes
<1>3. /\ up /\ writeMu = a /\ y \in Subjects /\ y \in store.frozen
      /\ admin[a].res = "ok" /\ StateDB => Walled(store, y)
  BY <1>1, <1>2 DEF AdminInv
<1>4. PICK o \in RevokeForSubject(store, y) :
         store' = o.store /\ ack' = [ack EXCEPT ![y] = Told(y, admin[a].res)]
  BY DEF freezeRevoke
<1>5. Keeps(store, store')
  BY <1>2, <1>4, RevokeForKeeps
<1>6. StoreOK(store') /\ Firm
  BY <1>5, FirmKeeps DEF Keeps
<1>7. /\ ack' = [x \in Subjects |-> ack'[x]] /\ ack'[y] = Told(y, admin[a].res)
      /\ \A x \in Subjects : x # y => ack'[x] = ack[x]
  BY ZenonT(30), <1>3, <1>4 DEF SignerInv, Shapes
<1>8. /\ Told(y, admin[a].res) # "no"
      /\ Told(y, admin[a].res) = "durable" => (admin[a].res = "ok" /\ StateDB) \/ ack[y] = "durable"
  BY DEF Told
<1> HIDE DEF y
<1>9. FreezeDurable'
  <2> SUFFICES ASSUME NEW x \in Subjects
               PROVE  /\ ack'[x] = "durable" => Walled(store', x)
                      /\ up /\ ack'[x] # "no" => x \in store'.frozen
    BY <1>1 DEF FreezeDurable, Walled
  <2>1. /\ ack[x] = "durable" => Walled(store, x)
        /\ up /\ ack[x] # "no" => x \in store.frozen
    BY <1>2 DEF FreezeDurable, Walled
  <2> QED
    BY SMTT(20), <1>3, <1>6, <1>7, <1>8, <2>1 DEF Firm
<1>10. AdminInv(a)'
  BY Zenon, <1>1, AdminAt, IdleAdminInv
<1> QED
  BY Zenon, <1>1, <1>3, <1>6, <1>7, <1>8, <1>9, <1>10, OneAdmin

(* Nobody is between the two halves of a handler while writeMu is free.    *)
LEMMA Unheld ==
    ASSUME SignerInv, writeMu = Free
    PROVE  /\ \A s \in Signs : sign[s].pc # "mint"
           /\ \A a \in Admins : admin[a].pc \notin {"revoke", "sweep"}
BY ZenonT(30), SameMu DEF SignerInv, SignInv, AdminInv

(* An unfreeze releases the subject from what every request was barred by. *)
LEMMA UnfreezeSign ==
    ASSUME SignerInv, NEW a, NEW y, handleUnfreeze(a, y), NEW s \in Signs
    PROVE  SignInv(s)'
<1> DEFINE q == sign[s]
<1>1. SignInv(s) /\ q.pc # "mint" /\ up' = up
  BY Unheld DEF SignerInv, handleUnfreeze
<1>2. sign'[s] = [q EXCEPT !.barred = @ \ {y}]
  BY DEF handleUnfreeze
<1>3. Written(sign'[s], q.pc, q.req, q.gated, q.recorded, q.barred \ {y})
  BY <1>1, <1>2 DEF SignInv, Written
<1>4. \A x \in q.barred \ {y} : x \in Subjects /\ ack'[x] # "no"
  BY Zenon, <1>1 DEF SignInv, handleUnfreeze, SignerInv, Shapes
<1>5. Fields(sign'[s], q.pc, q.req, q.gated, q.recorded, q.barred \ {y})
  BY <1>3, SignFields, Zenon
<1> QED
  BY <1>1, <1>4, <1>5 DEF SignInv, Fields

LEMMA UnfreezeInv ==
    ASSUME SignerInv, NEW a \in Admins, NEW y \in Subjects, handleUnfreeze(a, y)
    PROVE  SignerInv'
<1>1. /\ up /\ admin[a].pc = "idle" /\ writeMu = Free /\ UNCHANGED <<up, now>>
      /\ ack' = [ack EXCEPT ![y] = "no"]
      /\ sign' = [s \in Signs |-> [sign[s] EXCEPT !.barred = @ \ {y}]]
  BY DEF handleUnfreeze
<1>2. PICK o \in RemoveFreeze(store, y) :
        /\ store' = o.store
        /\ writeMu' = IF o.res = "error" THEN Free ELSE a
        /\ admin' = IF o.res = "error" THEN admin
                    ELSE [admin EXCEPT ![a] = [pc |-> "sweep", subj |-> y, res |-> "ok"]]
  BY DEF handleUnfreeze
<1>3. /\ StoreOK(store')
      /\ \A x \in Subjects : x # y => /\ Walled(store, x) => Walled(store', x)
                                      /\ x \in store.frozen => x \in store'.frozen
  <2>1. StoreOK(store)
    BY DEF SignerInv, Shapes
  <2>2. /\ StoreOK(o.store)
        /\ \A x \in Subjects : x # y => /\ Walled(store, x) => Walled(o.store, x)
                                        /\ x \in store.frozen => x \in o.store.frozen
    BY <2>1, RemoveFreezeFacts, Zenon
  <2>3. store' = o.store
    BY <1>2
  <2> QED
    BY <2>2, <2>3
<1>4. /\ ack' = [x \in Subjects |-> ack'[x]] /\ ack'[y] = "no"
      /\ \A x \in Subjects : x # y => ack'[x] = ack[x]
  BY Zenon, <1>1 DEF SignerInv, Shapes
<1>5. Shapes'
  <2>1. admin' = [b \in Admins |-> admin'[b]] /\ sign' = [s \in Signs |-> sign'[s]]
    BY <1>1, <1>2 DEF SignerInv, Shapes
  <2> QED
    BY <1>1, <1>3, <1>4, <2>1 DEF SignerInv, Shapes
<1>6. FreezeDurable'
  <2> SUFFICES ASSUME NEW x \in Subjects
               PROVE  /\ ack'[x] = "durable" => Walled(store', x)
                      /\ up /\ ack'[x] # "no" => x \in store'.frozen
    BY <1>1 DEF FreezeDurable, Walled
  <2>1. /\ ack[x] = "durable" => Walled(store, x)
        /\ up /\ ack[x] # "no" => x \in store.frozen
    BY DEF SignerInv, FreezeDurable, Walled
  <2> QED
    BY <1>3, <1>4, <2>1
<1>7. ASSUME NEW s \in Signs PROVE SignInv(s)'
  BY UnfreezeSign
<1>8. ASSUME NEW b \in Admins PROVE AdminInv(b)'
  <2>1. AdminInv(b) /\ admin[b].pc \notin {"revoke", "sweep"}
    BY <1>1, Unheld DEF SignerInv
  <2>2. CASE admin'[b] = admin[b]
    BY <1>1, <2>1, <2>2 DEF AdminInv
  <2>3. CASE admin'[b] # admin[b]
    <3>1. b = a /\ writeMu' = a /\ admin'[b] = [pc |-> "sweep", subj |-> y, res |-> "ok"]
      BY <1>2, <2>3 DEF SignerInv, Shapes
    <3> QED
      BY <1>1, <3>1 DEF AdminInv
  <2> QED
    BY <2>2, <2>3
<1> QED
  BY <1>5, <1>6, <1>7, <1>8 DEF SignerInv

(* An administrative request ends with a change of the grants only.        *)
LEMMA AdminEnds ==
    ASSUME SignerInv, NEW a \in Admins, up, Keeps(store, store'),
           admin' = [admin EXCEPT ![a] = IdleAdmin],
           UNCHANGED <<up, now, sign, ack>>, writeMu' = writeMu \/ writeMu \in {Free, a}
    PROVE  SignerInv'
<1>1. StoreOK(store') /\ Firm
  BY FirmKeeps DEF Keeps
<1>2. FreezeDurable'
  BY <1>1, FirmDurable DEF SignerInv
<1>3. AdminInv(a)'
  BY Zenon, AdminAt, IdleAdminInv
<1>4. ack' = [x \in Subjects |-> ack'[x]]
  BY DEF SignerInv, Shapes
<1> QED
  BY Zenon, <1>1, <1>2, <1>3, <1>4, OneAdmin

LEMMA SweepInv ==
    ASSUME SignerInv, NEW a \in Admins, unfreezeSweep(a)
    PROVE  SignerInv'
<1>1. /\ admin[a].pc = "sweep" /\ admin' = [admin EXCEPT ![a] = IdleAdmin]
      /\ UNCHANGED <<sign, up, now, ack>>
  BY Zenon DEF unfreezeSweep
<1>2. up /\ writeMu = a
  BY <1>1 DEF SignerInv, AdminInv
<1>3. PICK o \in RevokeForSubject(store, admin[a].subj) : store' = o.store
  BY DEF unfreezeSweep
<1>4. Keeps(store, store')
  BY <1>3, RevokeForKeeps DEF SignerInv, Shapes
<1> QED
  BY Zenon, <1>1, <1>2, <1>4, AdminEnds

LEMMA CreateInv ==
    ASSUME SignerInv, NEW a \in Admins, NEW g \in Scopes, handleGrantCreate(a, g)
    PROVE  SignerInv'
<1>1. PICK q : /\ q = [IdleAdmin EXCEPT !.pc = "grant", !.subj = g]
               /\ admin' = [admin EXCEPT ![a] = q]
  BY Zenon DEF handleGrantCreate
<1>2. up /\ UNCHANGED <<store, writeMu, sign, up, now, ack>>
  BY DEF handleGrantCreate, history
<1>3. q.pc = "grant" /\ q.subj = g
  BY <1>1 DEF IdleAdmin
<1>4. AdminInv(a)'
  BY ZenonT(30), <1>1, <1>2, <1>3, AdminAt DEF AdminInv
<1>5. StoreOK(store') /\ Firm
  BY <1>2 DEF SignerInv, Shapes, Firm
<1>6. FreezeDurable' /\ ack' = [x \in Subjects |-> ack'[x]]
  BY <1>2, <1>5, FirmDurable DEF SignerInv, Shapes
<1> QED
  BY Zenon, <1>1, <1>2, <1>4, <1>5, <1>6, OneAdmin

LEMMA ExpiryNat == ASSUME SignerInv PROVE now + TTL \in Nat
BY SignerAssumption DEF SignerAssumption, SignerInv, Shapes

LEMMA AllowAudited ==
    ASSUME SignerInv, NEW g \in Scopes, NEW h,
           h = [kind |-> "allow", host |-> g.host, cmd |-> g.cmd, caller |-> g.caller,
                endUser |-> g.endUser, sudo |-> FALSE, sudoUser |-> "",
                expiresAt |-> now + TTL, recorded |-> FALSE]
    PROVE  h \in Audited
<1>1. /\ g.host \in Hosts /\ g.cmd \in Cmds /\ g.caller \in Callers \cup {""}
      /\ g.endUser \in EndUsers \cup {""}
  BY Zenon, SignerAssumption DEF SignerAssumption, Scope
<1>2. now + TTL \in Nat
  BY ExpiryNat, Zenon
<1>3. h.sudo \in BOOLEAN /\ h.recorded \in BOOLEAN
  BY Zenon
<1>4. /\ DOMAIN h = {"kind", "host", "cmd", "caller", "endUser", "sudo", "sudoUser",
                     "expiresAt", "recorded"}
      /\ h = [f \in DOMAIN h |-> h[f]]
  BY Zenon
<1>5. /\ h.kind = "allow" /\ h.host = g.host /\ h.cmd = g.cmd /\ h.caller = g.caller
      /\ h.endUser = g.endUser /\ h.sudoUser = "" /\ h.expiresAt = now + TTL
  BY Zenon
<1>6. /\ h.kind \in {"allow", "waive"} /\ h.host \in Hosts /\ h.cmd \in Cmds
      /\ h.caller \in Callers \cup {""} /\ h.endUser \in EndUsers \cup {""}
      /\ h.sudoUser \in SudoUsers \cup {""} /\ h.expiresAt \in Nat
  BY Zenon, <1>1, <1>2, <1>5
<1>7. h \in Grant
  BY <1>3, <1>4, <1>6, GrantRecord, Zenon
<1> QED
  BY Zenon, <1>5, <1>7 DEF Audited

LEMMA GrantAddInv ==
    ASSUME SignerInv, NEW a \in Admins, grantAdd(a)
    PROVE  SignerInv'
<1>1. /\ admin[a].pc = "grant" /\ admin' = [admin EXCEPT ![a] = IdleAdmin]
      /\ UNCHANGED <<writeMu, sign, up, now, ack>>
  BY Zenon DEF grantAdd
<1>2. up /\ admin[a].subj \in Scopes /\ StoreOK(store)
  BY <1>1 DEF SignerInv, Shapes, AdminInv
<1>3. store' = store \/ \E h \in Audited : Mint(h)
  BY <1>2, AllowAudited, Zenon DEF grantAdd
<1>4. Keeps(store, store')
  BY <1>2, <1>3, MintKeeps, SameKeeps
<1> QED
  BY Zenon, <1>1, <1>2, <1>4, AdminEnds
-----------------------------------------------------------------------------
(* Steps that change the grants only.                                      *)
LEMMA GrantsInv ==
    ASSUME SignerInv, Keeps(store, store'), now' \in Nat,
           UNCHANGED <<writeMu, sign, admin, up, ack>>
    PROVE  SignerInv'
<1>1. StoreOK(store') /\ Firm
  BY FirmKeeps DEF Keeps
<1>2. FreezeDurable' /\ Shapes'
  BY <1>1, FirmDurable DEF SignerInv, Shapes
<1>3. ASSUME NEW s \in Signs PROVE SignInv(s)'
  BY SameSign DEF SignerInv
<1>4. ASSUME NEW a \in Admins PROVE AdminInv(a)'
  BY <1>1, SameAdmin DEF SignerInv
<1> QED
  BY <1>2, <1>3, <1>4 DEF SignerInv

LEMMA GrantRevokeInv ==
    ASSUME SignerInv, NEW id \in GrantIds, handleGrantRevoke(id)
    PROVE  SignerInv'
<1>1. PICK o \in Revoke(store, id) : store' = o.store
  BY DEF handleGrantRevoke
<1>2. Keeps(store, store')
  BY <1>1, RevokeKeeps DEF SignerInv, Shapes
<1>3. now' \in Nat /\ UNCHANGED <<writeMu, sign, admin, up, ack>>
  BY DEF handleGrantRevoke, SignerInv, Shapes
<1> QED
  BY <1>2, <1>3, GrantsInv

LEMMA SweepsInv ==
    ASSUME SignerInv, handleGrantList \/ purgeSweep \/ Tick
    PROVE  SignerInv'
<1>1. Keeps(store, store')
  BY Zenon, ListKeeps, PurgeKeeps, SameKeeps DEF handleGrantList, purgeSweep, Tick, SignerInv,
     Shapes
<1>2. now' \in Nat /\ UNCHANGED <<writeMu, sign, admin, up, ack>>
  BY DEF handleGrantList, purgeSweep, Tick, history, SignerInv, Shapes
<1> QED
  BY Zenon, <1>1, <1>2, GrantsInv

(* A power loss leaves one of the contents that may be left.               *)
LEMMA CrashStore ==
    ASSUME StoreOK(store), Crash
    PROVE  StoreOK(store') /\ \A x \in Subjects : Walled(store, x) => Walled(store', x)
<1>1. CASE store' = store
  BY Zenon, <1>1
<1>2. ASSUME NEW k \in 1..Len(store.wal), store' = [store EXCEPT !.wal = <<@[k]>>]
      PROVE  StoreOK(store') /\ \A x \in Subjects : Walled(store, x) => Walled(store', x)
  <2>1. k \in DOMAIN store.wal /\ store.wal[k] \in Rows
    BY DEF StoreOK
  <2>2. PICK w : w = <<store.wal[k]>> /\ store' = [store EXCEPT !.wal = w]
    BY Zenon, <1>2
  <2>3. w \in Seq(Rows) /\ Len(w) > 0 /\ DOMAIN w = {1} /\ w[1] = store.wal[k]
    BY <2>1, <2>2
  <2>4. store'.wal = w /\ StoreOK(store')
    BY Zenon, <2>2, <2>3 DEF StoreOK
  <2> QED
    BY <2>1, <2>3, <2>4 DEF Walled
<1> QED
  BY <1>1, <1>2 DEF Crash

LEMMA CrashInv ==
    ASSUME SignerInv, Crash
    PROVE  SignerInv'
<1>1. /\ ~up' /\ now' = now
      /\ sign' = [s \in Signs |-> IdleSign] /\ admin' = [a \in Admins |-> IdleAdmin]
      /\ ack' = [x \in Subjects |-> IF ack[x] = "durable" THEN "durable" ELSE "no"]
  BY DEF Crash
<1>2. StoreOK(store') /\ \A x \in Subjects : Walled(store, x) => Walled(store', x)
  BY CrashStore DEF SignerInv, Shapes
<1>3. \A x \in Subjects : ack'[x] # "no" => ack'[x] = "durable" /\ ack[x] = "durable"
  BY Zenon, <1>1
<1>4. Shapes'
  <2>1. sign' = [s \in Signs |-> sign'[s]] /\ admin' = [a \in Admins |-> admin'[a]]
    BY <1>1
  <2>2. ack' = [x \in Subjects |-> ack'[x]]
    BY <1>1
  <2> QED
    BY Zenon, <1>1, <1>2, <1>3, <2>1, <2>2 DEF SignerInv, Shapes
<1>5. FreezeDurable'
  <2> SUFFICES ASSUME NEW x \in Subjects, ack'[x] = "durable"
               PROVE  Walled(store', x)
    BY Zenon, <1>1 DEF FreezeDurable, Walled
  <2>1. Walled(store, x)
    BY Zenon, <1>3 DEF SignerInv, FreezeDurable, Walled
  <2> QED
    BY <1>2, <2>1
<1>6. ASSUME NEW s \in Signs PROVE SignInv(s)'
  <2>1. sign'[s] = IdleSign
    BY Zenon, <1>1
  <2>2. /\ IdleSign = [pc |-> IdleSign.pc, req |-> IdleSign.req, gated |-> IdleSign.gated,
                       recorded |-> IdleSign.recorded, barred |-> IdleSign.barred]
        /\ IdleSign.pc = "idle" /\ IdleSign.recorded \in BOOLEAN /\ IdleSign.barred = {}
    BY DEF IdleSign
  <2> QED
    BY <2>1, <2>2 DEF SignInv
<1>7. ASSUME NEW a \in Admins PROVE AdminInv(a)'
  BY Zenon, <1>1, IdleAdminInv
<1> QED
  BY <1>4, <1>5, <1>6, <1>7 DEF SignerInv

(* While the process is down every request is over, so a restart only has  *)
(* to enforce the freezes reported durable.                                *)
LEMMA StartInv ==
    ASSUME SignerInv, Start
    PROVE  SignerInv'
<1>1. /\ ~up /\ up' /\ store' = Loaded(store.wal, now)
      /\ UNCHANGED <<writeMu, sign, admin, now, ack>>
  BY DEF Start, history
<1>2. /\ StoreOK(store')
      /\ \A x \in Subjects : Walled(store, x) => Walled(store', x) /\ x \in store'.frozen
  BY Zenon, <1>1, LoadedFacts DEF SignerInv, Shapes
<1>3. Shapes'
  BY Zenon, <1>1, <1>2 DEF SignerInv, Shapes
<1>4. FreezeDurable'
  <2> SUFFICES ASSUME NEW x \in Subjects, ack[x] # "no"
               PROVE  Walled(store', x) /\ x \in store'.frozen
    BY <1>1 DEF FreezeDurable, Walled
  <2>1. ack[x] = "durable"
    BY <1>1 DEF SignerInv, Shapes
  <2>2. Walled(store, x)
    BY Zenon, <2>1 DEF SignerInv, FreezeDurable, Walled
  <2> QED
    BY Zenon, <1>2, <2>2
<1>5. ASSUME NEW s \in Signs PROVE SignInv(s)'
  BY Zenon, <1>1 DEF SignerInv, SignInv
<1>6. ASSUME NEW a \in Admins PROVE AdminInv(a)'
  BY <1>1 DEF SignerInv, AdminInv
<1> QED
  BY <1>3, <1>4, <1>5, <1>6 DEF SignerInv

LEMMA SameInv ==
    ASSUME SignerInv, UNCHANGED vars
    PROVE  SignerInv'
<1>1. Keeps(store, store') /\ now' \in Nat
  BY SameKeeps DEF vars, SignerInv, Shapes
<1> QED
  BY <1>1, GrantsInv DEF vars
-----------------------------------------------------------------------------
LEMMA NextSigner == SignerInv /\ [Next]_vars => SignerInv'
<1> SUFFICES ASSUME SignerInv, [Next]_vars PROVE SignerInv'
  OBVIOUS
<1>1. ASSUME NEW s \in Signs, NEW r \in Requests, handleSign(s, r) PROVE SignerInv'
  BY <1>1, HandleSignInv
<1>2. ASSUME NEW s \in Signs, SignStep(s) PROVE SignerInv'
  BY SMTT(20), <1>2, FrozenSubjectInv, FrozenPeerInv, PolicyInv, WaiverInv, RespondInv, LearnInv, MintInv
     DEF SignStep
<1>3. ASSUME NEW a \in Admins, NEW y \in Subjects, handleFreeze(a, y) \/ handleUnfreeze(a, y)
      PROVE  SignerInv'
  BY <1>3, FreezeInv, UnfreezeInv
<1>4. ASSUME NEW a \in Admins, NEW g \in Scopes, handleGrantCreate(a, g) PROVE SignerInv'
  BY <1>4, CreateInv
<1>5. ASSUME NEW a \in Admins, AdminStep(a) PROVE SignerInv'
  BY <1>5, RevokeInv, SweepInv, GrantAddInv DEF AdminStep
<1>6. ASSUME NEW id \in GrantIds, handleGrantRevoke(id) PROVE SignerInv'
  BY <1>6, GrantRevokeInv
<1>7. CASE handleGrantList \/ purgeSweep \/ Tick
  BY <1>7, SweepsInv
<1>8. CASE Crash \/ Start
  BY <1>8, CrashInv, StartInv
<1>9. CASE UNCHANGED vars
  BY <1>9, SameInv
<1> QED
  BY Zenon, <1>1, <1>2, <1>3, <1>4, <1>5, <1>6, <1>7, <1>8, <1>9 DEF Next

LEMMA SignerHeld == Spec => []SignerInv
BY InitSigner, NextSigner, PTL DEF Spec

LEMMA Unfrozen == SignerInv => IssuedUnfrozen
BY Zenon DEF SignerInv, SignInv, IssuedUnfrozen

LEMMA Learned == SignerInv => LearnAudited
<1> SUFFICES ASSUME SignerInv, FailClosed, NEW i \in GrantIds,
                    NEW g \in {store.grants[i], Db(store).grants[i]}, g # NoGrant
             PROVE  g.kind = "allow" \/ g.recorded
  BY DEF LearnAudited
<1>1. store.grants \in Grants /\ Db(store).grants \in Grants
  BY Zenon, DbRow DEF SignerInv, Shapes, StoreOK, Rows
<1>2. g \in Audited
  BY <1>1 DEF Grants
<1> QED
  BY <1>2 DEF Audited

(* A freeze that handleFreeze reported is enforced by the running signer,  *)
(* and one that FreezeStore.Add reported durable is in every state of the  *)
(* database a power loss can leave, through any crashes and restarts and   *)
(* whichever statements fail, until an unfreeze is asked for.              *)
THEOREM FreezeDurableHolds == Spec => []FreezeDurable
<1>1. SignerInv => FreezeDurable
  BY DEF SignerInv
<1> QED
  BY <1>1, SignerHeld, PTL

(* handleSign issues only for requests none of whose identities, the       *)
(* forwarding peer's included, was frozen when the request came in and has *)
(* stayed frozen: the two looks of frozenSubject are enough, although the  *)
(* freezes may change between them.                                        *)
THEOREM IssuedUnfrozenHolds == Spec => []IssuedUnfrozen
BY SignerHeld, Unfrozen, PTL

(* In fail-closed mode maybeLearnWaiver stores no waiver, in memory or on  *)
(* disk, for an issuance that respondSignResult did not record first.      *)
THEOREM LearnAuditedHolds == Spec => []LearnAudited
BY SignerHeld, Learned, PTL

-----------------------------------------------------------------------------
(* Grants reported revoked.  Of one grant id: m is what the memory has, d  *)
(* the row.  When no best-effort delete fails the running process has what *)
(* the row has, or has dropped an expired grant whose row is still there.  *)
SweptId(i, m, d, on, t, U, C, G) ==
    /\ m # NoGrant => i \in U
    /\ d # NoGrant => i \in U /\ StateDB
    /\ on /\ StateDB => m = d \/ (m = NoGrant /\ ~active(d, t))
    /\ \A x \in C : /\ on /\ m # NoGrant => ~Scoped(m, x)
                    /\ d # NoGrant /\ active(d, t) => ~Scoped(d, x)
    /\ i \in G => i \in U /\ d = NoGrant /\ (on => m = NoGrant)

(* A row that a power loss may bring back has an id that was handed out.   *)
Logged(st, U) ==
    \A k \in DOMAIN st.wal : \A i \in GrantIds : st.wal[k].grants[i] # NoGrant => i \in U /\ StateDB

(* A learned waiver is minted under the mutex its freeze check was made    *)
(* under.                                                                  *)
MintGuard ==
    \A s \in Signs : sign[s].pc = "mint" =>
        ~Frozen(store, resolveCaller(sign[s].req), sign[s].req.endUser)

SweptInv ==
    /\ Logged(store, used) /\ MintGuard
    /\ \A i \in GrantIds :
        SweptId(i, store.grants[i], Db(store).grants[i], up, now, used, clean, gone)

(* What the operations that add no grant do to one id.                     *)
Thinned(m, d, n, e, t) ==
    \/ n = m /\ e = d
    \/ n = NoGrant /\ e \in {NoGrant, d} /\ (StateDB => e = NoGrant)
    \/ n = NoGrant /\ e = d /\ (m = NoGrant \/ ~active(m, t))

Within(st, to) ==
    \A k \in DOMAIN to.wal : \E j \in DOMAIN st.wal : \A i \in GrantIds :
        to.wal[k].grants[i] \in {NoGrant, st.wal[j].grants[i]}

Thins(st, to, t) ==
    /\ Within(st, to)
    /\ \A i \in GrantIds : Thinned(st.grants[i], Db(st).grants[i], to.grants[i], Db(to).grants[i], t)

LEMMA WithinLogged ==
    ASSUME NEW st, NEW to, NEW U, Within(st, to), Logged(st, U)
    PROVE  Logged(to, U)
<1> SUFFICES ASSUME NEW k \in DOMAIN to.wal, NEW i \in GrantIds, to.wal[k].grants[i] # NoGrant
             PROVE  i \in U /\ StateDB
  BY Zenon DEF Logged
<1>1. PICK j \in DOMAIN st.wal : to.wal[k].grants[i] \in {NoGrant, st.wal[j].grants[i]}
  BY Zenon DEF Within
<1> QED
  BY Zenon, <1>1 DEF Logged

LEMMA WithinSame ==
    ASSUME NEW st, NEW to, to.wal = st.wal
    PROVE  Within(st, to) /\ Db(to) = Db(st)
BY ZenonT(30) DEF Within, Db

LEMMA WithinFrom ==
    ASSUME NEW st, NEW from, NEW to, Within(from, to), from.wal = st.wal
    PROVE  Within(st, to)
BY SMTT(20) DEF Within

LEMMA WithinTo ==
    ASSUME NEW st, NEW by, NEW to, Within(st, by), to.wal = by.wal
    PROVE  Within(st, to) /\ Db(to) = Db(by)
BY DEF Within, Db

(* Commits.                                                                *)
Thinner(st, c) == \A i \in GrantIds : c.grants[i] \in {NoGrant, Db(st).grants[i]}

LEMMA CommitRows ==
    ASSUME NEW st, StoreOK(st), NEW c \in Rows, StateDB, NEW k \in DOMAIN Commit(st, c).wal
    PROVE  Commit(st, c).wal[k] = c \/ \E j \in DOMAIN st.wal : Commit(st, c).wal[k] = st.wal[j]
<1>1. PICK v : /\ v = Append(st.wal, c) \/ v = Append(Tail(st.wal), c)
               /\ Commit(st, c) = [st EXCEPT !.wal = v]
  BY Zenon DEF Commit
<1>2. PICK w \in Seq(Rows) : st.wal = w /\ Len(w) > 0
  BY DEF StoreOK
<1>3. Commit(st, c).wal = v
  BY SMTT(20), <1>1 DEF StoreOK
<1>4. CASE v = Append(w, c)
  BY SMTT(20), <1>2, <1>3, <1>4
<1>5. CASE v = Append(Tail(w), c)
  <2>1. /\ Tail(w) \in Seq(Rows)
        /\ \A n \in DOMAIN Tail(w) : n + 1 \in DOMAIN w /\ Tail(w)[n] = w[n + 1]
    BY SMTT(20), <1>2
  <2>2. v[k] = c \/ (k \in DOMAIN Tail(w) /\ v[k] = Tail(w)[k])
    BY <1>3, <1>5, <2>1
  <2> QED
    BY SMTT(20), <1>2, <1>3, <2>1, <2>2
<1> QED
  BY <1>1, <1>2, <1>4, <1>5

LEMMA CommitWithin ==
    ASSUME NEW st, StoreOK(st), NEW c \in Rows, Thinner(st, c)
    PROVE  /\ Within(st, Commit(st, c)) /\ Commit(st, c).grants = st.grants
           /\ StoreOK(Commit(st, c))
           /\ Db(Commit(st, c)) = IF StateDB THEN c ELSE Db(st)
<1>1. CASE ~StateDB
  BY Zenon, <1>1, WithinSame DEF Commit
<1>2. CASE StateDB
  <2>1. PICK by : by = Commit(st, c)
    OBVIOUS
  <2>2. Len(st.wal) \in DOMAIN st.wal /\ st.wal[Len(st.wal)] = Db(st)
    BY DEF StoreOK, Db
  <2>3. ASSUME NEW k \in DOMAIN by.wal
        PROVE  \E j \in DOMAIN st.wal : \A i \in GrantIds : by.wal[k].grants[i] \in {NoGrant, st.wal[j].grants[i]}
    <3>1. CASE by.wal[k] = c
      BY Zenon, <2>2, <3>1 DEF Thinner
    <3>2. CASE \E j \in DOMAIN st.wal : by.wal[k] = st.wal[j]
      BY Zenon, <3>2
    <3>3. by.wal[k] = c \/ \E j \in DOMAIN st.wal : by.wal[k] = st.wal[j]
      <4>1. k \in DOMAIN Commit(st, c).wal
        BY Zenon, <2>1
      <4>2. Commit(st, c).wal[k] = c \/ \E j \in DOMAIN st.wal : Commit(st, c).wal[k] = st.wal[j]
        BY ZenonT(30), <1>2, <4>1, CommitRows
      <4> QED
        BY Zenon, <2>1, <4>2
    <3> QED
      BY Zenon, <3>1, <3>2, <3>3
  <2>4. Within(st, by)
    BY Zenon, <2>3 DEF Within
  <2> QED
    BY Zenon, <1>2, <2>1, <2>4, CommitKeeps
<1> QED
  BY Zenon, <1>1, <1>2, StoresAssumption DEF StoresAssumption

LEMMA DroppedRow ==
    ASSUME NEW st, StoreOK(st), NEW ids
    PROVE  /\ Dropped(st, ids) \in Rows /\ Thinner(st, Dropped(st, ids))
           /\ \A i \in GrantIds : Dropped(st, ids).grants[i] = IF i \in ids THEN NoGrant ELSE Db(st).grants[i]
<1>1. Db(st) \in Rows
  BY DbRow
<1>2. PICK m \in Grants : m = Without(Db(st).grants, ids)
  BY <1>1, WithoutGrants DEF Rows
<1>3. \A i \in GrantIds : m[i] = IF i \in ids THEN NoGrant ELSE Db(st).grants[i]
  BY <1>2 DEF Without
<1>4. Dropped(st, ids) = [Db(st) EXCEPT !.grants = m]
  BY Zenon, <1>2 DEF Dropped
<1>5. Dropped(st, ids) \in Rows /\ Dropped(st, ids).grants = m
  BY <1>1, <1>4 DEF Rows
<1> QED
  BY Zenon, <1>3, <1>5 DEF Thinner

LEMMA MemoryFields ==
    ASSUME NEW st, StoreOK(st), NEW m \in Grants, NEW to, to = [st EXCEPT !.grants = m]
    PROVE  to.grants = m /\ to.wal = st.wal /\ StoreOK(to)
BY DEF StoreOK

(* A set of ids leaves the memory and the rows.                            *)
LEMMA DropThins ==
    ASSUME NEW st, StoreOK(st), NEW ids, NEW to, NEW t,
           StoreOK(to), to.grants = Without(st.grants, ids),
           Within(st, to), Db(to) = IF StateDB THEN Dropped(st, ids) ELSE Db(st)
    PROVE  Thins(st, to, t)
<1>1. \A i \in GrantIds : to.grants[i] = IF i \in ids THEN NoGrant ELSE st.grants[i]
  BY Zenon DEF Without
<1>2. \A i \in GrantIds : Dropped(st, ids).grants[i] = IF i \in ids THEN NoGrant ELSE Db(st).grants[i]
  BY SMTT(20), DroppedRow
<1>3. ASSUME NEW i \in GrantIds
      PROVE  Thinned(st.grants[i], Db(st).grants[i], to.grants[i], Db(to).grants[i], t)
  <2>1. CASE i \in ids
    BY Zenon, <1>1, <1>2, <2>1 DEF Thinned
  <2>2. CASE i \notin ids
    BY Zenon, <1>1, <1>2, <2>2 DEF Thinned
  <2> QED
    BY <2>1, <2>2
<1> QED
  BY Zenon, <1>3 DEF Thins

-----------------------------------------------------------------------------
(* The operations of the stores.                                           *)
LEMMA SupersedeThins ==
    ASSUME "besteffort" \notin Faults, NEW st, StoreOK(st), NEW g, NEW t,
           NEW to \in SupersedeWaiver(st, g)
    PROVE  Thins(st, to, t)
<1>1. PICK ids : ids = Twins(st, g)
  OBVIOUS
<1>2. PICK m \in Grants : m = Without(st.grants, ids)
  BY WithoutGrants DEF StoreOK
<1>3. PICK kept : kept = [st EXCEPT !.grants = m]
  BY Zenon
<1>4. to = IF ids = {} THEN kept ELSE Commit(kept, Dropped(st, ids))
  <2>1. Outcomes("besteffort") = {TRUE}
    BY Zenon DEF Outcomes
  <2>2. PICK failed \in {{}} : to = IF ids = failed THEN kept ELSE Commit(kept, Dropped(st, ids \ failed))
    BY Zenon, <1>1, <1>2, <1>3, <2>1 DEF SupersedeWaiver
  <2>3. ids \ {} = ids
    OBVIOUS
  <2> QED
    BY Zenon, <2>2, <2>3
<1>5. kept.grants = m /\ kept.wal = st.wal /\ StoreOK(kept)
  BY <1>3, MemoryFields
<1>6. Db(kept) = Db(st) /\ Within(st, kept)
  BY Zenon, <1>5, WithinSame
<1>7. CASE ids = {}
  <2>1. m = st.grants
    BY <1>2, <1>7 DEF Without, StoreOK, Grants
  <2> QED
    BY Zenon, <1>4, <1>5, <1>6, <1>7, <2>1 DEF Thins, Thinned
<1>8. CASE ids # {}
  <2>1. Dropped(st, ids) \in Rows /\ Thinner(kept, Dropped(st, ids))
    BY Zenon, <1>6, DroppedRow DEF Thinner
  <2>2. /\ Within(kept, to) /\ to.grants = m /\ StoreOK(to)
        /\ Db(to) = IF StateDB THEN Dropped(st, ids) ELSE Db(st)
    BY Zenon, <1>4, <1>5, <1>6, <1>8, <2>1, CommitWithin
  <2>3. Within(st, to)
    BY Zenon, <1>5, <2>2, WithinFrom
  <2> QED
    BY Zenon, <1>2, <2>2, <2>3, DropThins
<1> QED
  BY <1>7, <1>8

LEMMA ListThins ==
    ASSUME NEW st, StoreOK(st), NEW t
    PROVE  /\ Thins(st, ListGrants(st, t), t) /\ ListGrants(st, t).wal = st.wal
           /\ StoreOK(ListGrants(st, t))
           /\ \A i \in GrantIds : ListGrants(st, t).grants[i] =
                IF i \in Expired(st.grants, t) THEN NoGrant ELSE st.grants[i]
<1>1. PICK m \in Grants : m = Without(st.grants, Expired(st.grants, t))
  BY WithoutGrants DEF StoreOK
<1>2. PICK to : to = ListGrants(st, t) /\ to = [st EXCEPT !.grants = m]
  BY Zenon, <1>1 DEF ListGrants
<1>3. to.grants = m /\ to.wal = st.wal /\ StoreOK(to)
  BY Zenon, <1>2, MemoryFields
<1>4. \A i \in GrantIds : m[i] = IF i \in Expired(st.grants, t) THEN NoGrant ELSE st.grants[i]
  BY <1>1 DEF Without
<1>5. Db(to) = Db(st) /\ Within(st, to)
  BY Zenon, <1>3, WithinSame
<1>6. \A i \in GrantIds : Thinned(st.grants[i], Db(st).grants[i], to.grants[i], Db(to).grants[i], t)
  BY ZenonT(30), <1>3, <1>4, <1>5 DEF Thinned, Expired
<1> QED
  BY Zenon, <1>2, <1>3, <1>4, <1>5, <1>6 DEF Thins

(* The purge also needs that the memory holds no grant with another row.   *)
LEMMA PurgeThins ==
    ASSUME NEW st, StoreOK(st), NEW t, NEW to \in Purge(st, t),
           StateDB => \A i \in GrantIds : st.grants[i] \in {NoGrant, Db(st).grants[i]}
    PROVE  Thins(st, to, t)
<1>1. PICK l, ids : l = ListGrants(st, t) /\ ids = Expired(Db(st).grants, t)
  OBVIOUS
<1>2. to = l \/ to = Commit(l, Dropped(st, ids))
  BY Zenon, <1>1 DEF Purge
<1>3. /\ Thins(st, l, t) /\ l.wal = st.wal /\ StoreOK(l)
      /\ \A i \in GrantIds : l.grants[i] = IF i \in Expired(st.grants, t) THEN NoGrant ELSE st.grants[i]
  BY ZenonT(30), <1>1, ListThins
<1>4. CASE to = l
  BY Zenon, <1>3, <1>4
<1>5. CASE to = Commit(l, Dropped(st, ids))
  <2>1. Db(l) = Db(st)
    BY Zenon, <1>3, WithinSame
  <2>2. /\ Dropped(st, ids) \in Rows /\ Thinner(l, Dropped(st, ids))
        /\ \A i \in GrantIds : Dropped(st, ids).grants[i] = IF i \in ids THEN NoGrant ELSE Db(st).grants[i]
    <3>1. /\ Dropped(st, ids) \in Rows /\ Thinner(st, Dropped(st, ids))
          /\ \A i \in GrantIds : Dropped(st, ids).grants[i] = IF i \in ids THEN NoGrant ELSE Db(st).grants[i]
      BY DroppedRow
    <3> QED
      BY Zenon, <2>1, <3>1 DEF Thinner
  <2>3. /\ Within(l, to) /\ to.grants = l.grants
        /\ Db(to) = IF StateDB THEN Dropped(st, ids) ELSE Db(st)
    BY Zenon, <1>3, <1>5, <2>1, <2>2, CommitWithin
  <2>4. Within(st, to)
    BY Zenon, <1>3, <2>3, WithinFrom
  <2>5. ASSUME NEW i \in GrantIds
        PROVE  Thinned(st.grants[i], Db(st).grants[i], to.grants[i], Db(to).grants[i], t)
    <3>1. CASE ~StateDB
      BY Zenon, <1>3, <2>3, <3>1 DEF Thinned, Expired
    <3>2. CASE StateDB
      <4>1. Db(to).grants[i] = IF i \in Expired(Db(st).grants, t) THEN NoGrant ELSE Db(st).grants[i]
        BY Zenon, <1>1, <2>2, <2>3, <3>2
      <4>2. to.grants[i] = IF i \in Expired(st.grants, t) THEN NoGrant ELSE st.grants[i]
        BY Zenon, <1>3, <2>3
      <4>3. CASE st.grants[i] = NoGrant
        BY Zenon, <4>1, <4>2, <4>3 DEF Thinned
      <4>4. CASE st.grants[i] = Db(st).grants[i]
        BY Zenon, <4>1, <4>2, <4>4 DEF Thinned, Expired
      <4> QED
        BY Zenon, <3>2, <4>3, <4>4
    <3> QED
      BY Zenon, <3>1, <3>2, StoresAssumption DEF StoresAssumption
  <2> QED
    BY Zenon, <2>4, <2>5 DEF Thins
<1> QED
  BY SMTT(20), <1>2, <1>4, <1>5

(* What a revocation reports as done is gone from the memory and the rows. *)
LEMMA RevokeThins ==
    ASSUME NEW st, StoreOK(st), NEW id \in GrantIds, NEW t, NEW o \in Revoke(st, id)
    PROVE  /\ Thins(st, o.store, t)
           /\ o.res = "ok" => /\ st.grants[id] # NoGrant /\ o.store.grants[id] = NoGrant
                              /\ StateDB => Db(o.store).grants[id] = NoGrant
<1>1. CASE o.store = st /\ o.res # "ok"
  <2>1. Within(st, st)
    BY Zenon, WithinSame
  <2> QED
    BY Zenon, <1>1, <2>1 DEF Thins, Thinned
<1>2. CASE st.grants[id] # NoGrant /\ o.store = [Commit(st, Dropped(st, {id})) EXCEPT !.grants[id] = NoGrant]
  <2>1. PICK c : c = Commit(st, Dropped(st, {id}))
    OBVIOUS
  <2>2. /\ Within(st, c) /\ c.grants = st.grants /\ StoreOK(c)
        /\ Db(c) = IF StateDB THEN Dropped(st, {id}) ELSE Db(st)
    BY Zenon, <2>1, DroppedRow, CommitWithin
  <2>3. PICK m \in Grants : m = Without(st.grants, {id})
    BY WithoutGrants DEF StoreOK
  <2>4. [st.grants EXCEPT ![id] = NoGrant] = m
    BY <2>3 DEF StoreOK, Grants, Without
  <2>5. PICK to : to = o.store /\ to = [c EXCEPT !.grants = m]
    BY <1>2, <2>1, <2>2, <2>4
  <2>6. to.grants = m /\ to.wal = c.wal /\ StoreOK(to)
    BY ZenonT(30), <2>2, <2>5, MemoryFields
  <2>7. Db(to) = Db(c) /\ Within(st, to)
    BY Zenon, <2>2, <2>6, WithinTo
  <2>8. Thins(st, to, t)
    BY Zenon, <2>2, <2>3, <2>6, <2>7, DropThins
  <2>9. to.grants[id] = NoGrant
    BY SMTT(20), <2>3, <2>6 DEF Without
  <2>10. StateDB => Db(to).grants[id] = NoGrant
    BY <2>2, <2>7, DroppedRow
  <2> QED
    BY Zenon, <1>2, <2>5, <2>8, <2>9, <2>10
<1>3. \/ o.store = st /\ o.res # "ok"
      \/ st.grants[id] # NoGrant /\ o.store = [Commit(st, Dropped(st, {id})) EXCEPT !.grants[id] = NoGrant]
  <2>1. \/ o = [store |-> st, res |-> "absent"] \/ o = [store |-> st, res |-> "error"]
        \/ /\ st.grants[id] # NoGrant
           /\ o = [store |-> [Commit(st, Dropped(st, {id})) EXCEPT !.grants[id] = NoGrant], res |-> "ok"]
    BY Zenon DEF Revoke
  <2>2. PICK to : to = [Commit(st, Dropped(st, {id})) EXCEPT !.grants[id] = NoGrant]
    BY Zenon
  <2>3. \/ o = [store |-> st, res |-> "absent"] \/ o = [store |-> st, res |-> "error"]
        \/ st.grants[id] # NoGrant /\ o = [store |-> to, res |-> "ok"]
    BY Zenon, <2>1, <2>2
  <2>4. (o.store = st /\ o.res # "ok") \/ (st.grants[id] # NoGrant /\ o.store = to)
    BY <2>3
  <2> QED
    BY Zenon, <2>2, <2>4
<1> QED
  BY Zenon, <1>1, <1>2, <1>3

LEMMA RevokeForThins ==
    ASSUME NEW st, StoreOK(st), NEW x, NEW t, NEW o \in RevokeForSubject(st, x)
    PROVE  /\ Thins(st, o.store, t)
           /\ o.res = "ok" => \A i \in ScopedTo(st, x) :
                /\ o.store.grants[i] = NoGrant
                /\ StateDB => Db(o.store).grants[i] = NoGrant
<1>1. PICK ids, c : ids = ScopedTo(st, x) /\ c = Commit(st, Dropped(st, ids)) /\ ids \subseteq GrantIds
  BY Zenon DEF ScopedTo, Live
<1>2. \/ o.store = st /\ (o.res = "ok" => ids = {})
      \/ o.store = [c EXCEPT !.grants = Without(c.grants, ids)]
  <2>1. \/ o = [store |-> st, res |-> "ok"] /\ ids = {}
        \/ o = [store |-> st, res |-> "error"]
        \/ o = [store |-> [c EXCEPT !.grants = Without(c.grants, ids)], res |-> "ok"]
    BY Zenon, <1>1 DEF RevokeForSubject
  <2>2. PICK to : to = [c EXCEPT !.grants = Without(c.grants, ids)]
    BY Zenon
  <2> QED
    BY <2>1, <2>2
<1>3. CASE o.store = st /\ (o.res = "ok" => ids = {})
  <2>1. Within(st, st)
    BY Zenon, WithinSame
  <2> QED
    BY Zenon, <1>1, <1>3, <2>1 DEF Thins, Thinned
<1>4. CASE o.store = [c EXCEPT !.grants = Without(c.grants, ids)]
  <2>1. /\ Within(st, c) /\ c.grants = st.grants /\ StoreOK(c)
        /\ Db(c) = IF StateDB THEN Dropped(st, ids) ELSE Db(st)
    BY Zenon, <1>1, DroppedRow, CommitWithin
  <2>2. PICK m \in Grants : m = Without(st.grants, ids)
    BY WithoutGrants DEF StoreOK
  <2>3. PICK to : to = o.store /\ to = [c EXCEPT !.grants = m]
    BY Zenon, <1>4, <2>1, <2>2
  <2>4. to.grants = m /\ to.wal = c.wal /\ StoreOK(to)
    BY ZenonT(30), <2>1, <2>3, MemoryFields
  <2>5. Db(to) = Db(c) /\ Within(st, to)
    BY Zenon, <2>1, <2>4, WithinTo
  <2>6. Thins(st, to, t)
    BY Zenon, <2>1, <2>2, <2>4, <2>5, DropThins
  <2>7. ASSUME NEW i \in ids PROVE to.grants[i] = NoGrant /\ (StateDB => Db(to).grants[i] = NoGrant)
    <3>1. i \in GrantIds /\ to.grants[i] = NoGrant
      BY <1>1, <2>2, <2>4 DEF Without
    <3> QED
      BY SMTT(20), <2>1, <2>5, <3>1, DroppedRow
  <2> QED
    BY Zenon, <1>1, <2>3, <2>6, <2>7
<1> QED
  BY <1>2, <1>3, <1>4

(* The operations on the freezes leave the grants alone.                   *)
SameGrants(st, to) ==
    StoreOK(to) /\ Within(st, to) /\ to.grants = st.grants /\ Db(to).grants = Db(st).grants

LEMMA SameTrans ==
    ASSUME NEW st, NEW by, NEW to, SameGrants(st, by), SameGrants(by, to)
    PROVE  SameGrants(st, to)
<1>1. ASSUME NEW k \in DOMAIN to.wal
      PROVE  \E l \in DOMAIN st.wal : \A i \in GrantIds : to.wal[k].grants[i] \in {NoGrant, st.wal[l].grants[i]}
  <2>1. PICK j \in DOMAIN by.wal : \A i \in GrantIds : to.wal[k].grants[i] \in {NoGrant, by.wal[j].grants[i]}
    BY Zenon DEF SameGrants, Within
  <2>2. PICK l \in DOMAIN st.wal : \A i \in GrantIds : by.wal[j].grants[i] \in {NoGrant, st.wal[l].grants[i]}
    BY Zenon DEF SameGrants, Within
  <2> QED
    BY ZenonT(30), <2>1, <2>2
<1>2. Within(st, to)
  BY Zenon, <1>1 DEF Within
<1> QED
  BY Zenon, <1>2 DEF SameGrants

LEMMA SameThins ==
    ASSUME NEW st, NEW to, NEW t, SameGrants(st, to)
    PROVE  Thins(st, to, t)
BY Zenon DEF SameGrants, Thins, Thinned

LEMMA RowSame ==
    ASSUME NEW st, StoreOK(st), NEW c \in Rows, c.grants = Db(st).grants
    PROVE  SameGrants(st, Commit(st, c))
<1>1. Thinner(st, c)
  BY Zenon DEF Thinner
<1> QED
  BY Zenon, <1>1, CommitWithin DEF SameGrants

LEMMA FrozenSame ==
    ASSUME NEW st, StoreOK(st), NEW F \in SUBSET Subjects
    PROVE  SameGrants(st, [st EXCEPT !.frozen = F])
<1>1. PICK to : to = [st EXCEPT !.frozen = F]
  BY Zenon
<1>2. to.wal = st.wal /\ to.grants = st.grants /\ StoreOK(to)
  BY <1>1 DEF StoreOK
<1> QED
  BY Zenon, <1>1, <1>2, WithinSame DEF SameGrants

LEMMA CheckpointSame ==
    ASSUME NEW st, StoreOK(st)
    PROVE  SameGrants(st, checkpointDurable(st))
<1>1. PICK to : to = checkpointDurable(st) /\ to = [st EXCEPT !.wal = <<Db(st)>>]
  BY Zenon DEF checkpointDurable
<1>2. /\ to.wal = <<Db(st)>> /\ to.grants = st.grants /\ StoreOK(to)
  BY Zenon, <1>1, CheckpointKeeps DEF StoreOK
<1>3. DOMAIN to.wal = {1} /\ to.wal[1] = Db(st) /\ Db(to) = Db(st)
  BY <1>2 DEF Db
<1>4. Len(st.wal) \in DOMAIN st.wal /\ st.wal[Len(st.wal)] = Db(st)
  BY DEF StoreOK, Db
<1>5. Within(st, to)
  BY Zenon, <1>3, <1>4 DEF Within
<1> QED
  BY Zenon, <1>1, <1>2, <1>3, <1>5 DEF SameGrants

LEMMA AddFreezeSame ==
    ASSUME NEW st, StoreOK(st), NEW y \in Subjects, NEW o \in AddFreeze(st, y)
    PROVE  SameGrants(st, o.store)
<1>1. PICK row, c, enforced :
        /\ row = [Db(st) EXCEPT !.freezes = @ \cup {y}] /\ c = Commit(st, row)
        /\ enforced = [c EXCEPT !.frozen = @ \cup {y}]
  BY Zenon
<1>2. row \in Rows /\ row.grants = Db(st).grants
  BY <1>1, DbRow DEF Rows
<1>3. SameGrants(st, c)
  BY Zenon, <1>1, <1>2, RowSame
<1>4. StoreOK(c) /\ c.frozen \cup {y} \in SUBSET Subjects
  BY <1>3 DEF SameGrants, StoreOK
<1>5. SameGrants(c, enforced) /\ StoreOK(enforced)
  <2>1. SameGrants(c, [c EXCEPT !.frozen = c.frozen \cup {y}])
    BY Zenon, <1>4, FrozenSame
  <2> QED
    BY Zenon, <1>1, <2>1 DEF SameGrants
<1>6. SameGrants(st, enforced)
  BY Zenon, <1>3, <1>5, SameTrans
<1>7. SameGrants(st, checkpointDurable(enforced))
  BY Zenon, <1>5, <1>6, CheckpointSame, SameTrans
<1>8. SameGrants(st, st)
  BY Zenon, WithinSame DEF SameGrants
<1>9. o.store \in {checkpointDurable(enforced), enforced, st}
  <2>1. \/ o = [store |-> checkpointDurable(enforced), res |-> "ok"]
        \/ o = [store |-> enforced, res |-> "notdurable"]
        \/ o = [store |-> st, res |-> "error"]
    BY Zenon, <1>1 DEF AddFreeze
  <2> QED
    BY <2>1
<1> QED
  BY Zenon, <1>6, <1>7, <1>8, <1>9

LEMMA RemoveFreezeSame ==
    ASSUME NEW st, StoreOK(st), NEW y \in Subjects, NEW o \in RemoveFreeze(st, y)
    PROVE  SameGrants(st, o.store)
<1>1. PICK row, c, p, removed :
        /\ row = [Db(st) EXCEPT !.freezes = @ \ {y}] /\ c = Commit(st, row)
        /\ p = checkpointDurable(c) /\ removed = [p EXCEPT !.frozen = @ \ {y}]
  BY Zenon
<1>2. row \in Rows /\ row.grants = Db(st).grants
  BY <1>1, DbRow DEF Rows
<1>3. SameGrants(st, c) /\ StoreOK(c)
  BY Zenon, <1>1, <1>2, RowSame DEF SameGrants
<1>4. SameGrants(c, p) /\ StoreOK(p)
  BY Zenon, <1>1, <1>3, CheckpointSame DEF SameGrants
<1>5. p.frozen \ {y} \in SUBSET Subjects
  BY <1>4 DEF StoreOK
<1>6. SameGrants(p, removed)
  BY Zenon, <1>1, <1>4, <1>5, FrozenSame
<1>7. SameGrants(st, removed)
  BY Zenon, <1>3, <1>4, <1>6, SameTrans
<1>8. SameGrants(st, st)
  BY Zenon, WithinSame DEF SameGrants
<1>9. o.store \in {removed, c, st}
  <2>1. \/ o = [store |-> st, res |-> "absent"]
        \/ o = [store |-> removed, res |-> "ok"]
        \/ o = [store |-> c, res |-> "error"]
        \/ o = [store |-> st, res |-> "error"]
    BY Zenon, <1>1 DEF RemoveFreeze
  <2> QED
    BY <2>1
<1> QED
  BY Zenon, <1>3, <1>7, <1>8, <1>9

(* A new grant has an id that was never handed out.                        *)
Added(st, to, id, g, c) ==
    /\ \A x : Scoped(c, x) <=> Scoped(g, x)
    /\ to.grants[id] = c
    /\ \A i \in GrantIds : i # id => to.grants[i] = st.grants[i]
    /\ \A i \in GrantIds : i # id => Db(to).grants[i] = Db(st).grants[i]
    /\ Db(to).grants[id] = IF StateDB THEN c ELSE Db(st).grants[id]
    /\ \A k \in DOMAIN to.wal : \E j \in DOMAIN st.wal : \A i \in GrantIds :
            i # id \/ ~StateDB => to.wal[k].grants[i] = st.wal[j].grants[i]

LEMMA AddGrantSwept ==
    ASSUME NEW st, StoreOK(st), NEW id \in GrantIds, NEW g \in Audited, NEW to \in AddGrant(st, id, g)
    PROVE  to = st \/ \E c : Added(st, to, id, g, c)
<1>1. PICK u, c, row : /\ u = canonicalGrantSudoUser(g.sudo, g.sudoUser)
                       /\ c = [g EXCEPT !.sudoUser = u]
                       /\ row = [Db(st) EXCEPT !.grants[id] = c]
  BY Zenon
<1>2. to = st \/ to = [Commit(st, row) EXCEPT !.grants[id] = c]
  BY Zenon, <1>1 DEF AddGrant
<1>3. u \in SudoUsers \cup {""}
  BY Zenon, <1>1, StoresAssumption DEF StoresAssumption, canonicalGrantSudoUser, Audited, Grant
<1>4. c \in Audited
  <2>1. c \in Grant /\ c.kind = g.kind /\ c.recorded = g.recorded
    BY Zenon, <1>1, <1>3 DEF Audited, Grant
  <2> QED
    BY Zenon, <2>1 DEF Audited
<1>5. c.caller = g.caller /\ c.endUser = g.endUser
  BY Zenon, <1>1 DEF Audited, Grant
<1>6. \A x : Scoped(c, x) <=> Scoped(g, x)
  BY Zenon, <1>5 DEF Scoped
<1>7. Db(st) \in Rows
  BY DbRow
<1>8. /\ row \in Rows /\ row.grants[id] = c
      /\ \A i \in GrantIds : i # id => row.grants[i] = Db(st).grants[i]
  BY <1>1, <1>4, <1>7 DEF Rows, Grants
<1>9. PICK by : by = Commit(st, row)
  OBVIOUS
<1>10. StoreOK(by) /\ by.grants = st.grants
  BY Zenon, <1>8, <1>9, CommitKeeps
<1>11. CASE to = [by EXCEPT !.grants[id] = c]
  <2>1. /\ to.wal = by.wal /\ to.grants[id] = c
        /\ \A i \in GrantIds : i # id => to.grants[i] = st.grants[i]
    BY <1>10, <1>11 DEF StoreOK, Grants
  <2>2. CASE ~StateDB
    <3>1. by = st
      BY Zenon, <1>9, <2>2 DEF Commit
    <3>2. Db(to) = Db(st) /\ to.wal = st.wal
      BY Zenon, <2>1, <3>1 DEF Db
    <3> QED
      BY Zenon, <1>6, <2>1, <2>2, <3>2 DEF Added
  <2>3. CASE StateDB
    <3>1. Db(to) = row
      <4>1. Db(by) = row
        BY Zenon, <1>8, <1>9, <2>3, CommitKeeps
      <4> QED
        BY <2>1, <4>1 DEF Db
    <3>2. ASSUME NEW k \in DOMAIN by.wal
          PROVE  \E j \in DOMAIN st.wal : \A i \in GrantIds : i # id => by.wal[k].grants[i] = st.wal[j].grants[i]
      <4>1. Len(st.wal) \in DOMAIN st.wal /\ st.wal[Len(st.wal)] = Db(st)
        BY SMTT(20) DEF StoreOK, Db
      <4>2. by.wal[k] = row \/ \E j \in DOMAIN st.wal : by.wal[k] = st.wal[j]
        BY SMTT(20), <1>8, <1>9, <2>3, CommitRows
      <4> QED
        BY Zenon, <1>8, <4>1, <4>2
    <3>3. \A k \in DOMAIN to.wal : \E j \in DOMAIN st.wal : \A i \in GrantIds :
            i # id \/ ~StateDB => to.wal[k].grants[i] = st.wal[j].grants[i]
      BY <2>1, <2>3, <3>2
    <3> QED
      BY ZenonT(30), <1>6, <1>8, <2>1, <2>3, <3>1, <3>3 DEF Added
  <2> QED
    BY Zenon, <2>2, <2>3, StoresAssumption DEF StoresAssumption
<1> QED
  BY Zenon, <1>2, <1>9, <1>11

-----------------------------------------------------------------------------
LEMMA GuardKept ==
    ASSUME MintGuard, store'.frozen = store.frozen,
           \A s \in Signs : sign'[s] = sign[s] \/ sign'[s].pc # "mint"
    PROVE  MintGuard'
BY Zenon DEF MintGuard, Frozen

(* While writeMu is free, nobody is about to mint.                         *)
LEMMA GuardFree ==
    ASSUME SignerInv, writeMu = Free, \A s \in Signs : sign'[s].pc = sign[s].pc
    PROVE  MintGuard'
<1>1. \A s \in Signs : sign[s].pc # "mint"
  BY ZenonT(30), SignerAssumption DEF SignerAssumption, SignerInv, SignInv
<1> QED
  BY Zenon, <1>1 DEF MintGuard

LEMMA SweptNext ==
    ASSUME Logged(store', used'), MintGuard',
           \A i \in GrantIds :
                SweptId(i, store'.grants[i], Db(store').grants[i], up', now', used', clean', gone')
    PROVE  SweptInv'
BY DEF SweptInv, Logged, SweptId, Db

LEMMA ThinsSwept ==
    ASSUME SweptInv, up, up' = up, Thins(store, store', now), UNCHANGED <<now, used, clean, gone>>,
           MintGuard'
    PROVE  SweptInv'
<1>1. Logged(store', used)
  BY Zenon, WithinLogged DEF SweptInv, Thins
<1>2. ASSUME NEW i \in GrantIds
      PROVE  SweptId(i, store'.grants[i], Db(store').grants[i], up, now, used, clean, gone)
  <2>1. SweptId(i, store.grants[i], Db(store).grants[i], up, now, used, clean, gone)
    BY Zenon DEF SweptInv
  <2>2. Thinned(store.grants[i], Db(store).grants[i], store'.grants[i], Db(store').grants[i], now)
    BY Zenon DEF Thins
  <2> QED
    BY Zenon, <2>1, <2>2 DEF SweptId, Thinned
<1> QED
  BY Zenon, <1>1, <1>2, SweptNext

(* Steps of a sign request that do not touch the stores.                   *)
LEMMA QuietStep ==
    ASSUME SignerInv, NEW s \in Signs,
           \/ \E r \in Requests : handleSign(s, r)
           \/ frozenSubject(s) \/ frozenPeer(s) \/ resolveCommandPolicy(s) \/ waiverCheck(s)
           \/ respondSignResult(s)
    PROVE  /\ \A z \in Signs : sign'[z] = sign[z] \/ sign'[z].pc # "mint"
           /\ UNCHANGED <<store, up, now, used, clean, gone>>
<1>1. UNCHANGED <<store, up, now, used, clean, gone>>
  BY Zenon DEF handleSign, frozenSubject, frozenPeer, resolveCommandPolicy, waiverCheck,
         respondSignResult, history
<1>2. /\ sign = [z \in Signs |-> sign[z]]
      /\ sign[s] = [pc |-> sign[s].pc, req |-> sign[s].req, gated |-> sign[s].gated,
                    recorded |-> sign[s].recorded, barred |-> sign[s].barred]
  BY Zenon DEF SignerInv, Shapes, SignInv
<1>3. PICK q : sign' = [sign EXCEPT ![s] = q] /\ q.pc # "mint"
  <2>1. ASSUME Reply(s)
        PROVE  \E q : sign' = [sign EXCEPT ![s] = q] /\ q.pc # "mint"
    <3>1. IdleSign.pc # "mint"
      BY DEF IdleSign
    <3> QED
      BY Zenon, <2>1, <3>1 DEF Reply
  <2>2. ASSUME NEW pc, pc # "mint", Goto(s, pc)
        PROVE  \E q : sign' = [sign EXCEPT ![s] = q] /\ q.pc # "mint"
    <3>1. [sign[s] EXCEPT !.pc = pc].pc = pc
      BY Zenon, <1>2
    <3> QED
      BY Zenon, <2>2, <3>1 DEF Goto
  <2>3. ASSUME NEW r \in Requests, handleSign(s, r)
        PROVE  \E q : sign' = [sign EXCEPT ![s] = q] /\ q.pc # "mint"
    <3>1. PICK b, q : /\ q = [IdleSign EXCEPT !.pc = "frozen", !.req = r, !.barred = b]
                      /\ sign' = [sign EXCEPT ![s] = q]
      BY Zenon, <2>3 DEF handleSign
    <3>2. q.pc = "frozen"
      BY <3>1 DEF IdleSign
    <3> QED
      BY Zenon, <3>1, <3>2
  <2>4. CASE frozenSubject(s)
    BY Zenon, <2>1, <2>2, <2>4 DEF frozenSubject
  <2>5. CASE frozenPeer(s)
    BY Zenon, <2>1, <2>2, <2>5 DEF frozenPeer
  <2>6. CASE resolveCommandPolicy(s)
    BY Zenon, <2>1, <2>2, <2>6 DEF resolveCommandPolicy
  <2>7. CASE waiverCheck(s)
    <3>1. ASSUME NEW b, sign' = [sign EXCEPT ![s].pc = "respond", ![s].gated = b]
          PROVE  \E q : sign' = [sign EXCEPT ![s] = q] /\ q.pc # "mint"
      <4>1. sign' = [sign EXCEPT ![s] = [sign[s] EXCEPT !.pc = "respond", !.gated = b]]
        BY Zenon, <1>2, <3>1
      <4>2. [sign[s] EXCEPT !.pc = "respond", !.gated = b].pc = "respond"
        BY Zenon, <1>2
      <4> QED
        BY Zenon, <4>1, <4>2
    <3> QED
      BY Zenon, <2>1, <2>7, <3>1 DEF waiverCheck
  <2>8. CASE respondSignResult(s)
    <3>1. ASSUME NEW b, sign' = [sign EXCEPT ![s].pc = "learn", ![s].recorded = b]
          PROVE  \E q : sign' = [sign EXCEPT ![s] = q] /\ q.pc # "mint"
      <4>1. sign' = [sign EXCEPT ![s] = [sign[s] EXCEPT !.pc = "learn", !.recorded = b]]
        BY Zenon, <1>2, <3>1
      <4>2. [sign[s] EXCEPT !.pc = "learn", !.recorded = b].pc = "learn"
        BY Zenon, <1>2
      <4> QED
        BY Zenon, <4>1, <4>2
    <3> QED
      BY Zenon, <2>1, <2>8, <3>1 DEF respondSignResult
  <2> QED
    BY Zenon, <2>3, <2>4, <2>5, <2>6, <2>7, <2>8
<1>4. \A z \in Signs : sign'[z] = IF z = s THEN q ELSE sign[z]
  BY <1>2, <1>3
<1> QED
  BY Zenon, <1>1, <1>3, <1>4

LEMMA StillSwept ==
    ASSUME SweptInv, UNCHANGED <<store, up, now, used, clean, gone>>, MintGuard'
    PROVE  SweptInv'
BY ZenonT(30) DEF SweptInv, Logged, SweptId, Db

LEMMA LearnSwept ==
    ASSUME "besteffort" \notin Faults, SignerInv, SweptInv, NEW s \in Signs, maybeLearnWaiver(s)
    PROVE  SweptInv'
<1>1. /\ sign[s].pc = "learn" /\ UNCHANGED <<up, now, used, clean, gone>>
      /\ sign = [z \in Signs |-> sign[z]] /\ StoreOK(store) /\ up
  BY DEF maybeLearnWaiver, history, SignerInv, Shapes, SignInv
<1>2. CASE Reply(s) /\ UNCHANGED <<store, writeMu>>
  <2>1. \A z \in Signs : sign'[z] = IF z = s THEN IdleSign ELSE sign[z]
    BY SMTT(20), <1>1, <1>2 DEF Reply
  <2>2. IdleSign.pc # "mint"
    BY DEF IdleSign
  <2>3. MintGuard'
    BY Zenon, <1>2, <2>1, <2>2, GuardKept DEF SweptInv
  <2> QED
    BY Zenon, <1>1, <1>2, <2>3, StillSwept
<1>3. CASE /\ MayMint(resolveCaller(sign[s].req), sign[s].req.endUser)
           /\ store' \in SupersedeWaiver(store, NewWaiver(s)) /\ Goto(s, "mint")
  <2>1. Thins(store, store', now)
    BY Zenon, <1>1, <1>3, SupersedeThins
  <2>2. store'.frozen = store.frozen
    BY Zenon, <1>1, <1>3, SupersedeKeeps DEF Keeps
  <2>3. GoesTo(s, "mint")
    BY Zenon, <1>3, GotoFacts
  <2>4. sign'[s].req = sign[s].req
    BY <2>3 DEF GoesTo
  <2>5. \A z \in Signs : z # s => sign'[z] = sign[z]
    BY <1>1, <2>3 DEF GoesTo
  <2>6. MintGuard'
    BY Zenon, <1>3, <2>2, <2>4, <2>5 DEF MintGuard, SweptInv, MayMint, Frozen
  <2> QED
    BY Zenon, <1>1, <2>1, <2>6, ThinsSwept
<1> QED
  BY Zenon, <1>2, <1>3 DEF maybeLearnWaiver

(* A grant that is minted while a subject is reported clean and still      *)
(* frozen is not scoped to it.                                             *)
LEMMA MintSwept ==
    ASSUME SignerInv, SweptInv, NEW g \in Audited, Mint(g), up, UNCHANGED <<up, now, gone>>, MintGuard',
           ~Frozen(store, g.caller, g.endUser)
    PROVE  SweptInv'
<1>1. CASE UNCHANGED <<store, used, clean>>
  BY Zenon, <1>1, StillSwept
<1>2. ASSUME NEW id \in GrantIds \ used, store' \in AddGrant(store, id, g), used' = used \cup {id},
             clean' = {x \in clean : x \in store.frozen \/ ~Scoped(g, x)}
      PROVE  SweptInv'
  <2>1. StoreOK(store)
    BY Zenon DEF SignerInv, Shapes
  <2>2. \A i \in GrantIds : SweptId(i, store.grants[i], Db(store).grants[i], up, now, used, clean, gone)
    BY Zenon DEF SweptInv
  <2>3. \A x \in clean' : x \in clean /\ ~Scoped(g, x)
    <3> SUFFICES ASSUME NEW x \in clean, x \in store.frozen, Scoped(g, x) PROVE FALSE
      BY Zenon, <1>2
    <3>1. x \in Subjects
      BY <2>1 DEF StoreOK
    <3> QED
      BY <3>1, LookFinds DEF Scoped
  <2>4. CASE store' = store
    <3>1. Logged(store', used')
      BY Zenon, <1>2, <2>4 DEF SweptInv, Logged
    <3>2. ASSUME NEW i \in GrantIds
          PROVE  SweptId(i, store'.grants[i], Db(store').grants[i], up', now', used', clean', gone')
      BY Zenon, <1>2, <2>2, <2>3, <2>4 DEF SweptId
    <3> QED
      BY Zenon, <3>1, <3>2, SweptNext
  <2>5. ASSUME NEW c, Added(store, store', id, g, c) PROVE SweptInv'
    <3>1. Logged(store', used')
      <4> SUFFICES ASSUME NEW k \in DOMAIN store'.wal, NEW i \in GrantIds,
                          store'.wal[k].grants[i] # NoGrant
                   PROVE  i \in used' /\ StateDB
        BY Zenon DEF Logged
      <4>1. PICK j \in DOMAIN store.wal :
              i # id \/ ~StateDB => store'.wal[k].grants[i] = store.wal[j].grants[i]
        BY Zenon, <2>5 DEF Added
      <4> QED
        BY Zenon, <1>2, <4>1 DEF SweptInv, Logged
    <3>2. ASSUME NEW i \in GrantIds, i # id
          PROVE  SweptId(i, store'.grants[i], Db(store').grants[i], up', now', used', clean', gone')
      <4>1. store'.grants[i] = store.grants[i] /\ Db(store').grants[i] = Db(store).grants[i]
        BY Zenon, <2>5, <3>2 DEF Added
      <4>2. SweptId(i, store.grants[i], Db(store).grants[i], up', now', used', clean', gone')
        BY Zenon, <1>2, <2>2, <2>3 DEF SweptId
      <4> QED
        BY Zenon, <4>1, <4>2
    <3>3. SweptId(id, store'.grants[id], Db(store').grants[id], up', now', used', clean', gone')
      <4>1. SweptId(id, store.grants[id], Db(store).grants[id], up, now, used, clean, gone)
        BY Zenon, <2>2
      <4>2. Db(store).grants[id] = NoGrant /\ id \notin gone /\ id \in used'
        BY Zenon, <1>2, <4>1 DEF SweptId
      <4>3. \A x \in clean' : ~Scoped(c, x)
        BY Zenon, <2>3, <2>5 DEF Added
      <4> QED
        BY Zenon, <2>5, <4>2, <4>3 DEF SweptId, Added
    <3> QED
      BY Zenon, <3>1, <3>2, <3>3, SweptNext
  <2>6. PICK to \in AddGrant(store, id, g) : to = store'
    BY Zenon, <1>2
  <2>7. id \in GrantIds
    BY Zenon
  <2>8. to = store \/ \E c : Added(store, to, id, g, c)
    BY Zenon, <2>1, <2>7, AddGrantSwept
  <2> QED
    BY Zenon, <2>4, <2>5, <2>6, <2>8
<1> QED
  BY Zenon, <1>1, <1>2 DEF Mint

LEMMA MintWaiverSwept ==
    ASSUME SignerInv, SweptInv, NEW s \in Signs, mintWaiver(s)
    PROVE  SweptInv'
<1>1. /\ sign[s].pc = "mint" /\ Reply(s) /\ Mint(NewWaiver(s)) /\ UNCHANGED <<up, now, gone>>
  BY Zenon DEF mintWaiver
<1>2. up /\ StoreOK(store) /\ sign = [z \in Signs |-> sign[z]]
  BY Zenon, <1>1 DEF SignerInv, Shapes, SignInv
<1>3. NewWaiver(s) \in Audited
  BY ZenonT(30), <1>1, WaiverAudited
<1>4. NewWaiver(s).caller = resolveCaller(sign[s].req) /\ NewWaiver(s).endUser = sign[s].req.endUser
  BY Zenon DEF NewWaiver, Intent
<1>5. ~Frozen(store, NewWaiver(s).caller, NewWaiver(s).endUser)
  BY Zenon, <1>1, <1>4 DEF SweptInv, MintGuard
<1>6. \A z \in Signs : sign'[z] = IF z = s THEN IdleSign ELSE sign[z]
  BY SMTT(20), <1>1, <1>2 DEF Reply
<1>7. IdleSign.pc # "mint"
  BY DEF IdleSign
<1>8. store'.frozen = store.frozen
  BY Zenon, <1>1, <1>2, <1>3, MintKeeps DEF Keeps
<1>9. MintGuard'
  BY Zenon, <1>6, <1>7, <1>8, GuardKept DEF SweptInv
<1> QED
  BY Zenon, <1>1, <1>2, <1>3, <1>5, <1>9, MintSwept

LEMMA GrantAddSwept ==
    ASSUME SignerInv, SweptInv, NEW a \in Admins, grantAdd(a)
    PROVE  SweptInv'
<1>1. admin[a].pc = "grant" /\ UNCHANGED <<sign, up, now, gone>>
  BY Zenon DEF grantAdd
<1>2. up /\ admin[a].subj \in Scopes /\ StoreOK(store)
  BY Zenon, <1>1 DEF SignerInv, Shapes, AdminInv
<1> DEFINE g == admin[a].subj
           h == [kind |-> "allow", host |-> g.host, cmd |-> g.cmd, caller |-> g.caller,
                 endUser |-> g.endUser, sudo |-> FALSE, sudoUser |-> "",
                 expiresAt |-> now + TTL, recorded |-> FALSE]
<1>3. h \in Audited /\ h.caller = g.caller /\ h.endUser = g.endUser
  BY Zenon, <1>2, AllowAudited
<1>4. UNCHANGED <<store, used, clean>> \/ (MayMint(g.caller, g.endUser) /\ Mint(h))
  BY Zenon DEF grantAdd
<1> HIDE DEF h
<1>5. CASE UNCHANGED <<store, used, clean>>
  <2>1. MintGuard'
    BY Zenon, <1>1, <1>5, GuardKept DEF SweptInv
  <2> QED
    BY Zenon, <1>1, <1>5, <2>1, StillSwept
<1>6. CASE MayMint(g.caller, g.endUser) /\ Mint(h)
  <2>1. store'.frozen = store.frozen
    BY Zenon, <1>2, <1>3, <1>6, MintKeeps DEF Keeps
  <2>2. MintGuard'
    BY Zenon, <1>1, <2>1, GuardKept DEF SweptInv
  <2>3. ~Frozen(store, h.caller, h.endUser)
    BY Zenon, <1>3, <1>6 DEF MayMint
  <2> QED
    BY Zenon, <1>1, <1>2, <1>3, <1>6, <2>2, <2>3, MintSwept
<1> QED
  BY <1>4, <1>5, <1>6

(* A revocation reported done: handleFreeze, handleUnfreeze and            *)
(* handleGrantRevoke.                                                      *)
LEMMA RevokedSwept ==
    ASSUME SweptInv, up, up' = up, UNCHANGED <<now, used>>, MintGuard', Thins(store, store', now),
           NEW ids \in SUBSET GrantIds, gone' = gone \cup ids,
           NEW X, clean' = clean \cup X,
           \A i \in ids : /\ store.grants[i] # NoGrant /\ store'.grants[i] = NoGrant
                          /\ StateDB => Db(store').grants[i] = NoGrant,
           \A x \in X, i \in GrantIds : i \notin ids /\ store.grants[i] # NoGrant => ~Scoped(store.grants[i], x)
    PROVE  SweptInv'
<1>1. Logged(store', used')
  BY Zenon, WithinLogged DEF SweptInv, Thins
<1>2. ASSUME NEW i \in GrantIds
      PROVE  SweptId(i, store'.grants[i], Db(store').grants[i], up', now', used', clean', gone')
  <2>1. PICK m, d, n, e : /\ m = store.grants[i] /\ d = Db(store).grants[i]
                          /\ n = store'.grants[i] /\ e = Db(store').grants[i]
    BY Zenon
  <2>2. SweptId(i, m, d, up, now, used, clean, gone)
    BY Zenon, <2>1 DEF SweptInv
  <2>3. Thinned(m, d, n, e, now)
    BY Zenon, <2>1 DEF Thins
  <2>4. CASE i \in ids
    <3>1. m # NoGrant /\ n = NoGrant /\ (StateDB => e = NoGrant)
      BY Zenon, <2>1, <2>4
    <3>2. e = NoGrant /\ i \in used
      BY Zenon, <2>2, <2>3, <3>1 DEF SweptId, Thinned
    <3> QED
      BY Zenon, <2>1, <3>1, <3>2 DEF SweptId
  <2>5. CASE i \notin ids
    <3>1. \A x \in X : m # NoGrant => ~Scoped(m, x)
      BY Zenon, <2>1, <2>5
    <3>2. SweptId(i, n, e, up, now, used, clean, gone)
      BY Zenon, <2>2, <2>3 DEF SweptId, Thinned
    <3>3. \A x \in X : n # NoGrant => ~Scoped(n, x)
      BY Zenon, <2>3, <3>1 DEF Thinned
    <3>4. \A x \in X : e # NoGrant /\ active(e, now) => ~Scoped(e, x)
      BY Zenon, <2>2, <2>3, <3>1 DEF SweptId, Thinned
    <3> QED
      BY Zenon, <2>1, <2>5, <3>2, <3>3, <3>4 DEF SweptId
  <2> QED
    BY ZenonT(30), <2>4, <2>5
<1> QED
  BY Zenon, <1>1, <1>2, SweptNext

LEMMA RevokeForSwept ==
    ASSUME SignerInv, SweptInv, up, up' = up, UNCHANGED <<now, used, sign>>, NEW x,
           NEW o \in RevokeForSubject(store, x), store' = o.store,
           clean' = IF o.res = "ok" THEN clean \cup {x} ELSE clean,
           gone' = IF o.res = "ok" THEN gone \cup ScopedTo(store, x) ELSE gone
    PROVE  SweptInv'
<1>1. StoreOK(store)
  BY Zenon DEF SignerInv, Shapes
<1>2. store'.frozen = store.frozen
  BY Zenon, <1>1, RevokeForKeeps DEF Keeps
<1>3. MintGuard'
  BY ZenonT(30), <1>2, GuardKept DEF SweptInv
<1>4. /\ Thins(store, store', now)
      /\ o.res = "ok" => \A i \in ScopedTo(store, x) :
            store'.grants[i] = NoGrant /\ (StateDB => Db(store').grants[i] = NoGrant)
  <2>1. /\ Thins(store, o.store, now)
        /\ o.res = "ok" => \A i \in ScopedTo(store, x) :
              o.store.grants[i] = NoGrant /\ (StateDB => Db(o.store).grants[i] = NoGrant)
    <3>1. \A t : Thins(store, o.store, t)
      BY ZenonT(30), <1>1, RevokeForThins
    <3>2. ASSUME o.res = "ok", NEW i \in ScopedTo(store, x)
          PROVE  o.store.grants[i] = NoGrant /\ (StateDB => Db(o.store).grants[i] = NoGrant)
      BY <1>1, <3>2, RevokeForThins
    <3> QED
      BY Zenon, <3>1, <3>2
  <2> QED
    BY <2>1
<1>5. CASE o.res # "ok"
  BY Zenon, <1>3, <1>4, <1>5, ThinsSwept
<1>6. CASE o.res = "ok"
  <2>1. PICK ids \in SUBSET GrantIds : ids = ScopedTo(store, x)
    BY Zenon DEF ScopedTo, Live
  <2>2. \A i \in ids : store.grants[i] # NoGrant
    BY Zenon, <2>1 DEF ScopedTo, Live
  <2>3. \A i \in GrantIds : i \notin ids /\ store.grants[i] # NoGrant => ~Scoped(store.grants[i], x)
    BY Zenon, <2>1 DEF ScopedTo, Live
  <2>4. gone' = gone \cup ids /\ clean' = clean \cup {x}
    BY Zenon, <1>6, <2>1
  <2>5. \A y \in {x}, i \in GrantIds : i \notin ids /\ store.grants[i] # NoGrant => ~Scoped(store.grants[i], y)
    BY Zenon, <2>3
  <2>6. \A i \in ids : /\ store.grants[i] # NoGrant /\ store'.grants[i] = NoGrant
                       /\ StateDB => Db(store').grants[i] = NoGrant
    BY Zenon, <1>4, <1>6, <2>1, <2>2
  <2> QED
    BY Zenon, <1>3, <1>4, <2>4, <2>5, <2>6, RevokedSwept
<1> QED
  BY <1>5, <1>6

LEMMA AdminRevokeSwept ==
    ASSUME SignerInv, SweptInv, NEW a \in Admins, freezeRevoke(a) \/ unfreezeSweep(a)
    PROVE  SweptInv'
<1>1. UNCHANGED <<sign, up, now, used>> /\ admin[a].pc \in {"revoke", "sweep"}
  BY ZenonT(30) DEF freezeRevoke, unfreezeSweep
<1>2. up
  BY <1>1 DEF SignerInv, AdminInv
<1>3. PICK o \in RevokeForSubject(store, admin[a].subj) :
        /\ store' = o.store
        /\ clean' = IF o.res = "ok" THEN clean \cup {admin[a].subj} ELSE clean
        /\ gone' = IF o.res = "ok" THEN gone \cup ScopedTo(store, admin[a].subj) ELSE gone
  BY Zenon DEF freezeRevoke, unfreezeSweep
<1> QED
  BY Zenon, <1>1, <1>2, <1>3, RevokeForSwept

LEMMA GrantRevokeSwept ==
    ASSUME SignerInv, SweptInv, NEW id \in GrantIds, handleGrantRevoke(id)
    PROVE  SweptInv'
<1>1. up /\ UNCHANGED <<sign, up, now, clean, used>> /\ StoreOK(store)
  BY Zenon DEF handleGrantRevoke, SignerInv, Shapes
<1>2. PICK o \in Revoke(store, id) : /\ store' = o.store
                                     /\ gone' = IF o.res = "ok" THEN gone \cup {id} ELSE gone
  BY Zenon DEF handleGrantRevoke
<1>3. store'.frozen = store.frozen
  BY Zenon, <1>1, <1>2, RevokeKeeps DEF Keeps
<1>4. MintGuard'
  BY ZenonT(30), <1>1, <1>3, GuardKept DEF SweptInv
<1>5. /\ Thins(store, store', now)
      /\ o.res = "ok" => /\ store.grants[id] # NoGrant /\ store'.grants[id] = NoGrant
                         /\ StateDB => Db(store').grants[id] = NoGrant
  <2>1. /\ Thins(store, o.store, now)
        /\ o.res = "ok" => /\ store.grants[id] # NoGrant /\ o.store.grants[id] = NoGrant
                           /\ StateDB => Db(o.store).grants[id] = NoGrant
    BY Zenon, <1>1, RevokeThins
  <2> QED
    BY Zenon, <1>2, <2>1
<1>6. CASE o.res # "ok"
  BY Zenon, <1>1, <1>2, <1>4, <1>5, <1>6, ThinsSwept
<1>7. CASE o.res = "ok"
  <2>1. PICK ids, X : ids = {id} /\ X = {}
    BY Zenon
  <2>2. gone' = gone \cup ids /\ clean' = clean \cup X /\ ids \in SUBSET GrantIds
    BY <1>1, <1>2, <1>7, <2>1
  <2>3. \A i \in ids : /\ store.grants[i] # NoGrant /\ store'.grants[i] = NoGrant
                       /\ StateDB => Db(store').grants[i] = NoGrant
    BY Zenon, <1>5, <1>7, <2>1
  <2>4. \A x \in X, i \in GrantIds : i \notin ids /\ store.grants[i] # NoGrant => ~Scoped(store.grants[i], x)
    BY Zenon, <2>1
  <2> QED
    BY Zenon, <1>1, <1>4, <1>5, <2>2, <2>3, <2>4, RevokedSwept
<1> QED
  BY <1>6, <1>7

(* The freezes, and the sweeps of expired grants.                          *)
LEMMA FreezeSwept ==
    ASSUME SignerInv, SweptInv, NEW a \in Admins, NEW y \in Subjects,
           handleFreeze(a, y) \/ handleUnfreeze(a, y)
    PROVE  SweptInv'
<1>1. up /\ writeMu = Free /\ UNCHANGED <<up, now, clean, used, gone>> /\ StoreOK(store)
  BY Zenon DEF handleFreeze, handleUnfreeze, history, SignerInv, Shapes
<1>2. \A s \in Signs : sign'[s].pc = sign[s].pc
  <2>1. CASE sign' = sign
    BY Zenon, <2>1
  <2>2. ASSUME sign' = [s \in Signs |-> [sign[s] EXCEPT !.barred = @ \ {y}]], NEW s \in Signs
        PROVE  sign'[s].pc = sign[s].pc
    <3>1. sign[s] = [pc |-> sign[s].pc, req |-> sign[s].req, gated |-> sign[s].gated,
                     recorded |-> sign[s].recorded, barred |-> sign[s].barred]
      BY Zenon DEF SignerInv, SignInv
    <3>2. sign'[s] = [sign[s] EXCEPT !.barred = @ \ {y}]
      BY Zenon, <2>2
    <3> QED
      BY Zenon, <3>1, <3>2
  <2> QED
    BY Zenon, <2>1, <2>2 DEF handleFreeze, handleUnfreeze
<1>3. MintGuard'
  BY Zenon, <1>1, <1>2, GuardFree
<1>4. SameGrants(store, store')
  <2>1. PICK o : o \in AddFreeze(store, y) \cup RemoveFreeze(store, y) /\ store' = o.store
    BY Zenon DEF handleFreeze, handleUnfreeze
  <2> QED
    BY Zenon, <1>1, <2>1, AddFreezeSame, RemoveFreezeSame
<1> QED
  BY Zenon, <1>1, <1>3, <1>4, SameThins, ThinsSwept

LEMMA SweepsSwept ==
    ASSUME SignerInv, SweptInv, handleGrantList \/ purgeSweep
    PROVE  SweptInv'
<1>1. up /\ UNCHANGED <<sign, up, now, clean, used, gone>> /\ StoreOK(store)
  BY Zenon DEF handleGrantList, purgeSweep, history, SignerInv, Shapes
<1>2. StateDB => \A i \in GrantIds : store.grants[i] \in {NoGrant, Db(store).grants[i]}
  BY Zenon, <1>1 DEF SweptInv, SweptId
<1>3. Thins(store, store', now)
  BY Zenon, <1>1, <1>2, ListThins, PurgeThins DEF handleGrantList, purgeSweep
<1>4. store'.frozen = store.frozen
  BY ZenonT(30), <1>1, ListKeeps, PurgeKeeps DEF handleGrantList, purgeSweep, Keeps
<1>5. MintGuard'
  BY Zenon, <1>1, <1>4, GuardKept DEF SweptInv
<1> QED
  BY Zenon, <1>1, <1>3, <1>5, ThinsSwept

LEMMA TickSwept ==
    ASSUME SignerInv, SweptInv, Tick
    PROVE  SweptInv'
<1>1. now' = now + 1 /\ UNCHANGED <<store, sign, up, clean, used, gone>>
  BY Zenon DEF Tick, history
<1>2. now \in Nat /\ StoreOK(store)
  BY Zenon DEF SignerInv, Shapes
<1>3. Db(store) \in Rows
  BY SMTT(20), <1>2, DbRow
<1>4. ASSUME NEW i \in GrantIds, Db(store).grants[i] # NoGrant, active(Db(store).grants[i], now')
      PROVE  active(Db(store).grants[i], now)
  <2>1. Db(store).grants[i].expiresAt \in Nat
    BY Zenon, <1>3, <1>4 DEF Rows, Grants, Audited, Grant
  <2> QED
    BY SMTT(20), <1>1, <1>2, <1>4, <2>1 DEF active
<1>5. ASSUME NEW i \in GrantIds
      PROVE  SweptId(i, store'.grants[i], Db(store').grants[i], up', now', used', clean', gone')
  <2>1. SweptId(i, store.grants[i], Db(store).grants[i], up, now, used, clean, gone)
    BY Zenon DEF SweptInv
  <2>2. SweptId(i, store.grants[i], Db(store).grants[i], up, now', used, clean, gone)
    BY Zenon, <1>4, <2>1 DEF SweptId
  <2>3. store'.grants[i] = store.grants[i] /\ Db(store').grants[i] = Db(store).grants[i]
    BY Zenon, <1>1
  <2> QED
    BY Zenon, <1>1, <2>2, <2>3
<1>6. MintGuard'
  BY Zenon, <1>1, GuardKept DEF SweptInv
<1>7. Logged(store', used')
  BY Zenon, <1>1 DEF SweptInv
<1> QED
  BY Zenon, <1>5, <1>6, <1>7, SweptNext

(* A crash, and a power loss.                                              *)
LEMMA CrashSwept ==
    ASSUME SignerInv, SweptInv, Crash
    PROVE  SweptInv'
<1>1. /\ ~up' /\ sign' = [s \in Signs |-> IdleSign] /\ UNCHANGED <<now, used>> /\ StoreOK(store)
  BY Zenon DEF Crash, SignerInv, Shapes
<1>2. MintGuard'
  <2>1. IdleSign.pc # "mint"
    BY DEF IdleSign
  <2> QED
    BY Zenon, <1>1, <2>1 DEF MintGuard
<1>3. \A i \in GrantIds : SweptId(i, store.grants[i], Db(store).grants[i], up, now, used, clean, gone)
  BY Zenon DEF SweptInv
<1>4. CASE UNCHANGED <<store, clean, gone>>
  <2>1. ASSUME NEW i \in GrantIds
        PROVE  SweptId(i, store'.grants[i], Db(store').grants[i], up', now', used', clean', gone')
    <3>1. SweptId(i, store.grants[i], Db(store).grants[i], up', now', used', clean', gone')
      BY Zenon, <1>1, <1>3, <1>4 DEF SweptId
    <3> QED
      BY Zenon, <1>4, <3>1
  <2>2. Logged(store', used')
    BY Zenon, <1>1, <1>4 DEF SweptInv
  <2> QED
    BY Zenon, <1>2, <2>1, <2>2, SweptNext
<1>5. ASSUME NEW k \in 1..Len(store.wal), store' = [store EXCEPT !.wal = <<@[k]>>],
             clean' = {}, gone' = {}
      PROVE  SweptInv'
  <2>1. k \in DOMAIN store.wal
    BY <1>1 DEF StoreOK
  <2>2. PICK w : w = <<store.wal[k]>> /\ store' = [store EXCEPT !.wal = w]
    BY Zenon, <1>5
  <2>3. w[1] = store.wal[k] /\ Len(w) = 1 /\ DOMAIN w = {1}
    BY <2>2
  <2>4. store'.wal = w /\ store'.grants = store.grants
    BY <1>1, <2>2 DEF StoreOK
  <2>5. Db(store') = store.wal[k]
    BY Zenon, <2>3, <2>4 DEF Db
  <2>6. Logged(store', used')
    BY ZenonT(30), <1>1, <2>1, <2>3, <2>4 DEF SweptInv, Logged
  <2>7. ASSUME NEW i \in GrantIds
        PROVE  SweptId(i, store'.grants[i], Db(store').grants[i], up', now', used', clean', gone')
    <3>1. store'.grants[i] # NoGrant => i \in used'
      BY Zenon, <1>1, <1>3, <2>4 DEF SweptId
    <3>2. Db(store').grants[i] # NoGrant => i \in used' /\ StateDB
      BY Zenon, <1>1, <2>1, <2>5 DEF SweptInv, Logged
    <3> QED
      BY Zenon, <1>1, <1>5, <3>1, <3>2 DEF SweptId
  <2> QED
    BY Zenon, <1>2, <2>6, <2>7, SweptNext
<1> QED
  BY Zenon, <1>4, <1>5 DEF Crash

LEMMA StartSwept ==
    ASSUME SignerInv, SweptInv, Start
    PROVE  SweptInv'
<1>1. /\ ~up /\ up' /\ store' = Loaded(store.wal, now) /\ StoreOK(store)
      /\ UNCHANGED <<sign, now, clean, used, gone>>
  BY Zenon DEF Start, history, SignerInv, Shapes
<1>2. MintGuard'
  BY Zenon, <1>1 DEF MintGuard, SignerInv, SignInv
<1>3. PICK d : d = Db(store).grants
  OBVIOUS
<1>4. /\ store'.wal = store.wal /\ store'.grants = Without(d, Expired(d, now))
  BY SMTT(20), <1>1, <1>3 DEF Loaded, Db
<1>5. /\ \A i \in GrantIds : store'.grants[i] = IF i \in Expired(d, now) THEN NoGrant ELSE d[i]
      /\ Db(store').grants = d
  BY <1>3, <1>4 DEF Without, Db
<1>6. Logged(store', used')
  BY ZenonT(30), <1>1, <1>4 DEF SweptInv, Logged
<1>7. ASSUME NEW i \in GrantIds
      PROVE  SweptId(i, store'.grants[i], Db(store').grants[i], up', now', used', clean', gone')
  <2>1. SweptId(i, store.grants[i], d[i], up, now, used, clean, gone)
    BY Zenon, <1>3 DEF SweptInv
  <2>2. CASE i \in Expired(d, now)
    <3>1. d[i] # NoGrant /\ ~active(d[i], now) /\ store'.grants[i] = NoGrant
      BY Zenon, <1>5, <2>2 DEF Expired
    <3>2. SweptId(i, NoGrant, d[i], up', now, used, clean, gone)
      BY Zenon, <2>1, <3>1 DEF SweptId
    <3> QED
      BY Zenon, <1>1, <1>5, <3>1, <3>2
  <2>3. CASE i \notin Expired(d, now)
    <3>1. (d[i] # NoGrant => active(d[i], now)) /\ store'.grants[i] = d[i]
      BY Zenon, <1>5, <2>3 DEF Expired
    <3>2. SweptId(i, d[i], d[i], up', now, used, clean, gone)
      BY Zenon, <2>1, <3>1 DEF SweptId
    <3> QED
      BY Zenon, <1>1, <1>5, <3>1, <3>2
  <2> QED
    BY Zenon, <2>2, <2>3
<1> QED
  BY Zenon, <1>2, <1>6, <1>7, SweptNext

LEMMA InitSwept == Init => SweptInv
<1> SUFFICES ASSUME Init PROVE SweptInv
  OBVIOUS
<1>1. /\ store.grants = [i \in GrantIds |-> NoGrant] /\ store.wal = <<NoContent>>
      /\ NoContent.grants = [i \in GrantIds |-> NoGrant]
  BY Zenon DEF Init, EmptyStore, NoContent
<1>2. DOMAIN store.wal = {1} /\ store.wal[1] = NoContent /\ Db(store) = NoContent
  BY <1>1 DEF Db
<1>3. Logged(store, used)
  <2>1. \A k \in DOMAIN store.wal : store.wal[k] = NoContent
    BY Zenon, <1>2
  <2> QED
    BY Zenon, <1>1, <2>1 DEF Logged
<1>4. MintGuard
  <2>1. IdleSign.pc # "mint"
    BY DEF IdleSign
  <2> QED
    BY Zenon, <2>1 DEF MintGuard, Init
<1>5. ASSUME NEW i \in GrantIds
      PROVE  SweptId(i, store.grants[i], Db(store).grants[i], up, now, used, clean, gone)
  <2>1. store.grants[i] = NoGrant /\ Db(store).grants[i] = NoGrant /\ clean = {} /\ gone = {}
    BY Zenon, <1>1, <1>2 DEF Init
  <2> QED
    BY Zenon, <2>1 DEF SweptId
<1> QED
  BY Zenon, <1>3, <1>4, <1>5 DEF SweptInv

LEMMA NextSwept ==
    ASSUME "besteffort" \notin Faults
    PROVE  SignerInv /\ SweptInv /\ [Next]_vars => SweptInv'
<1> SUFFICES ASSUME SignerInv, SweptInv, [Next]_vars PROVE SweptInv'
  OBVIOUS
<1>1. ASSUME NEW s \in Signs, (\E r \in Requests : handleSign(s, r)) \/ SignStep(s) PROVE SweptInv'
  <2>1. CASE maybeLearnWaiver(s)
    BY Zenon, <2>1, LearnSwept
  <2>2. CASE mintWaiver(s)
    BY Zenon, <2>2, MintWaiverSwept
  <2>3. CASE \/ \E r \in Requests : handleSign(s, r)
             \/ frozenSubject(s) \/ frozenPeer(s) \/ resolveCommandPolicy(s) \/ waiverCheck(s)
             \/ respondSignResult(s)
    <3>1. /\ \A z \in Signs : sign'[z] = sign[z] \/ sign'[z].pc # "mint"
          /\ UNCHANGED <<store, up, now, used, clean, gone>>
      BY Zenon, <2>3, QuietStep
    <3>2. MintGuard'
      BY Zenon, <3>1, GuardKept DEF SweptInv
    <3> QED
      BY Zenon, <3>1, <3>2, StillSwept
  <2> QED
    BY Zenon, <1>1, <2>1, <2>2, <2>3 DEF SignStep
<1>2. ASSUME NEW a \in Admins, NEW g \in Scopes, handleGrantCreate(a, g) PROVE SweptInv'
  <2>1. UNCHANGED <<store, sign, up, now, used, clean, gone>>
    BY Zenon, <1>2 DEF handleGrantCreate, history
  <2>2. MintGuard'
    BY Zenon, <2>1, GuardKept DEF SweptInv
  <2> QED
    BY Zenon, <2>1, <2>2, StillSwept
<1>3. ASSUME NEW a \in Admins, NEW y \in Subjects, handleFreeze(a, y) \/ handleUnfreeze(a, y)
      PROVE  SweptInv'
  BY Zenon, <1>3, FreezeSwept
<1>4. ASSUME NEW a \in Admins, AdminStep(a) PROVE SweptInv'
  BY Zenon, <1>4, AdminRevokeSwept, GrantAddSwept DEF AdminStep
<1>5. ASSUME NEW id \in GrantIds, handleGrantRevoke(id) PROVE SweptInv'
  BY Zenon, <1>5, GrantRevokeSwept
<1>6. CASE handleGrantList \/ purgeSweep
  BY Zenon, <1>6, SweepsSwept
<1>7. CASE Crash \/ Start \/ Tick
  BY Zenon, <1>7, CrashSwept, StartSwept, TickSwept
<1>8. CASE UNCHANGED vars
  <2>1. UNCHANGED <<store, sign, up, now, used, clean, gone>>
    BY Zenon, <1>8 DEF vars
  <2>2. MintGuard'
    BY Zenon, <2>1, GuardKept DEF SweptInv
  <2> QED
    BY Zenon, <2>1, <2>2, StillSwept
<1> QED
  BY Zenon, <1>1, <1>2, <1>3, <1>4, <1>5, <1>6, <1>7, <1>8 DEF Next

LEMMA GoneNext ==
    ASSUME gone \subseteq GrantIds, [Next]_vars
    PROVE  gone' \subseteq GrantIds
<1>1. \A x : ScopedTo(store, x) \subseteq GrantIds
  BY ZenonT(30) DEF ScopedTo, Live
<1>2. ASSUME NEW a \in Admins, AdminStep(a) PROVE gone' \subseteq GrantIds
  BY Zenon, <1>1, <1>2 DEF AdminStep, freezeRevoke, unfreezeSweep, grantAdd
<1>3. ASSUME NEW id \in GrantIds, handleGrantRevoke(id) PROVE gone' \subseteq GrantIds
  BY <1>3 DEF handleGrantRevoke
<1>4. CASE Crash
  BY Zenon, <1>4 DEF Crash
<1>5. ASSUME NEW s \in Signs, (\E r \in Requests : handleSign(s, r)) \/ SignStep(s) PROVE gone' = gone
  BY Zenon, <1>5 DEF SignStep, handleSign, frozenSubject, frozenPeer, resolveCommandPolicy, waiverCheck,
     respondSignResult, maybeLearnWaiver, mintWaiver, history
<1> QED
  BY Zenon, <1>2, <1>3, <1>4, <1>5 DEF Next, handleGrantCreate, handleFreeze, handleUnfreeze,
     handleGrantList, purgeSweep, Start, Tick, history, vars

LEMMA SweptStay ==
    ASSUME SweptInv, gone \subseteq GrantIds
    PROVE  SweptStays
<1>1. \A i \in GrantIds : SweptId(i, store.grants[i], Db(store).grants[i], up, now, used, clean, gone)
  BY Zenon DEF SweptInv
<1>2. ASSUME NEW x \in clean, up PROVE ScopedTo(store, x) = {}
  <2>1. \A i \in GrantIds : store.grants[i] # NoGrant => ~Scoped(store.grants[i], x)
    BY Zenon, <1>1, <1>2 DEF SweptId
  <2> QED
    BY Zenon, <2>1 DEF ScopedTo, Live
<1>3. ASSUME NEW i \in gone PROVE Db(store).grants[i] = NoGrant /\ (up => store.grants[i] = NoGrant)
  <2>1. i \in GrantIds
    OBVIOUS
  <2> QED
    BY Zenon, <1>1, <2>1 DEF SweptId
<1> QED
  BY Zenon, <1>2, <1>3 DEF SweptStays

(* When no best-effort delete of a row fails, a grant that a freeze, an    *)
(* unfreeze or a revocation reported gone stays gone, in memory and across *)
(* restarts, and a subject reported free of grants gets none by a request  *)
(* that raced its freeze.  Commits, checkpoints and audit appends may      *)
(* fail, and the process may crash, at any point.                          *)
THEOREM SweptStaysHolds == "besteffort" \notin Faults => (Spec => []SweptStays)
<1> SUFFICES ASSUME "besteffort" \notin Faults PROVE Spec => []SweptStays
  OBVIOUS
<1>1. Init => SweptInv
  BY InitSwept
<1>2. SignerInv /\ SweptInv /\ [Next]_vars => SweptInv'
  BY NextSwept
<1>3. gone \subseteq GrantIds /\ [Next]_vars => (gone \subseteq GrantIds)'
  BY GoneNext
<1>4. Init => gone \subseteq GrantIds
  BY Zenon DEF Init
<1>5. SweptInv /\ gone \subseteq GrantIds => SweptStays
  BY SweptStay
<1> QED
  BY <1>1, <1>2, <1>3, <1>4, <1>5, SignerHeld, PTL DEF Spec

=============================================================================
