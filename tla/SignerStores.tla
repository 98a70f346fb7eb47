---------------------------- MODULE SignerStores ----------------------------
(***************************************************************************)
(* The signer's two stores: runtime grants (internal/signer/grants.go) and *)
(* freezes (internal/signer/freeze.go), each a map in memory written       *)
(* through to one SQLite database.  A store operation runs under the       *)
(* store's mutex and is an operator from a store to the set of its         *)
(* outcomes, one for each way the database may behave.                     *)
(*                                                                         *)
(* The database runs in WAL mode with synchronous=NORMAL                   *)
(* (internal/statedb): a commit survives the process, but a power loss may *)
(* drop any suffix of the commits after the last checkpoint.  The wal is   *)
(* the sequence of contents a power loss may go back to; the last one is   *)
(* what the running process reads.                                         *)
(*                                                                         *)
(* An operator named Op_Variant is a faulty variant of Op.                 *)
(***************************************************************************)
EXTENDS Integers, Sequences, FiniteSets

CONSTANTS GrantIds,     \* what newGrantID may return
          Callers,      \* mTLS common names
          EndUsers,     \* end-user identities
          Hosts, Cmds,  \* hosts and clusters; commands and the patterns that match them
          SudoUsers,    \* target users of an elevation, "root" among them
          MaxWal,       \* commits a power loss may drop
          StateDB,      \* whether state_db is configured
          Faults,       \* what may fail: "write", "besteffort", "checkpoint"
          NoGrant

ASSUME StoresAssumption ==
    /\ "" \notin Callers \cup EndUsers \cup SudoUsers /\ "root" \in SudoUsers
    /\ MaxWal \in Nat \ {0} /\ StateDB \in BOOLEAN
    /\ Faults \subseteq {"write", "besteffort", "checkpoint"}

(* A grant widens the allowlist (Allow) or waives an approval              *)
(* (WaiveApproval) for one command.  recorded is a history field: whether  *)
(* the issuance it was learned from is in the audit log.                   *)
Grant == [kind : {"allow", "waive"}, host : Hosts, cmd : Cmds,
          caller : Callers \cup {""}, endUser : EndUsers \cup {""},
          sudo : BOOLEAN, sudoUser : SudoUsers \cup {""},
          expiresAt : Nat, recorded : BOOLEAN]

FreezeSubject == [kind : {"caller"}, value : Callers] \cup [kind : {"end_user"}, value : EndUsers]
                 \cup [kind : {"session_id", "serial"}, value : {"x"}]

(* The content of the database, and of the stores.                         *)
Content == [grants : [GrantIds -> Grant \cup {NoGrant}], freezes : SUBSET FreezeSubject]
NoContent == [grants |-> [i \in GrantIds |-> NoGrant], freezes |-> {}]
Store == [grants : [GrantIds -> Grant \cup {NoGrant}], frozen : SUBSET FreezeSubject,
          wal : Seq(Content)]
EmptyStore == [grants |-> [i \in GrantIds |-> NoGrant], frozen |-> {}, wal |-> <<NoContent>>]
-----------------------------------------------------------------------------
Db(st) == st.wal[Len(st.wal)]

(* A committed statement.  At MaxWal commits SQLite checkpoints the oldest *)
(* one by itself.                                                          *)
Commit(st, content) ==
    IF ~StateDB THEN st
    ELSE [st EXCEPT !.wal = IF Len(@) < MaxWal THEN Append(@, content)
                                               ELSE Append(Tail(@), content)]

(* Whether a statement of this kind may succeed, and fail.                 *)
Outcomes(kind) == {TRUE} \cup IF StateDB /\ kind \in Faults THEN {FALSE} ELSE {}

(* PRAGMA wal_checkpoint(FULL): all commits so far reach the disk.         *)
checkpointDurable_Skipped(st) == st
checkpointDurable(st) == [st EXCEPT !.wal = <<Db(st)>>]

Without(grants, ids) == [i \in GrantIds |-> IF i \in ids THEN NoGrant ELSE grants[i]]
Dropped(st, ids) == [Db(st) EXCEPT !.grants = Without(@, ids)]
-----------------------------------------------------------------------------
(* Grants.                                                                 *)
active(g, now) == now < g.expiresAt

matches(g, host, in) ==
    /\ g.host = host
    /\ g.caller \in {"", in.caller}
    /\ g.endUser \in {"", in.endUser}

canonicalGrantSudoUser(sudo, user) ==
    IF ~sudo THEN "" ELSE IF user = "" THEN "root" ELSE user

waiverApplies(g, host, in) ==
    /\ matches(g, host, in)
    /\ g.sudo = in.sudo
    /\ canonicalGrantSudoUser(g.sudo, g.sudoUser) = canonicalGrantSudoUser(in.sudo, in.sudoUser)
    /\ g.kind = "waive" /\ g.cmd = in.cmd

Live(st) == {i \in GrantIds : st.grants[i] # NoGrant}

(* Whether a live grant allows the command: GrantsFor and the match of its *)
(* allow patterns.                                                         *)
GrantsFor(st, in, now) ==
    \E i \in Live(st) : LET g == st.grants[i] IN
        active(g, now) /\ matches(g, in.host, in) /\ g.kind = "allow" /\ g.cmd = in.cmd

WaiverMatches(st, in, now) ==
    \E i \in Live(st) : active(st.grants[i], now) /\ waiverApplies(st.grants[i], in.host, in)

(* Add: insert first, and touch the memory only when the row is there.     *)
AddGrant(st, id, g) ==
    LET canonical == [g EXCEPT !.sudoUser = canonicalGrantSudoUser(g.sudo, @)]
        added == Commit(st, [Db(st) EXCEPT !.grants[id] = canonical])
    IN  {IF ok THEN [added EXCEPT !.grants[id] = canonical] ELSE st : ok \in Outcomes("write")}

(* SupersedeWaiver: the waivers that re-learning g replaces leave the      *)
(* memory; their rows are deleted best-effort.                             *)
Twins(st, g) ==
    {i \in Live(st) : LET ex == st.grants[i] IN
        /\ ex.kind = "waive" /\ g.kind = "waive" /\ ex.cmd = g.cmd
        /\ ex.host = g.host /\ ex.caller = g.caller /\ ex.endUser = g.endUser /\ ex.sudo = g.sudo
        /\ canonicalGrantSudoUser(ex.sudo, ex.sudoUser) = canonicalGrantSudoUser(g.sudo, g.sudoUser)}
SupersedeWaiver(st, g) ==
    LET ids == Twins(st, g)
        kept == [st EXCEPT !.grants = Without(@, ids)]
        missed == IF FALSE \in Outcomes("besteffort") THEN SUBSET ids ELSE {{}}
    IN  {IF ids = failed THEN kept ELSE Commit(kept, Dropped(st, ids \ failed)) : failed \in missed}

Expired(grants, now) == {i \in GrantIds : grants[i] # NoGrant /\ ~active(grants[i], now)}

(* List drops the expired grants from the memory; Purge from the rows too. *)
ListGrants(st, now) == [st EXCEPT !.grants = Without(@, Expired(@, now))]
Purge(st, now) ==
    {IF ok THEN Commit(ListGrants(st, now), Dropped(st, Expired(Db(st).grants, now)))
           ELSE ListGrants(st, now)
        : ok \in Outcomes("besteffort")}

(* Revoke: the row first; a failure keeps the grant.                       *)
Revoke(st, id) ==
    IF st.grants[id] = NoGrant THEN {[store |-> st, res |-> "absent"]}
    ELSE {IF ok THEN [store |-> [Commit(st, Dropped(st, {id})) EXCEPT !.grants[id] = NoGrant],
                      res   |-> "ok"]
                ELSE [store |-> st, res |-> "error"]
            : ok \in Outcomes("write")}

Scoped(g, subj) ==
    \/ subj.kind = "caller" /\ g.caller = subj.value
    \/ subj.kind = "end_user" /\ g.endUser = subj.value
ScopedTo(st, subj) == {i \in Live(st) : Scoped(st.grants[i], subj)}

(* RevokeForSubject: one transaction, all or nothing.                      *)
RevokeForSubject(st, subj) ==
    LET ids == ScopedTo(st, subj)
    IN  IF ids = {} THEN {[store |-> st, res |-> "ok"]}
        ELSE {IF ok THEN [store |-> [Commit(st, Dropped(st, ids)) EXCEPT !.grants = Without(@, ids)],
                          res   |-> "ok"]
                    ELSE [store |-> st, res |-> "error"]
                : ok \in Outcomes("write")}
-----------------------------------------------------------------------------
(* Freezes.                                                                *)
Frozen(st, caller, endUser) ==
    \/ [kind |-> "caller", value |-> caller] \in st.frozen
    \/ [kind |-> "end_user", value |-> endUser] \in st.frozen

(* FreezeStore.Add: insert, then the memory, then the checkpoint; a failed *)
(* checkpoint leaves the freeze enforced.                                  *)
AddFreeze(st, subj) ==
    LET enforced == [Commit(st, [Db(st) EXCEPT !.freezes = @ \cup {subj}])
                        EXCEPT !.frozen = @ \cup {subj}]
        inserted == {IF ok THEN [store |-> checkpointDurable(enforced), res |-> "ok"]
                           ELSE [store |-> enforced, res |-> "notdurable"]
                        : ok \in Outcomes("checkpoint")}
    IN  inserted \cup {[store |-> st, res |-> "error"] : ok \in Outcomes("write") \ {TRUE}}

(* FreezeStore.Remove: delete and checkpoint, then the memory; when either *)
(* fails the memory keeps the freeze.                                      *)
RemoveFreeze(st, subj) ==
    LET deleted == Commit(st, [Db(st) EXCEPT !.freezes = @ \ {subj}])
    IN  IF subj \notin st.frozen THEN {[store |-> st, res |-> "absent"]}
        ELSE {[store |-> [checkpointDurable(deleted) EXCEPT !.frozen = @ \ {subj}], res |-> "ok"]}
             \cup {[store |-> deleted, res |-> "error"] : ok \in Outcomes("checkpoint") \ {TRUE}}
             \cup {[store |-> st, res |-> "error"] : ok \in Outcomes("write") \ {TRUE}}
-----------------------------------------------------------------------------
(* NewGrantStoreDB, NewFreezeStoreDB: the live grants and all freezes of   *)
(* the database.  Without a state db the wal holds no row.                 *)
Loaded(wal, now) ==
    LET content == wal[Len(wal)]
    IN  [grants |-> Without(content.grants, Expired(content.grants, now)),
         frozen |-> content.freezes,
         wal    |-> wal]
=============================================================================
