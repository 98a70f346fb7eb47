# infrabroker: TLA+ models and proofs

infrabroker gives AI agents and people short-lived SSH and Kubernetes
credentials under policy.  This directory models the parts of it where order,
concurrency, failures, clocks and restarts decide whether it is correct,
model-checks them with TLC, and proves the most important facts with TLAPS.

    cd tla
    tlc -workers 2 -config MCControlPlane_approval.cfg MCControlPlane
    tlapm SignerState_proofs.tla

`PROJECT.json` lists the components, every run with its properties, a mutant
(a plausible bug) for each property, the source lines behind each definition, the
hazards of the code and the theorems.

## The system

A *broker* (`internal/broker`, behind MCP or HTTP) runs commands on hosts and
calls on Kubernetes clusters.  For each it asks for a credential: from the
*signer* (`cmd/signer`, `internal/signer`), which holds the CA key and decides by
policy, or from a *control plane* (`cmd/control-plane`, `internal/control`) in
front of the signer, which holds risky requests until a person approves them and
watches for unusual behaviour.  An *approval bridge* (`internal/bridge`) shows
pending requests in a chat and relays clicks.  On a *sealed* host a shim
(`cmd/infrabroker-shim`) runs only commands the signer put in a signed envelope.
Broker, control plane and signer each keep a hash-chained *audit log*
(`internal/audit`).  `broker-ctl` is the operator's command line.

| component | module | state | hard behaviour |
|---|---|---|---|
| approval registry | `ApprovalRegistry` | entries, rows of the state db | polls race for one approval; expiry while the signer is asked; restart |
| control-plane handlers | `ControlPlane` | polls, decisions whose record is due | several critical sections per request, calls with the lock free |
| behaviour guardrails | `Behavior` | subject table | bounded table, eviction, refused requests |
| promise of the registry | `ApprovalLifecycle` | abstract state per request | what a restart may undo |
| audit log: files, verifier, repair | `AuditFiles` | lines, chain, durable prefix | torn lines, segments |
| audit log: writer | `AuditLog` | `Log` struct, appenders | group commit with the lock free, rotation, faults, crash |
| grants and freezes | `SignerStores` | maps in memory over a SQLite WAL | failing statements, power loss |
| sign, freeze and grant handlers | `SignerState` | requests, `writeMu` | looks at the stores outside the lock, crash between two halves |
| configuration and reload | `SignerConfig` | `signer.json`, installed state | four writers, watcher, outages |
| command firewall | `CommandPolicy` | none (operators) | composition of policies |
| policy decision | `PolicyDecision` | table, grants, last decision | grants and waivers over reloads |
| rate limiter | `RateLimiter` | token buckets | full table, limit changed between read and use |
| sealed exec | `SealedExec` | nonce stores, shims | skewed clocks, sweeping, key rotation, a shim that dies between claim and exec |
| sessions, kill switch, shutdown | `Sessions` | map of live sessions | close against exec, kill against open |
| shell protocol and recorder | `ShellSession` | channel, buffers, recording | timeouts, late output, teardown |
| host table, routes, one-shot commands | `Routes` | copy of the table, calls | the copy changes under a call |
| waits for approvals along a chain | `ApprovalWait` | poll loop, ages of certificates | slow, failing and lost answers, one wait per hop |
| Kubernetes access | `K8sAccess` | tables of broker and signer, calls | stale table, lost answers, failed records |
| approval bridge | `Bridge` | maps, channel, cards | cards outlive the process |

## How the modules are built

A store whose methods hold one mutex is a module of operators from the entry (or
store) a method finds to the one it leaves, or to the set of outcomes when a
write may fail: `ApprovalRegistry`, `Behavior`, `AuditFiles`, `SignerStores`,
`CommandPolicy`.  The module of the process that owns the stores has the
variables and interleaves the calls: a goroutine or a request is a record with a
program counter, an action is one critical section or one stretch of code between
two calls over the network, and carries the name of the function it models.
Faults are sets in the constants, so that a configuration says which ones may
happen.  History variables are marked as such where they are declared; no guard
reads them except to keep a bound or to choose a fresh id.

`MC<Module>.tla` with its `.cfg` files instantiates a module for TLC.
`…_proofs.tla` modules hold theorems.  An operator `Op_Variant` is `Op` with one
plausible mistake and is used by nothing: a mutant replaces `Op` by it, and the
property it is listed for must then fail.  `TypeOK` definitions document the state; they are
proved where the module has proofs, and no run spends its time on them.

### Control plane: `ApprovalRegistry`, `Behavior`, `ControlPlane`

`items` is `Registry.items`, `db` the approvals table, `tracker` the subjects of
the guardrails, `signing` the requests that `handleSign` has with the signer.
`handleSign` asks the guardrails; `SignAnswer` is the rest of it once the signer has
answered, with the registry free to change in between, and registers the request
if a person has to decide.  A poll (`handleResult`) is a thread `PollGet`, then `BeginConsume`,
the call of the signer with the mutex free, the audit gate, `FinishConsume` and
the answer; `handleApprovalDecide` is followed by `DecideGate`, its audit record;
`List` is `handleApprovalsList`.  Purging and expiry (`purgeLocked`,
`expireLocked`) are part of each method that calls them.  A write of the state db
or of the audit log may fail, the answer of the signer may be lost, and `Restart`
may come between any two steps.  `ApprovalLifecycle` is what a requester may rely
on; `ControlPlane` implements it under the mapping `lifecycle`.

### Audit log: `AuditFiles`, `AuditLog`

A line is a record or bytes that do not parse; a hash is the number of a record, so
hashes are free of collisions.  `doAppend`, the group commit (`syncTo` with
its leader, `Cond.Wait` and broadcast), rotation in its five failing steps,
`Close`, `restoreChain` at `Open`, and `broker-ctl audit repair` are actions or
operators.  A crash keeps what an fsync made durable and may tear the last line.

### Signer: `SignerStores`, `SignerState`, `SignerConfig`, `CommandPolicy`, `PolicyDecision`, `RateLimiter`

`SignerStores` models the two stores and the database: a commit survives a crash
of the process, a power loss may go back to any commit after the last
checkpoint (`wal`).  In `SignerState` a sign request takes one step for each look at
a store, because `handleSign` does not hold `writeMu`; `handleFreeze`,
`handleUnfreeze` and approve-and-learn hold it over two store operations, between
which the sign path, the revocation of a grant, the purge sweep or a crash may
come.  `SignerConfig` has the configuration file with its four writers (policy API, reload, an operator's
editor, `broker-ctl`), the watcher and the two reads of the installed state by a
sign request.  `PolicyDecision` takes a request as one step and models what is
decided and signed: compiled tables, composed policies, grants, waivers,
elevation, sealed envelopes and the constraints of the certificate.  A regular
expression is the set of commands it matches; the shell parser is a given function.
`RateLimiter` counts tokens exactly where the code has a float.

### Broker: `Sessions`, `ShellSession`, `Routes`, `ApprovalWait`

`Sessions` has one action per critical section of the session manager and one per
stretch of network I/O or audit writing around it, for `OpenSession`,
`SessionExec`, `CloseSession`, the reaper, the kill-switch poll and
`Engine.Close`; ages saturate one past their limit, so time needs no bound.
`ShellSession` is what happens inside a command: the marker protocol, the drain of
stderr, the abort after a timeout, the recorder, the remote shell and the teardown
by `liveSession.close`.  `Routes` has the copy of the host table with its
background refresh and the refresh of each call, `resolveChain` and `buildHops`
hop by hop, commands, transfers, sessions with their connectivity preflight, their
audit records under either `audit_fail_mode` (`FailClosed`), and the in-chat approval
of `ssh_execute`.  `ApprovalWait` is `buildHops` seen from the clock: for hop after
hop `SignIntent` with `pollApproval`, and the times at which the certificates were
issued.

### `SealedExec`, `K8sAccess`, `Bridge`

A shim is a process: it reads the clock, verifies, sweeps old nonces, claims its
nonce and execs; several run at once, on hosts whose clocks differ.  Opening and
closing the file of the nonce may fail apart, the exec may fail, and a shim may be
killed before any of these steps; `took` is the history of who created a file.
`K8sAccess` runs calls from `K8sExecute` through the signer's handler to the API
server, with a resource table on each side; `Setups` says whether the broker talks to
the signer itself, or to a control plane that it waits for or not.  After an approval
each poll is another request to the signer, until one gives the token or the broker
gives up.  `Bridge` has the `Run` goroutine, the Slack
adapter's `listen`, the bounded channel between them, the chat, and a supervisor.

## Runs

All runs pass; the largest take about two minutes with two workers.

| run | configuration | checks |
|---|---|---|
| `approval` | `MCControlPlane_approval.cfg` | `SingleUse`, `FourEyes`, `NoveltyApproved`, `RedeemWindow`, `RefinesLifecycle` |
| `audit` | `MCAuditLog_log.cfg` | `AckDurable`, `ChainVerifies`, `Recoverable`, `AppendReturns` (liveness) |
| `signer` | `MCSignerState_stores.cfg` | `FreezeDurable`, `IssuedUnfrozen`, `SweptStays`, `LearnAudited` |
| `config` | `MCSignerConfig_config.cfg` | `NarrowingSticks`, `GatedVerified`, `RunsTheFile` |
| `policy` | `MCPolicyDecision_policy.cfg` | `CommandCleared`, `GrantsOnlyWiden`, `Confined`, `ApprovalTraced` |
| `clocks` | `MCClocks_clocks.cfg` | `ChainAge`, `Budget`, `RunOnce`, `RefusedRightly` |
| `sessions_race` | `MCSessions_race.cfg` | `NoOrphanConn`, `SparedWhileBusy`, `LifeAudited` |
| `sessions_live` | `MCSessions_live.cfg` | `FrozenKilled`, `ExpiredClosed` (liveness) |
| `shell` | `MCShellSession_session.cfg` | `WholeOutput`, `StrictRecorded`, `ExecEnds` (liveness) |
| `routes` | `MCRoutes_routes.cfg` | `RouteSound`, `OutputTraced`, `Converges` (liveness) |
| `k8s` | `MCK8sAccess_k8s.cfg` | `RanAsDecided`, `Traced`, `LogsAgree` |
| `bridge` | `MCBridge_bridge.cfg` | `FourEyes`, `Presented` (liveness) |

What they show, and why their bounds are enough:

- **approval.**  A request has one outcome per life of the process, a credential or
  a refusal on record, and once it is refused or known as used no poll takes it to the
  signer (but for an entry purged under a poll that holds it); credentials in fail-closed mode have an approver who is not
  the broker that asked; novelty enters a baseline only by an approval the signer
  honoured; nothing is redeemed outside its window; the registry implements
  `ApprovalLifecycle`.  One id and two polls are enough for every race on one entry
  (entries share only the guardrails' table, whose bound of one subject is reached);
  with TTL 1 and `MaxTime` 3 an approval is decided late, redeemed late, expires
  and is purged after 2 TTL; one restart suffices for every pair of lives.  The
  proofs lift the bounds for four of the five properties.
- **audit.**  What `Append` accepted stays; the verifier accepts what the writer
  left; a stopped log can be started, at worst after a repair; no appender
  waits forever.  Two appenders give a leader and a follower, five records and two
  lines per file give two rotations, and each of four faults may strike anywhere.
- **signer.**  Freezes bind and survive, grants reported revoked stay revoked,
  waivers have a recorded origin.  One request and one administrator against each
  other, the sweep and the crash; two grant ids so that a waiver supersedes
  another; two commits in the WAL so that a power loss has something to drop.
- **config.**  The running state is what the file says, whoever wrote it and
  whatever failed; a pattern removed through the API stays removed; a gated request
  is verified by an issuer configured while it ran.  Two writes and a crash are
  enough for every pair of writers to overlap with a reload in progress.
- **policy.**  Thirty-three configurations, each for one composition rule or one
  kind of host, with reloads between any two requests.
- **clocks.**  Three components in one configuration; they share no state, so only
  the chosen one moves.  A chain of three hops, each of which may wait, with room for
  several polls and for the failures in a row that end a wait: the age of each
  certificate at the dial reaches its bound; the table of buckets holds one of two callers, so pruning and
  eviction happen; two hosts, one on the signer's time and one up to two ticks
  behind or one ahead, two shims that may fail or die at every step, a key rotation.
- **sessions_race**, **sessions_live.**  Nothing leaks, no session ends twice or is
  cut short while busy, and a frozen or expired session is torn down although the
  commands in it never end.  The caller is limited to one session so that `add`
  refuses; two commands share a shell so that one finishes while the other runs.
- **shell.**  A result is that of its own command, whatever earlier calls timed out,
  overflowed or were cancelled; a strict result is recorded, but for the input `:`; every `Exec` returns
  and a command given up stops.  Two commands are enough for a late marker or output
  of one to meet the other; the cap of one chunk overflows.
- **routes.**  A chain ends at the host asked for, repeats no host and has each hop
  behind the one before in some table; a preflight compares with nothing older than
  the answers in flight when it began; with `audit_fail_mode` closed, output given back
  has its records, and what ran on an in-chat approval has the record of it (in open
  mode the code gives the result anyway); the copy converges.  Four tables, a
  cyclic one among them, two edits and one lost refresh; one worker, because
  workers share only the copy, which the background refresh changes at any moment.
- **k8s.**  What runs is what was decided, nothing happens without its record, and
  the two logs tell the same story: only an issuance is told as executed, a refusal
  only as a denial, a failed mint as an error unless it came after an approval (see
  the disagreements).  Two calls, all three set-ups, and one reload that moves a
  resource to another group, hides the cluster or takes its binding away; the number
  of polls is not bounded.
- **bridge.**  Nobody approves their own request through a process that has listed,
  a request is shown in the end, and a bridge that no longer hears clicks exits.
  One request, two clicks, a restart, three failures, a channel of one.

Deadlock is checked in the runs whose configuration does not turn it off;
where it is off the system may stop: a wait ends, a log is closed, the
supervisor gives up, a bound on writes, records or sessions is reached.

## Fairness

The specifications of the safety runs have none.  The liveness runs assume:

- *a goroutine that can run does* (WF): steps between two waits, in every module;
- *SF on taking a mutex* (`startCommand` in `Sessions`, `Exec` and `Close` in
  `ShellSession`): `sync.Mutex` hands itself to a waiter after one millisecond of
  starvation;
- *SF on the cases of a select* (`Bridge`): Go chooses at random among the ready
  ones, so a case that is ready again and again is taken;
- *requests end* (`Routes`, `Bridge`): every HTTP client and every dial has a timeout;
- *tickers keep firing*: the reaper, the kill-switch poll, the host refresh and the
  bridge's poll loop until their context is cancelled;
- *an fsync returns* (`AuditLog`), *sshd hangs up a closed channel*
  (`ShellSession`), *slack-go reconnects and the supervisor restarts*
  (`Bridge`; `docs/OPERATIONS.md` asks for `Restart=on-failure`).

A remote command is never assumed to end, a click, an operator, `broker-ctl` or a
signal never to come, and time never to reach a limit.

## Proofs

Eight modules hold theorems, for every value of the constants that the named
assumptions allow.  Each invariant a theorem states was first checked by TLC.

| theorem | says | of the run |
|---|---|---|
| `ControlPlane_proofs!TypeCorrect` | the type invariant | |
| `ControlPlane_proofs!ClaimsHeld` | a claim has one holder and is never left behind | |
| `ControlPlane_proofs!SingleUseHolds` | `SingleUse` | `approval` |
| `ControlPlane_proofs!FourEyesHolds` | `FourEyes` | `approval` |
| `ControlPlane_proofs!RedeemWindowHolds` | `RedeemWindow` | `approval` |
| `ControlPlane_proofs!Refinement` | `RefinesLifecycle` | `approval` |
| `AuditLog_proofs!AcknowledgedIsDurable` | `AckDurable`, without short writes | `audit` |
| `AuditLog_proofs!RunningChainVerifies` | `ChainVerifies`, without short writes and with a clock that goes forward | `audit` |
| `AuditLog_proofs!StoppedIsRecoverable` | `Recoverable`, likewise | `audit` |
| `SignerState_proofs!FreezeDurableHolds` | `FreezeDurable` | `signer` |
| `SignerState_proofs!IssuedUnfrozenHolds` | `IssuedUnfrozen` | `signer` |
| `SignerState_proofs!LearnAuditedHolds` | `LearnAudited` | `signer` |
| `SignerState_proofs!SweptStaysHolds` | `SweptStays`, when no best-effort delete fails | `signer` |
| `SignerConfig_proofs!RemovalsStick` | `NarrowingSticks` | `config` |
| `SignerConfig_proofs!GatedStaysVerified` | `GatedVerified` | `config` |
| `SignerConfig_proofs!StateIsTheFile` | `RunsTheFile` | `config` |
| `SignerConfig_proofs!BudgetHolds` | `Budget` | `clocks` |
| `Grants_proofs!ChainAgeHolds` | `ChainAge` | `clocks` |
| `Grants_proofs!CertificatesOutliveWait` | a certificate with a longer lifetime than that age is alive at the dial | |
| `Grants_proofs!GivesUpForAReason` | the broker stops asking only for a reason | |
| `Grants_proofs!RunOnceHolds` | `RunOnce` | `clocks` |
| `Grants_proofs!RefusedRightlyHolds` | `RefusedRightly` | `clocks` |
| `Grants_proofs!RanAsDecidedHolds` | `RanAsDecided` | `k8s` |
| `Grants_proofs!TracedHolds` | `Traced` | `k8s` |
| `Grants_proofs!LogsAgreeHolds` | `LogsAgree` | `k8s` |
| `Grants_proofs!BridgeFourEyes` | `FourEyes` | `bridge` |
| `Sessions_proofs!NoConnectionLeftBehind` | `NoOrphanConn` | `sessions_race` |
| `Sessions_proofs!BusySpared` | `SparedWhileBusy` | `sessions_race` |
| `Sessions_proofs!SessionLifeAudited` | `LifeAudited` | `sessions_race` |
| `ShellSession_proofs!WholeOutputHolds` | `WholeOutput` | `shell` |
| `ShellSession_proofs!StrictRecordedHolds` | `StrictRecorded` | `shell` |
| `Routes_proofs!RouteSoundHolds` | `RouteSound` | `routes` |
| `Routes_proofs!OutputTracedHolds` | `OutputTraced` | `routes` |

A proof module is about one component, but for two: `Grants_proofs` has a part each
for `ApprovalWait`, `SealedExec`, `K8sAccess` and `Bridge`, and the last part of
`SignerConfig_proofs` is about `RateLimiter`.  The parts share no state and no lemma.

**Control plane.**  `Inv` joins the types with: an id in use has an origin
(`Known`), a row is never `issuing` (`RowsIdle`), a claim has exactly one holder
(`ClaimExclusive`, `NoOrphanClaim`), an approval that gave out its credential is
purged, consumed or still held by the poll that delivered it (`Spent`), and there
is one credential per life (`OneCredential`).  None of these is inductive alone: that the entry is
consumed needs the exclusive claim, and the claim needs that an entry is never
rewritten under its holder.  The second part describes once, for
all handlers, how a step may change an entry and its row (`Step`, `Moved`,
`RowMoved`); everything later rests on that description and not on the handlers.
`Outcomes` relates what polls and brokers were told to the entry; `Requests` says
that entries, rows and snapshots speak of the request first registered
(`Genuine`), and how far a row may lag behind its entry when writes fail
(`Lags`); `Attributed` says the same of the approval records.  The refinement
shows that each such step moves the lifecycle or leaves it alone (`MovesOrStays`),
and that a restart takes a request back exactly as far as its row lags.

**Audit log.**  Each committed write adds one line, so write number k since the
process started is line k + `Offset` of the active file, or was rotated away; `Placed`
says so of every record an appender waits for, `Running` that `syncedCount` counts
durable lines only, and `Leading` that the leader's fsync covers the writes it will
report, of which there is one leader at a time (`Calls`).  That is what makes the
group commit right across a rotation between the write and the fsync.  `ChainInv`
adds that the segments verify in the order of their names, that the active file
is linked to the newest (`Chained`), and that the struct holds the head of the chain
(`HeadOk`).  The hypotheses are needed: with a short write, or names
that do not grow, the code breaks the chain (see the disagreements below), and a
short write also lets two records share a line.

**Signer.**  `SignerInv` is `FreezeDurable` with what is known of each request in
progress.  An administrator that has frozen a subject and not yet revoked its
grants holds `writeMu`, and the freeze is in memory and, if it was checkpointed, in every
content a power loss can leave (`AdminInv`); so whatever the operator is
told next is true.  The subjects that bar a sign request are still frozen, since
only an unfreeze lifts them and it releases them from every request, and after
the first look none is the resolved caller or end user, after the second none is the peer
(`SignInv`): the set of freezes may change between the looks, in one direction
only.  `StoreOK` says that all contents hold audited grants.  The lemmas `…Keeps`
show that no operation on grants touches a freeze, in memory or in the WAL.
`SweptInv` follows one grant id: memory and row agree, or memory dropped an expired
grant whose row is still there (`SweptId`); what a power loss may bring back has an
id that was handed out (`Logged`); and a waiver is minted under the mutex under
which its freeze check was made (`MintGuard`).  Where a best-effort delete
fails, the code does not keep it (see below).

**Configuration and rate.**  A thread inside `writeMu` carries a version of the file
that no write of the signer, and none the watcher has seen, came after (`ReqInv`);
so its swap installs nothing older than what runs (`StateInv`).  `SignInv` follows
the issuers configured since a request began.  For the limiter, `Backed` says that what a key has
had since any of its requests, with what its bucket holds, is at most one
budget and what the time since has refilled; `Repaid` the same of a key without a bucket,
which may be given a full one; `Owed` that a refused key loses nothing that
it is refilled.

**Waits and envelopes.**  `Times` bounds the clock in each state of the wait of one
hop, so that its last answer arrives within `Wait + 2 * Timeout` of its request;
`Young` adds these up along the chain, and `Counts` relates `pollApproval`'s counter to
the answers given.  `SealedInv` follows a nonce: one that a shim took
is still in the store of its host, or the envelope
expired there so long ago that no shim in flight can accept it again (`Timely`,
`Verified`, `Stamped`, `Burned`); so it is taken once (`TakeOnce`), and a shim takes it
before its exec (`Claims`).  `RefusalInv` adds what a refusal was decided on
(`RefusedOn`), when the envelope was signed (`Dated`) and that a nonce is in a store
only since a shim on that host took it (`Claimed`).

**Kubernetes.**  `K8sInv` says of each call what the broker holds at each point
(`CallInv`): a token exists only with a decision that allowed it, or that an
approval lifted, and its canonical form is the one the path was built from;
in fail-closed mode an answer that carries a token has its record.  Waivers come from
such answers (`Learned`).  `StoryInv` relates the two logs: the signer records before
it answers, the broker last, and what it records tells of the answer unless
that was lost on the way.

**Bridge.**  A click comes from a card, and what has a card and is pending has been
in every `List` since the process first had one, so the process knows who made the
request (`Carded`, `Noted`), although the card may be of an earlier process.

**Sessions.**  A session is in the map or in exactly one of four hands that took it
out: `CloseSession`, the reaper, the kill switch, `Engine.Close`; its end
is recorded once, by the last of them (`OneEnd`, `Queues`).  Before it is in the map
it is in none (`Opening`), and commands run only in sessions a caller was told of
(`Telling`).  `Counted` says that `busy` is at least the number of calls that have
the session checked out, as a numbering of them, which needs no cardinalities.

**Shell.**  While a command is read, what was collected and what is on the wire are,
in order, the chunks of its process, a marker is the last item (`Transit`), and
while none is read an open channel carries nothing (`AtRest`): a call that gives up
closes the channel, so that a late marker finds no reader.  `Tape` says that in
strict mode each piece is in the recording before it is passed on.

**Routes.**  A chain is linked as it is built, whatever copy each name was
looked up in (`WalkInv`), and the hops follow it (`HopsInv`).  A session command
knows the tables the signer had since it began and the answers then in flight; once
its own refresh is installed the copy is one of them (`Env`), so each hop it reads
is vouched for (`Vouched`).  `TraceInv` carries the approval in the chat from the
record of it to the answer.

Beyond the bounds and faults being sets and numbers, the assumptions say that
placeholders differ from values (`NoSessionAssumption`, `Down ∉ ServerState`,
`NoOne ∉ Users ∪ {""}` and the like), that the watcher is no administrator, and that
the limits of the rate limiter have a largest one (`RateAssumption`).

What stays with TLC:
- liveness, which rests on fairness and `ENABLED`: `AppendReturns`, `FrozenKilled`,
  `ExpiredClosed`, `ExecEnds`, `Converges`, `Presented`;
- `NoveltyApproved`, which compares cardinalities of the tracker's sets;
- `CommandCleared`, `GrantsOnlyWiden`, `Confined` and `ApprovalTraced`: that the
  composed policy of a host is a list of policies at all rests on `FlattenSeq` and
  `SelectSeq` (`composePolicies`), recursive definitions over sequences, over which
  these provers cannot do induction.

## Disagreements between code and comments

The models follow the code.  Where a comment, a message or a document promises
more, the properties state what the code does, and the promise is recorded here.
None of these is a property of a run; the ones marked † were confirmed by
checking the promise, as a formula, against the module under the run's own cfg
(or with the change of the cfg that is given), and TLC found a counterexample.

Approvals and the control plane
- † `approval.go:515` `purgeLocked` deletes every entry older than twice the TTL,
  also one that is being forwarded; its comment says it "deletes requests that can
  no longer change state".
- † `approval.go:313` a failed write of the consumed row, or a crash before
  `FinishConsume`, leaves a used approval redeemable after a restart; the comment
  says the last persisted transition "is always the more conservative one".
- † `cmd/control-plane/main.go:893` `Decide` releases the request before the audit
  gate; the comment wants the attribution "durable before the pending sign request
  is released".
- † `internal/bridge/bridge.go:206` `isSelfApproval` knows the origin of a request
  only after a successful `List`; `bridge.go:13` "refuses an approval whose clicker
  maps to the request's originating end user".

Audit log
- † `audit/log.go:544` after a short write `needsNewline` stays false and the next
  record continues the same line; the comment promises "no seq gap and no desync".
  (Add `"short"` to `Faults` in `MCAuditLog_log.cfg`: `ChainVerifies` fails.)
- † `audit/verify.go:219` segments are ordered by the second in their name, which is
  wrong once the clock has stepped back; "sorted oldest→newest".  (Set
  `ClockSteps = TRUE`, `MaxTime = 2`: `ChainVerifies` fails.)
- `cmd/broker-ctl/main.go:2328` with a malformed middle line and a torn last line,
  `restoreChain` refuses the file and so does `audit repair`, which prints "The
  signer will still boot".

Signer
- † `signer/freeze.go:221` when `Remove` deletes the row and the checkpoint fails,
  memory keeps the freeze and a restart drops it; `Add` calls such a freeze
  "fail-open" (freeze.go:167).
- `signer/grants.go:342` `Revoke` does not checkpoint, so a power loss may bring a
  revoked grant back; the comment (332) removes the row first to avoid that a grant
  "would resurrect on restart".
- † `signer/grants.go:293` a superseded waiver whose best-effort delete failed
  survives the revocation of its twin and is live after a restart; "it never
  widens policy" (257).  (`Faults = {"besteffort"}` and two sign requests:
  `SweptStays` fails.)
- † `signer/grants.go:424` a grant without `ShellParse` turns parsing on for a host
  opted out of it, and refuses what was allowed; "neither of which can ever narrow
  or invert policy" (32).
- `signer/ratelimit.go:109` the bucket evicted as oldest may be the emptiest one;
  "its tokens are closest to a full refill" (103).
- `cmd/signer/main.go:435` the watcher stores the mtime before it reloads, so a
  rejected file is not tried again; "re-applied on the next tick" (425).
- † `cmd/signer/main.go:427` an edit between the start of the process and that of the
  watcher is not applied; "hot-reloads on change" (77).
- `cmd/signer/policy.go:127` `mutateAllow` writes back what it read and undoes what
  another process edited meanwhile; docs/API.md:313 "preserved verbatim".

Broker
- † `broker/engine.go:1516` `closeAll` empties the map once and `add` does not know
  it ran: such a session has no closing record; engine.go:1509 promises a
  "matching close record even when the broker exits under it".
- † `recording/recorder.go:205` a write to a closed recorder succeeds, so a strict
  session goes unrecorded while it closes; engine.go:131 "must not fail open".
- † `ssh/shell.go:419` the input `:` is not recorded, meant for the first exchange of
  a new shell (236, 310), but the check does not know a user's `:` from it;
  likewise "must not fail open".
- † `broker/k8s.go:140` after an approval, a mint that keeps failing ends
  `pollApproval` with an error `classifySignErr` does not take for an outage, and is
  recorded as "denied"; the comment (137) on outages and mint failures says 'audit
  it as "error" (not "denied")'.
- `broker/engine.go:980` the signature is read again after the refresh, when an
  older answer may have been installed; session.go:86 "cannot silently keep using
  the old connection".
- `mcpserver/tools.go:532` a call that was declined in the chat still runs if the
  policy stopped asking meanwhile, for the retry asks the signer first;
  the comment says that "decline", "cancel" and the rest "all deny".

## Assumptions and limits

Environment
- A successful fsync makes all earlier bytes of the file durable, and a rename is
  durable.  The SQLite WAL loses only a suffix written after the last checkpoint.
- Hashes do not collide; every write of a file gets an mtime of its own.
- A command leaves no background writer behind on the session's output.
- A shim stalls at most `MaxTTL` between reading its clock and burning the nonce.
- Nothing in the code relates the lifetime of a certificate to the wait.  A bastion's
  must be longer than `Timeout + k * (Wait + 2 * Timeout)` for `k` hops behind it to be
  sure to be alive at the dial: with the examples' wait of 120 seconds and the
  client's timeout of 10, more than 150 seconds for one hop.  The 300 seconds of
  `config.example.json` are, the 120 that `signer.example.json` allows its bastion
  are not.

Faults left out of a run, because of a disagreement above: short writes and a clock
that steps back in `audit`; failed best-effort deletes in `signer`.

Limits of properties: a grant's revocation is not promised across a power loss;
`RouteSound` holds up to answers in flight; `FourEyes` of the bridge speaks of
requests a `List` has returned, `StrictRecorded` of a recorder still open and not of the
input `:`, `OutputTraced` of records only in fail-closed mode, `RefusedRightly` of a nonce
that was taken and not of a command that ran (an envelope is run at most once, not
exactly once), and `GrantsOnlyWiden` of hosts that parse commands; `RunsTheFile` excepts a file that
was rejected and an edit the watcher missed.

Limits of instances: one approval id in `approval` and one request in `bridge` (the
proofs take any number); the second sealed host in `clocks` keeps the signer's time
(the proof takes any skews).

## Not modelled

- Wiring and front ends of the broker process, the set-up wizard, the other
  `broker-ctl` commands, the doc generator, the lab client: no state that two steps
  share beyond what the modules above have.
- Bearer tokens, mTLS identities, CA keys and the bytes of certificates:
  cryptography and parsing; a verified identity is an input of the models.
- Output redaction, the policy recommender and notifiers: functions of text, or
  best-effort output nothing reads back.
- Metrics and readiness: counters nothing in the system decides on.
- Left out of components that are modelled in part: relay handlers and team routing;
  the shortening and signing of audit records; the ASCIIcast format;
  `CompileClusterPolicies`, TLS and bodies of the Kubernetes client; schema
  migrations; the drain timeout; comments in JSON files; the wording of MCP schemas.

Two hazards have no property: the short write (`audit/log.go:544`) and the session
added after `closeAll` (`broker/engine.go:1516`).  The code does not keep what a property
would say there; both are described above.
