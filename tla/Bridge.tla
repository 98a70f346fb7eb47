------------------------------- MODULE Bridge -------------------------------
(***************************************************************************)
(* The approval bridge (internal/bridge, cmd/approval-bridge): a process   *)
(* that lists the control plane's approvals, presents the pending ones as  *)
(* cards in a chat, and relays the clicks of humans.  Run is one goroutine *)
(* that polls or takes one decision at a time; the Slack adapter's listen  *)
(* is another, that follows the socket-mode connection and puts clicks on  *)
(* a bounded channel.  Cards stay in the chat when the process ends, and a *)
(* supervisor starts it again with empty maps.                             *)
(*                                                                         *)
(* An end user is a value of Users; identity maps a clicker (a platform    *)
(* user id) to an end user, or to "" when the map does not have it.        *)
(*                                                                         *)
(* Definitions named Op_Variant are altered forms of Op used to show that  *)
(* the properties depend on what Op does.                                  *)
(***************************************************************************)
EXTENDS Naturals, Sequences, FiniteSets

CONSTANTS
  Ids,         \* approval requests
  Users,       \* end users
  Clickers,    \* members of the channel
  identity,    \* the identity map: [Clickers -> Users \cup {""}]
  Capacity,    \* buffer of the decisions channel
  MaxFaults,   \* bound on failures of requests and on lost links
  MaxClicks,   \* bound on clicks
  MaxRestarts, \* bound on restarts by the supervisor
  NoOne, NoDecision

ASSUME BridgeAssumption ==
  /\ identity \in [Clickers -> Users \cup {""}] /\ "" \notin Users
  /\ Capacity \in Nat \ {0} /\ MaxFaults \in Nat /\ MaxClicks \in Nat
  /\ MaxRestarts \in Nat
  /\ NoOne \notin Users \cup {""}

Decision == [id : Ids, approve : BOOLEAN, by : Clickers]
ASSUME DecisionAssumption == NoDecision \notin Decision

VARIABLES
  status,     \* the control plane's requests
  origin,     \* per request, its end user ("" when it has none)
  approvedBy, \* per request, the clicker whose approval was applied, and
              \* whether the process that relayed it had listed before
  cards,      \* per request, the cards in the chat
  run,        \* where the Run goroutine is
  posted, origins,  \* the maps of the bridge
  live, todo, \* in a poll: the ids listed, and those left to present
  listed,     \* whether this process has had an answer of List
  connected,  \* the adapter's connected flag
  listen,     \* where the listen goroutine is
  held,       \* the click it is putting on the channel
  decisions, closed,  \* the channel
  faults, clicks, restarts

cpVars == <<status, origin, approvedBy>>
runVars == <<run, posted, origins, live, todo, listed>>
slackVars == <<connected, listen, held, decisions, closed>>
counters == <<faults, clicks, restarts>>
bridgeVars == <<cpVars, cards, runVars, slackVars, counters>>

Unknown == [i \in Ids |-> NoOne]

BridgeInit ==
  /\ status = [i \in Ids |-> "none"] /\ origin = [i \in Ids |-> ""]
  /\ approvedBy = Unknown /\ cards = [i \in Ids |-> 0]
  /\ run = "start" /\ posted = {} /\ origins = Unknown /\ live = {} /\ todo = {}
  /\ listed = FALSE /\ connected = FALSE /\ listen = "idle" /\ held = NoDecision
  /\ decisions = <<>> /\ closed = FALSE
  /\ faults = 0 /\ clicks = 0 /\ restarts = 0

Fault == faults < MaxFaults /\ faults' = faults + 1

-----------------------------------------------------------------------------
(* The control plane.                                                      *)

\* A command needs an approval: a request of an end user, or of nobody.
request(i, u) ==
  /\ status[i] = "none"
  /\ status' = [status EXCEPT ![i] = "pending"]
  /\ origin' = [origin EXCEPT ![i] = u]
  /\ UNCHANGED <<approvedBy, cards, runVars, slackVars, counters>>

\* A request is decided by another approver, or expires; later it is purged.
settle(i) ==
  /\ status[i] = "pending" /\ status' = [status EXCEPT ![i] = "settled"]
  /\ UNCHANGED <<origin, approvedBy, cards, runVars, slackVars, counters>>

purge(i) ==
  /\ status[i] = "settled" /\ status' = [status EXCEPT ![i] = "purged"]
  /\ UNCHANGED <<origin, approvedBy, cards, runVars, slackVars, counters>>

-----------------------------------------------------------------------------
(* Run.                                                                    *)

Listed == {i \in Ids : status[i] \in {"pending", "settled"}}

\* poll, up to the answer of List: the origin of every request is noted, and
\* the pending ones that were not presented yet are to be.
poll ==
  /\ run \in {"start", "select"}
  /\ live' = Listed /\ todo' = {i \in Listed \ posted : status[i] = "pending"}
  /\ origins' = [i \in Ids |-> IF i \in Listed THEN origin[i] ELSE origins[i]]
  /\ run' = "post" /\ listed' = TRUE
  /\ UNCHANGED <<cpVars, cards, posted, slackVars, counters>>

\* A List that fails is logged; the next tick tries again.
pollFailed ==
  /\ run \in {"start", "select"} /\ Fault
  /\ run' = "select"
  /\ UNCHANGED <<cpVars, cards, posted, origins, live, todo, listed, slackVars,
                 clicks, restarts>>

Post_MarkFirst(i) ==
  /\ run = "post" /\ i \in todo /\ todo' = todo \ {i}
  /\ posted' = posted \cup {i}
  /\ cards' = IF connected THEN [cards EXCEPT ![i] = @ + 1] ELSE cards
  /\ UNCHANGED <<cpVars, run, origins, live, listed, slackVars, counters>>

\* One request is presented.  Post refuses while the adapter is not
\* connected; an error leaves the request for the next poll, also when Slack
\* had posted the card.
Post(i) ==
  /\ run = "post" /\ i \in todo /\ todo' = todo \ {i}
  /\ \/ ~connected /\ UNCHANGED <<cards, posted, faults>>
     \/ /\ connected /\ posted' = posted \cup {i}
        /\ cards' = [cards EXCEPT ![i] = @ + 1]
        /\ UNCHANGED faults
     \/ /\ connected /\ Fault /\ UNCHANGED posted
        /\ \E shown \in {0, 1} : cards' = [cards EXCEPT ![i] = @ + shown]
  /\ UNCHANGED <<cpVars, run, origins, live, listed, slackVars, clicks, restarts>>

pollEnd_Presented ==
  /\ run = "post" /\ todo = {} /\ run' = "select" /\ live' = {}
  /\ posted' = posted \cap live
  /\ origins' = [i \in Ids |-> IF i \in live \ posted THEN origins[i] ELSE NoOne]
  /\ UNCHANGED <<cpVars, cards, todo, listed, slackVars, counters>>

\* The end of poll: what is no longer listed is forgotten.
pollEnd ==
  /\ run = "post" /\ todo = {} /\ run' = "select" /\ live' = {}
  /\ posted' = posted \cap live
  /\ origins' = [i \in Ids |-> IF i \in live THEN origins[i] ELSE NoOne]
  /\ UNCHANGED <<cpVars, cards, todo, listed, slackVars, counters>>

isSelfApproval(d) ==
  /\ identity[d.by] # "" /\ origins[d.id] \notin {NoOne, ""}
  /\ identity[d.by] = origins[d.id]

\* POST /v1/approvals/{id}: applied if the request is pending, and answered
\* or not; or not applied, because it is settled or the request failed.  The
\* bridge forgets the request when it is told of success.
Decide(d) ==
  \/ /\ status[d.id] = "pending"
     /\ status' = [status EXCEPT ![d.id] = "settled"]
     /\ approvedBy' = [approvedBy EXCEPT ![d.id] =
                         IF d.approve THEN [by |-> d.by, known |-> listed] ELSE @]
     /\ \/ /\ posted' = posted \ {d.id}
           /\ origins' = [origins EXCEPT ![d.id] = NoOne]
           /\ UNCHANGED faults
        \/ Fault /\ UNCHANGED <<posted, origins>>
  \/ /\ IF status[d.id] = "pending" THEN Fault ELSE UNCHANGED faults
     /\ UNCHANGED <<status, approvedBy, posted, origins>>

\* One decision is taken from the channel; a self-approval goes no further.
decide ==
  LET d == Head(decisions) IN
  /\ run = "select" /\ decisions # <<>> /\ decisions' = Tail(decisions)
  /\ IF d.approve /\ isSelfApproval(d)
     THEN UNCHANGED <<status, approvedBy, posted, origins, faults>>
     ELSE Decide(d)
  /\ UNCHANGED <<origin, cards, run, live, todo, listed, connected, listen, held,
                 closed, clicks, restarts>>

\* Run returns ErrAdapterStopped when the channel is closed and drained, or
\* when the process is told to end; main exits in both cases.
stop ==
  /\ run = "select" /\ run' = "exited"
  /\ IF closed /\ decisions = <<>> THEN UNCHANGED faults ELSE Fault
  /\ UNCHANGED <<cpVars, cards, posted, origins, live, todo, listed, slackVars,
                 clicks, restarts>>

\* The supervisor starts the process again: New and NewSlackAdapter.
restart ==
  /\ run = "exited" /\ restarts < MaxRestarts /\ restarts' = restarts + 1
  /\ run' = "start" /\ posted' = {} /\ origins' = Unknown
  /\ live' = {} /\ todo' = {} /\ listed' = FALSE
  /\ connected' = FALSE /\ listen' = "idle"
  /\ held' = NoDecision /\ decisions' = <<>> /\ closed' = FALSE
  /\ UNCHANGED <<cpVars, cards, faults, clicks>>

-----------------------------------------------------------------------------
(* The Slack adapter.                                                      *)

\* A connection event: connected, or a link lost that will be tried again.
handleLink(up) ==
  /\ listen = "idle" /\ run # "exited" /\ connected # up
  /\ IF up THEN UNCHANGED faults ELSE Fault
  /\ connected' = up
  /\ UNCHANGED <<cpVars, cards, runVars, listen, held, decisions, closed,
                 clicks, restarts>>

\* A human clicks on a card of the chat and the event arrives.
handleClick(d) ==
  /\ listen = "idle" /\ run # "exited" /\ connected
  /\ cards[d.id] > 0 /\ clicks < MaxClicks /\ clicks' = clicks + 1
  /\ held' = d /\ listen' = "sending"
  /\ UNCHANGED <<cpVars, cards, runVars, connected, decisions, closed, faults,
                 restarts>>

\* sendDecision waits for room in the channel.
sendDecision ==
  /\ listen = "sending" /\ run # "exited" /\ Len(decisions) < Capacity
  /\ decisions' = Append(decisions, held)
  /\ held' = NoDecision /\ listen' = "idle"
  /\ UNCHANGED <<cpVars, cards, runVars, connected, closed, counters>>

\* The socket-mode loop ends for good: listen stops the adapter and closes
\* the channel.
listenExit ==
  /\ listen = "idle" /\ run # "exited" /\ Fault
  /\ connected' = FALSE /\ listen' = "ended" /\ closed' = TRUE
  /\ UNCHANGED <<cpVars, cards, runVars, held, decisions, clicks,
                 restarts>>

-----------------------------------------------------------------------------
Running ==
  \/ poll \/ pollEnd \/ decide \/ stop
  \/ \E i \in Ids : Post(i)

BridgeNext ==
  \/ \E i \in Ids : \/ \E u \in Users \cup {""} : request(i, u)
                    \/ settle(i) \/ purge(i)
  \/ Running \/ pollFailed \/ restart
  \/ \E up \in BOOLEAN : handleLink(up)
  \/ \E d \in Decision : handleClick(d)
  \/ sendDecision \/ listenExit

BridgeSpec == BridgeInit /\ [][BridgeNext]_bridgeVars

\* Requests have timeouts and the ticker fires again and again.  select
\* picks at random among the cases that are ready, so one that is ready
\* again and again is taken.  slack-go reconnects a link that was lost, and
\* the supervisor restarts a bridge that exited.
BridgeFairness ==
  /\ SF_bridgeVars(poll) /\ WF_bridgeVars(pollEnd) /\ SF_bridgeVars(decide)
  /\ SF_bridgeVars(stop /\ closed)
  /\ \A i \in Ids : WF_bridgeVars(Post(i))
  /\ WF_bridgeVars(sendDecision) /\ WF_bridgeVars(handleLink(TRUE)) /\ WF_bridgeVars(restart)

BridgeFairSpec == BridgeSpec /\ BridgeFairness

-----------------------------------------------------------------------------
(* Properties.                                                             *)

\* BridgeTypeOK: every variable keeps its type, and the channel its capacity.
BridgeTypeOK ==
  /\ status \in [Ids -> {"none", "pending", "settled", "purged"}]
  /\ origin \in [Ids -> Users \cup {""}]
  /\ approvedBy \in [Ids -> [by : Clickers, known : BOOLEAN] \cup {NoOne}]
  /\ cards \in [Ids -> Nat] /\ posted \subseteq Ids
  /\ origins \in [Ids -> Users \cup {"", NoOne}]
  /\ run \in {"start", "post", "select", "exited"}
  /\ live \subseteq Ids /\ todo \subseteq live
  /\ listed \in BOOLEAN /\ connected \in BOOLEAN /\ closed \in BOOLEAN
  /\ listen \in {"idle", "sending", "ended"}
  /\ held \in Decision \cup {NoDecision}
  /\ Len(decisions) <= Capacity
  /\ \A k \in DOMAIN decisions : decisions[k] \in Decision

\* FourEyes: no request is approved through the bridge by a member the
\* identity map takes for the end user who made it, through restarts and
\* with cards of an earlier process ("it refuses an approval whose clicker
\* maps to the request's originating end user", internal/bridge/bridge.go),
\* once the process has listed the requests: before its first List succeeds
\* it knows no originator and relays every click.
FourEyes ==
  \A i \in Ids :
    approvedBy[i] # NoOne /\ approvedBy[i].known =>
      identity[approvedBy[i].by] = "" \/ identity[approvedBy[i].by] # origin[i]

\* Presented: a pending request is shown in the chat, unless it is settled
\* first or the supervisor has given up on the bridge; and a process whose
\* socket-mode loop has ended does not go on presenting cards nobody can
\* answer: it exits.
Presented ==
  /\ \A i \in Ids :
       (status[i] = "pending")
         ~> \/ cards[i] > 0 \/ status[i] # "pending"
            \/ run = "exited" /\ restarts = MaxRestarts
  /\ (listen = "ended") ~> (run = "exited")
=============================================================================
