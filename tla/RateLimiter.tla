----------------------------- MODULE RateLimiter -----------------------------
(***************************************************************************)
(* The per-caller rate limit of the signer: internal/signer/ratelimit.go,  *)
(* and the two places of cmd/signer/main.go that ask it, handleSign and    *)
(* admitDenial.  A handler first reads the limit in force, which a reload  *)
(* may change, and then calls Allow under the mutex of the limiter, so     *)
(* that Allow can be given a limit that is no longer in force.             *)
(*                                                                         *)
(* Time is counted in ticks, Minute of them to a minute, and tokens in     *)
(* parts, Minute of them to a token: in these units the refill of one tick *)
(* is the limit itself, a whole number, where the code has a float.        *)
(*                                                                         *)
(* An operator Op_Variant is Op with one mistake; no action uses it.       *)
(***************************************************************************)
EXTENDS Integers, FiniteSets, Sequences, Functions

CONSTANTS Callers,    \* the caller CNs
          Limits,     \* the values a reload may give sign_rate_limit_per_min
          Minute,     \* ticks in a minute
          MaxKeys,    \* maxRateLimitKeys
          RateTime,   \* bound on the clock
          NoLimit,    \* no handler of this key is between the two steps
          NoRefusal   \* the key has no refusal to get over

ASSUME RateAssumption ==
    /\ Limits \subseteq Nat /\ \E l \in Limits: \A o \in Limits: o <= l
    /\ Minute \in Nat \ {0} /\ MaxKeys \in Nat \ {0} /\ RateTime \in Nat
    /\ NoLimit \notin Nat

VARIABLES buckets,    \* key -> its bucket, for the keys that have one
          limit,      \* signRateMin
          asked,      \* key -> the limit its handler has read
          instant,    \* the clock
          admitted,   \* history: the times of the requests let through while
                      \* the limit was on, since the key was last evicted
          refusal     \* history: the first refusal the key has not got over

rateVars == <<buckets, limit, asked, instant, admitted, refusal>>

Bucket == [tokens: Nat, last: Nat]

\* RateTypeOK: every variable keeps its type, and no bucket was refilled later
\* than now.
RateTypeOK ==
    /\ DOMAIN buckets \subseteq Callers
    /\ \A k \in DOMAIN buckets: buckets[k] \in Bucket /\ buckets[k].last <= instant
    /\ limit \in Limits
    /\ asked \in [Callers -> Limits \cup {NoLimit}]
    /\ instant \in 0..RateTime
    /\ \A k \in Callers: admitted[k] \in Seq(0..instant)
    /\ \A k \in Callers:
          refusal[k] = NoRefusal \/ refusal[k] \in [at: 0..instant, limit: Limits]

Smaller(a, b) == IF a < b THEN a ELSE b

\* What a bucket holds at time t under the limit perMin.
Refilled(b, perMin, t) ==
    Smaller(b.tokens + (t - b.last) * perMin, perMin * Minute)

\* The hint sent with a refusal, in ticks: 60 / perMin, rounded up.
RetryAfter(perMin) ==
    (Minute \div perMin) + (IF Minute % perMin # 0 THEN 1 ELSE 0)

prune_Half(bs) ==
    Restrict(bs, {k \in DOMAIN bs: 2 * (instant - bs[k].last) <= Minute})

\* Forget the buckets idle for more than a minute.
prune(bs) == Restrict(bs, {k \in DOMAIN bs: instant - bs[k].last <= Minute})

\* The keys evictOldest may remove: one whose last request is the oldest, any
\* of them when there are several, for Go visits a map in no fixed order.
evictOldest(bs) ==
    {k \in DOMAIN bs: \A o \in DOMAIN bs: bs[k].last <= bs[o].last}

Without(bs, k) == Restrict(bs, DOMAIN bs \ {k})

With(bs, k, b) == [o \in DOMAIN bs \cup {k} |-> IF o = k THEN b ELSE bs[o]]

Full(perMin) == [tokens |-> perMin * Minute, last |-> instant]

RateInit ==
    /\ buckets = <<>>
    /\ limit \in Limits
    /\ asked = [k \in Callers |-> NoLimit]
    /\ instant = 0
    /\ admitted = [k \in Callers |-> <<>>]
    /\ refusal = [k \in Callers |-> NoRefusal]

Replied(k) == asked' = [asked EXCEPT ![k] = NoLimit]

\* The end of Allow, for the buckets bs, where k has one, and the history log:
\* refill, and take a token if there is one.
take(k, perMin, bs, log) ==
    LET held == Refilled(bs[k], perMin, instant)
        fits == held >= Minute
    IN /\ buckets' = [bs EXCEPT ![k] =
                        [tokens |-> IF fits THEN held - Minute ELSE held,
                         last |-> instant]]
       /\ admitted' = [log EXCEPT ![k] = IF fits THEN Append(@, instant) ELSE @]
       /\ refusal' = [refusal EXCEPT ![k] =
                        IF fits THEN NoRefusal
                        ELSE IF @ # NoRefusal /\ @.limit = perMin THEN @
                        ELSE [at |-> instant, limit |-> perMin]]

\* Allow for a key that has a bucket.
AllowKnown(k, perMin) ==
    /\ k \in DOMAIN buckets
    /\ take(k, perMin, buckets, admitted)

\* Allow for a key without one, when there is room for it, perhaps after prune.
AllowFresh(k, perMin) ==
    LET kept == IF Cardinality(DOMAIN buckets) >= MaxKeys THEN prune(buckets)
                                                          ELSE buckets
    IN /\ k \notin DOMAIN buckets
       /\ Cardinality(DOMAIN kept) < MaxKeys
       /\ take(k, perMin, With(kept, k, Full(perMin)), admitted)

\* Allow for a key without one, when prune has made no room.
AllowEvicting(k, perMin) ==
    LET kept == prune(buckets)
    IN /\ k \notin DOMAIN buckets
       /\ Cardinality(DOMAIN kept) >= MaxKeys
       /\ \E e \in evictOldest(kept):
             take(k, perMin, With(Without(kept, e), k, Full(perMin)),
                  [o \in Callers |-> IF o = e THEN <<>> ELSE admitted[o]])

\* handleSign or admitDenial asks for a request of k: the limit is read under
\* the lock of the server, before Allow takes the lock of the limiter.
signRate(k) ==
    /\ asked[k] = NoLimit
    /\ asked' = [asked EXCEPT ![k] = limit]
    /\ UNCHANGED <<buckets, limit, instant, admitted, refusal>>

\* A limit of 0: the request passes, and the buckets are not looked at.
Unlimited(k) ==
    /\ asked[k] = 0
    /\ Replied(k)
    /\ UNCHANGED <<buckets, limit, instant, admitted, refusal>>

Allow(k) ==
    /\ asked[k] # NoLimit /\ asked[k] > 0
    /\ \/ AllowKnown(k, asked[k])
       \/ AllowFresh(k, asked[k])
       \/ AllowEvicting(k, asked[k])
    /\ Replied(k)
    /\ UNCHANGED <<limit, instant>>

\* A reload puts another limit in force; it does not touch the limiter.
Reload ==
    /\ limit' \in Limits \ {limit}
    /\ UNCHANGED <<buckets, asked, instant, admitted, refusal>>

RateTick ==
    /\ instant < RateTime
    /\ instant' = instant + 1
    /\ UNCHANGED <<buckets, limit, asked, admitted, refusal>>

RateNext ==
    \/ \E k \in Callers: signRate(k) \/ Unlimited(k) \/ Allow(k)
    \/ Reload
    \/ RateTick

RateSpec == RateInit /\ [][RateNext]_rateVars

TopLimit == CHOOSE l \in Limits: \A o \in Limits: o <= l

(***************************************************************************)
(* Between any two requests let through, a key got at most one minute of   *)
(* budget at once and the refill of the time between them, under the       *)
(* highest limit there was, whatever was pruned and however the limit      *)
(* changed.  Only the eviction of its own bucket gives a key more          *)
(* (RateLimiter.Allow).  And it gets its share: once the Retry-After of a  *)
(* refusal has passed, the next request of the key fits, if the limit it   *)
(* is judged by is the same and no other request of the key was let        *)
(* through in between.                                                     *)
(***************************************************************************)
NoMore(k) ==
    \A i, j \in DOMAIN admitted[k]:
        i < j => (j - i + 1) * Minute
                    <= TopLimit * (Minute + admitted[k][j] - admitted[k][i])

NoLess(k) ==
    LET r == refusal[k]
    IN k \in DOMAIN buckets /\ r # NoRefusal /\ instant >= r.at + RetryAfter(r.limit)
          => Refilled(buckets[k], r.limit, instant) >= Minute

Budget == \A k \in Callers: NoMore(k) /\ NoLess(k)
=============================================================================
