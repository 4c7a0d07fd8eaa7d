---------------------------- MODULE RateLimiter -----------------------------
(***************************************************************************)
(* The gateway's per-user token bucket (RateLimiter in                     *)
(* core/gateway/proxy.go).  Allow holds rl.mu from the first line to the   *)
(* last, so it is one step; the bucket is refilled lazily, from the time   *)
(* that has passed since the caller's last call.                           *)
(*                                                                         *)
(* Tokens are floats in the code.  Here they are counted in grains: a tick *)
(* of the clock is the time in which a bucket gains one grain.             *)
(***************************************************************************)
EXTENDS Integers, Sequences

CONSTANTS
    Callers,      \* user ids; anonymous callers share the bucket of one id
    Cap,          \* requestsPerMin, the size of a bucket, in grains; without a
                  \* limit, which is a rate of 0, there are no buckets
    Grain,        \* one token, in grains
    MaxTime       \* bound: the clock stops here

ASSUME RateAssumption ==
    /\ Cap \in Nat \ {0}
    /\ Grain \in Nat \ {0}
    /\ MaxTime \in Nat

VARIABLES
    now,          \* time.Now()
    buckets,      \* rl.limits
    grants        \* history: when each caller's requests were let through

rateVars == <<now, buckets, grants>>

NoBucket == [tokens |-> 0, last |-> -1]
Bucket == [tokens : 0 .. Cap, last : Nat]

RateTypeOK ==
    /\ now \in Nat
    /\ buckets \in [Callers -> {NoBucket} \cup Bucket]
    /\ grants \in [Callers -> Seq(Nat)]

RateInit ==
    /\ now = 0
    /\ buckets = [u \in Callers |-> NoBucket]
    /\ grants = [u \in Callers |-> <<>>]

\* Faulty variant: a bucket that was idle for long grows past its size.
RefilledUncapped(u) ==
    IF buckets[u] = NoBucket THEN Cap ELSE buckets[u].tokens + (now - buckets[u].last)

\* What the bucket of u holds when Allow looks at it.
Refilled(u) ==
    IF buckets[u] = NoBucket THEN Cap
    ELSE LET full == buckets[u].tokens + (now - buckets[u].last)
         IN  IF full > Cap THEN Cap ELSE full

\* Allow returns true: the request takes a token.
Grant(u) ==
    /\ Refilled(u) >= Grain
    /\ buckets' = [buckets EXCEPT ![u] = [tokens |-> Refilled(u) - Grain, last |-> now]]
    /\ grants' = [grants EXCEPT ![u] = Append(@, now)]
    /\ UNCHANGED now

\* Faulty variant: a denied call adds the refill without moving lastRefillAt.
DenyRefillsAgain(u) ==
    /\ Refilled(u) < Grain
    /\ buckets' = [buckets EXCEPT ![u] =
                     [tokens |-> Refilled(u), last |-> IF @ = NoBucket THEN now ELSE @.last]]
    /\ UNCHANGED <<now, grants>>

\* Allow returns false: the bucket is refilled all the same.
Deny(u) ==
    /\ Refilled(u) < Grain
    /\ buckets' = [buckets EXCEPT ![u] = [tokens |-> Refilled(u), last |-> now]]
    /\ UNCHANGED <<now, grants>>

TimePasses ==
    /\ now < MaxTime
    /\ now' = now + 1
    /\ UNCHANGED <<buckets, grants>>

RateNext ==
    \/ \E u \in Callers : Grant(u) \/ Deny(u)
    \/ TimePasses

RateSpec == RateInit /\ [][RateNext]_rateVars

----
\* In every window of time, not only from the start, a caller gets at most a
\* full bucket and what the window itself refills: neither an idle spell nor a
\* run of denied calls buys a larger burst later.
WindowBounded ==
    \A u \in Callers : \A i, j \in DOMAIN grants[u] :
      i <= j => (j - i + 1) * Grain <= Cap + (grants[u][j] - grants[u][i])

Steady == INSTANCE TokenBucket WITH level <- [u \in Callers |-> Refilled(u)]

\* Refilling a bucket when it is looked at comes to the same as refilling it
\* all the time: nobody gains by asking often or seldom, or by being denied, and
\* who is denied really had no token (proxy.go:402, which moves lastRefillAt
\* with every call).
RefillsSteadily == Steady!BucketSpec
=============================================================================
