---------------------------- MODULE TokenBucket -----------------------------
(***************************************************************************)
(* What RateLimiter promises: a bucket per caller that is full at first    *)
(* and gains a grain with every tick of the clock, whether anybody looks   *)
(* at it or not.  A request takes a token, or is refused because there is  *)
(* none; being refused changes nothing.                                    *)
(***************************************************************************)
EXTENDS Integers, Sequences

CONSTANTS Callers, Cap, Grain, MaxTime   \* as in RateLimiter

VARIABLES
    now,
    level,     \* what is in each caller's bucket now
    grants     \* history: when each caller's requests were let through

bucketVars == <<now, level, grants>>

Init ==
    /\ now = 0
    /\ level = [u \in Callers |-> Cap]
    /\ grants = [u \in Callers |-> <<>>]

Take(u) ==
    /\ level[u] >= Grain
    /\ level' = [level EXCEPT ![u] = @ - Grain]
    /\ grants' = [grants EXCEPT ![u] = Append(@, now)]
    /\ UNCHANGED now

Drip ==
    /\ now < MaxTime
    /\ now' = now + 1
    /\ level' = [u \in Callers |-> IF level[u] < Cap THEN level[u] + 1 ELSE Cap]
    /\ UNCHANGED grants

Next == Drip \/ \E u \in Callers : Take(u)

BucketSpec == Init /\ [][Next]_bucketVars
=============================================================================
