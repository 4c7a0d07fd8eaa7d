------------------------------- MODULE Quota --------------------------------
(***************************************************************************)
(* The gateway's token quotas: TokenQuotaManager (core/gateway/quota.go)   *)
(* over one of its three backends (quota_backend.go, quota_sqlite.go,      *)
(* quota_redis.go).  A request reads the daily and then the monthly        *)
(* counter before it is forwarded, and adds its tokens to both after the   *)
(* response: nothing reserves them in between, so requests of one user     *)
(* race each other, the clock, backend errors and a restart.               *)
(*                                                                         *)
(* The clock is a day and a flag: midnight is the very instant the day     *)
(* begins, which matters because the memory backend compares with a strict *)
(* After.                                                                  *)
(***************************************************************************)
EXTENDS Calendar, FiniteSets

CONSTANTS
    Users,        \* authenticated user ids with a profile in the key store
    Requests,     \* the gateway's concurrent request slots
    Limit,        \* Limit[b][u]: MaxTokensPerDay / MaxTokensPerMonth, 0 = none
    MaxTokens,    \* the most tokens one response uses (the models' context)
    Backends      \* the values of quota.backend a deployment may choose

Buckets == {"daily", "monthly"}

ASSUME QuotaAssumption ==
    /\ IsFiniteSet(Requests)
    /\ Limit \in [Buckets -> [Users -> Nat]]
    /\ MaxTokens \in Nat
    /\ Backends \subseteq {"memory", "sqlite", "redis"}

VARIABLES
    day,          \* the UTC day time.Now() falls in
    midnight,     \* time.Now() is exactly the instant the day begins
    backend,      \* the backend BuildQuotaBackend returned
    counters,     \* MemoryQuotaBackend: counters[b][u]
    rows,         \* SQLite / Redis: the newest row of each bucket and user
    reqs,         \* reqs[r]: where request r is in the quota protocol
    spent,        \* history: tokens added inside the current period
    edge          \* history: tokens added at the instant it began

vars == <<day, midnight, backend, counters, rows, reqs, spent, edge>>
clock == <<day, midnight>>
history == <<spent, edge>>

----
(* The clock as the backends read it. *)

After(at) == at < day \/ (at = day /\ ~midnight)

Key(b) == IF b = "daily" THEN day ELSE MonthOf(day)

NextReset(b) == IF b = "daily" THEN NextDailyReset(day) ELSE NextMonthlyReset(day)

PeriodStart(b) == midnight /\ (b = "daily" \/ DayOfMonth(day) = 0)

----
(* What the backends store.  An absent counter behaves as one whose reset   *)
(* time is long past; an absent row as one of a key that is never current.  *)

NoCounter == [used |-> 0, resetAt |-> -1]
Counter == [used : Nat, resetAt : Nat \cup {-1}]

NoRow == [key |-> -1, tokens |-> 0, expires |-> 0]
Row == [key : Nat \cup {-1}, tokens : Nat, expires : Nat]

\* The TTL of a Redis key in days: 48h for a daily one, 70d for a monthly one.
TTL(b) == IF b = "daily" THEN 2 ELSE 70

MemoryGet(b, u) == IF After(counters[b][u].resetAt) THEN 0 ELSE counters[b][u].used

RowGet(b, u) == IF rows[b][u].key = Key(b) THEN rows[b][u].tokens ELSE 0

Reading(b, u) == IF backend = "memory" THEN MemoryGet(b, u) ELSE RowGet(b, u)

----
(* A request holds a bucket while it checks it, and again while it adds to  *)
(* it; it is forwarded between the two.                                     *)

Idle == [pc |-> "idle", bucket |-> "daily", user |-> "none", tokens |-> 0]

Active == [pc : {"check", "forward", "find", "add"}, bucket : Buckets,
           user : Users, tokens : 0 .. MaxTokens]

TypeOK ==
    /\ day \in Days
    /\ midnight \in BOOLEAN
    /\ backend \in Backends
    /\ counters \in [Buckets -> [Users -> Counter]]
    /\ rows \in [Buckets -> [Users -> Row]]
    /\ reqs \in [Requests -> {Idle} \cup Active]
    /\ spent \in [Buckets -> [Users -> Nat]]
    /\ edge \in [Buckets -> [Users -> Nat]]

Zero == [b \in Buckets |-> [u \in Users |-> 0]]

Init ==
    /\ day \in Days
    /\ midnight \in BOOLEAN
    /\ backend \in Backends
    /\ counters = [b \in Buckets |-> [u \in Users |-> NoCounter]]
    /\ rows = [b \in Buckets |-> [u \in Users |-> NoRow]]
    /\ reqs = [r \in Requests |-> Idle]
    /\ spent = Zero
    /\ edge = Zero

----
(* CheckQuota: before the request is forwarded.                             *)

\* Faulty variant: the limit itself still admits.
AdmitsAtLimit(b, u) == Limit[b][u] > 0 => Reading(b, u) <= Limit[b][u]

Admits(b, u) == Limit[b][u] > 0 => Reading(b, u) < Limit[b][u]

Arrive(r, u) ==
    /\ reqs[r] = Idle
    /\ reqs' = [reqs EXCEPT ![r] = [pc |-> "check", bucket |-> "daily",
                                    user |-> u, tokens |-> 0]]
    /\ UNCHANGED <<clock, backend, counters, rows, history>>

CheckPasses(r) ==
    /\ reqs[r].pc = "check"
    /\ Admits(reqs[r].bucket, reqs[r].user)
    /\ reqs' = [reqs EXCEPT ![r] =
                  IF @.bucket = "daily" THEN [@ EXCEPT !.bucket = "monthly"]
                  ELSE [@ EXCEPT !.pc = "forward", !.bucket = "daily"]]
    /\ UNCHANGED <<clock, backend, counters, rows, history>>

\* 429: the counter has reached the limit.
CheckRejects(r) ==
    /\ reqs[r].pc = "check"
    /\ ~Admits(reqs[r].bucket, reqs[r].user)
    /\ reqs' = [reqs EXCEPT ![r] = Idle]
    /\ UNCHANGED <<clock, backend, counters, rows, history>>

\* A counter that has a limit and cannot be read rejects the request too.
CheckFails(r) ==
    /\ reqs[r].pc = "check"
    /\ backend # "memory"
    /\ Limit[reqs[r].bucket][reqs[r].user] > 0
    /\ reqs' = [reqs EXCEPT ![r] = Idle]
    /\ UNCHANGED <<clock, backend, counters, rows, history>>

----
(* The response, and Record: AddDaily, then AddMonthly, errors dropped.     *)

FirstAdd == IF backend = "memory" THEN "find" ELSE "add"

\* Faulty variant: the prompt's tokens are added twice.
RespondTwice(r, n) ==
    /\ reqs[r].pc = "forward"
    /\ reqs' = [reqs EXCEPT ![r] =
                  IF n = 0 THEN Idle
                  ELSE [@ EXCEPT !.pc = FirstAdd, !.tokens = n + n]]
    /\ UNCHANGED <<clock, backend, counters, rows, history>>

Respond(r, n) ==
    /\ reqs[r].pc = "forward"
    /\ reqs' = [reqs EXCEPT ![r] =
                  IF n = 0 THEN Idle
                  ELSE [@ EXCEPT !.pc = FirstAdd, !.tokens = n]]
    /\ UNCHANGED <<clock, backend, counters, rows, history>>

\* ReverseProxy aborts the handler when the client or the backend goes away
\* while the body is copied: the tokens of that response are never recorded.
Abort(r) ==
    /\ reqs[r].pc = "forward"
    /\ reqs' = [reqs EXCEPT ![r] = Idle]
    /\ UNCHANGED <<clock, backend, counters, rows, history>>

Added(r) ==
    reqs' = [reqs EXCEPT ![r] =
               IF @.bucket = "daily" THEN [@ EXCEPT !.pc = FirstAdd, !.bucket = "monthly"]
               ELSE Idle]

CountSpend(b, u, n) ==
    IF PeriodStart(b)
      THEN edge' = [edge EXCEPT ![b][u] = @ + n] /\ UNCHANGED spent
      ELSE spent' = [spent EXCEPT ![b][u] = @ + n] /\ UNCHANGED edge

\* addTo, under b.mu: find the counter or create it.
FindCounter(r) ==
    LET b == reqs[r].bucket
        u == reqs[r].user
    IN  /\ reqs[r].pc = "find"
        /\ counters' = [counters EXCEPT ![b][u] =
                          IF @ = NoCounter THEN [used |-> 0, resetAt |-> NextReset(b)]
                          ELSE @]
        /\ reqs' = [reqs EXCEPT ![r].pc = "add"]
        /\ UNCHANGED <<clock, backend, rows, history>>

\* Faulty variant: a new period keeps the reset time of the old one.
AddToCounterKeepReset(r) ==
    LET b == reqs[r].bucket
        u == reqs[r].user
        n == reqs[r].tokens
    IN  /\ reqs[r].pc = "add"
        /\ backend = "memory"
        /\ counters' = [counters EXCEPT ![b][u] =
                          [used |-> IF After(@.resetAt) THEN n ELSE @.used + n,
                           resetAt |-> @.resetAt]]
        /\ CountSpend(b, u, n)
        /\ Added(r)
        /\ UNCHANGED <<clock, backend, rows>>

\* addTo, under counter.mu: start a new period if the old one is over, add.
AddToCounter(r) ==
    LET b == reqs[r].bucket
        u == reqs[r].user
        n == reqs[r].tokens
    IN  /\ reqs[r].pc = "add"
        /\ backend = "memory"
        /\ counters' = [counters EXCEPT ![b][u] =
                          IF After(@.resetAt) THEN [used |-> n, resetAt |-> NextReset(b)]
                          ELSE [used |-> @.used + n, resetAt |-> @.resetAt]]
        /\ CountSpend(b, u, n)
        /\ Added(r)
        /\ UNCHANGED <<clock, backend, rows>>

\* The upsert of SQLite, the INCRBY and EXPIRE of Redis.
AddToRow(r) ==
    LET b == reqs[r].bucket
        u == reqs[r].user
        n == reqs[r].tokens
    IN  /\ reqs[r].pc = "add"
        /\ backend # "memory"
        /\ rows' = [rows EXCEPT ![b][u] =
                      [key |-> Key(b), tokens |-> RowGet(b, u) + n,
                       expires |-> IF backend = "redis" THEN day + TTL(b) ELSE 0]]
        /\ CountSpend(b, u, n)
        /\ Added(r)
        /\ UNCHANGED <<clock, backend, counters>>

\* The write fails and Record ignores it: the tokens are not counted.
AddFails(r) ==
    /\ reqs[r].pc = "add"
    /\ backend # "memory"
    /\ Added(r)
    /\ UNCHANGED <<clock, backend, counters, rows, history>>

----
(* The environment: the clock, Redis' expiry, a restart of the gateway.     *)

Tick ==
    /\ \/ midnight /\ day' = day /\ midnight' = FALSE
       \/ day' \in {d \in Days : d > day} /\ midnight' \in BOOLEAN
    /\ LET over(b) == IF b = "daily" THEN day' # day ELSE MonthOf(day') # MonthOf(day)
           fresh(f) == [b \in Buckets |-> IF over(b) THEN Zero[b] ELSE f[b]]
       IN  spent' = fresh(spent) /\ edge' = fresh(edge)
    /\ UNCHANGED <<backend, counters, rows, reqs>>

Expire(b, u) ==
    /\ backend = "redis"
    /\ rows[b][u] # NoRow
    /\ day >= rows[b][u].expires
    /\ rows' = [rows EXCEPT ![b][u] = NoRow]
    /\ UNCHANGED <<clock, backend, counters, reqs, history>>

\* Every request in flight is lost; so is the memory backend.
Restart ==
    /\ reqs' = [r \in Requests |-> Idle]
    /\ counters' = [b \in Buckets |-> [u \in Users |-> NoCounter]]
    /\ IF backend = "memory" THEN spent' = Zero /\ edge' = Zero
                             ELSE UNCHANGED history
    /\ UNCHANGED <<clock, backend, rows>>

RequestStep(r) ==
    \/ \E u \in Users : Arrive(r, u)
    \/ CheckPasses(r)
    \/ CheckRejects(r)
    \/ CheckFails(r)
    \/ \E n \in 0 .. MaxTokens : Respond(r, n)
    \/ Abort(r)
    \/ FindCounter(r)
    \/ AddToCounter(r)
    \/ AddToRow(r)
    \/ AddFails(r)

Next ==
    \/ \E r \in Requests : RequestStep(r)
    \/ Tick
    \/ \E b \in Buckets, u \in Users : Expire(b, u)
    \/ Restart

Spec == Init /\ [][Next]_vars

----
(* Properties                                                               *)

\* Request r of user u was admitted against bucket b and has not added to it.
Pending(r, b, u) ==
    /\ reqs[r].user = u
    /\ \/ reqs[r].pc = "forward"
       \/ reqs[r].pc = "check" /\ reqs[r].bucket = "monthly" /\ b = "daily"
       \/ reqs[r].pc \in {"find", "add"} /\ (reqs[r].bucket = "daily" \/ b = "monthly")

InFlight(b, u) == {r \in Requests : Pending(r, b, u)}

\* No row is keyed by a period that has not begun.
RowsNotFromFuture ==
    \A b \in Buckets, u \in Users : rows[b][u].key <= Key(b)

\* A limit is overshot by at most the tokens of the requests that were
\* admitted together: whatever the schedule, the counter and the worst case of
\* everything in flight stay below the limit plus one response per request
\* slot (CheckQuota reads, Record adds, nothing reserves in between).
OvershootBound(b, u) ==
    Reading(b, u) + Cardinality(InFlight(b, u)) * MaxTokens
      < Limit[b][u] + Cardinality(Requests) * MaxTokens

OvershootBounded ==
    \A b \in Buckets, u \in Users : Limit[b][u] > 0 => OvershootBound(b, u)

\* What CheckQuota reads never misses tokens that were added in the current
\* period: no reset comes early, no add is lost to another, to a new period
\* or to Redis' expiry, and SQLite and Redis keep them over a restart.
NeverUndercounts ==
    \A b \in Buckets, u \in Users : spent[b][u] <= Reading(b, u)

\* "Counters reset on the 1st of the next month at UTC midnight"
\* (quota_backend.go:27): once midnight has passed, the monthly counter holds
\* nothing of the month before.
MonthlyResetsOnFirst ==
    ~midnight => \A u \in Users :
      Reading("monthly", u) <= spent["monthly"][u] + edge["monthly"][u]

\* The monthly counter was begun on a day that AddDate carried past the whole
\* of this month (quota_backend.go:50).
Carried(d, u) ==
    /\ MonthOf(d) < MonthOf(day)
    /\ counters["monthly"][u].resetAt = NextMonthlyReset(d)
    /\ AddOneMonth(d) >= MonthStart[MonthOf(day) + 1]

\* Once midnight has passed, no counter holds tokens of an earlier period against
\* a user, and the one thing that makes it is the calendar's overflow, on the
\* memory backend and by the month.  No interleaving of adds, no tick, no other
\* day of the month and no restart does it (quota_backend.go:22-54, 99-130).
OnlyOverflowDelaysReset ==
    ~midnight => \A b \in Buckets, u \in Users :
      \/ Reading(b, u) <= spent[b][u] + edge[b][u]
      \/ b = "monthly" /\ backend = "memory" /\ \E d \in Days : Carried(d, u)

\* Once the instant that begins a period is over, no counter goes down until
\* the period ends, unless the process that kept it in memory restarted: not
\* by another request's add, not by an expiry, not by a restart over SQLite
\* or Redis.
CountersOnlyGrow ==
    [][\A b \in Buckets, u \in Users :
         \/ Key(b)' # Key(b)
         \/ PeriodStart(b)
         \/ backend = "memory" /\ counters'[b][u] = NoCounter
         \/ Reading(b, u)' >= Reading(b, u)]_vars
=============================================================================
