------------------------- MODULE RateLimiterProofs --------------------------
(***************************************************************************)
(* The token bucket never lets a caller exceed its window, for every       *)
(* bucket size, token size and number of callers.                          *)
(***************************************************************************)
EXTENDS RateLimiter, TLAPS

\* What is left in the bucket of u pays for the difference between what u got
\* since any earlier grant and what u may have got: the fact that makes
\* WindowBounded inductive.
Paid ==
    \A u \in Callers : \A i \in DOMAIN grants[u] :
      /\ buckets[u] # NoBucket
      /\ grants[u][i] <= buckets[u].last
      /\ (Len(grants[u]) - i + 1) * Grain + buckets[u].tokens
           <= Cap + (buckets[u].last - grants[u][i])

\* No bucket was last touched in the future.
NotAhead == \A u \in Callers : buckets[u].last <= now

RateInv == RateTypeOK /\ NotAhead /\ Paid /\ WindowBounded

----
\* The refill stays within the bucket and adds at most the time that passed.
LEMMA RefilledFacts ==
    ASSUME RateTypeOK, NotAhead, NEW u \in Callers
    PROVE  /\ Refilled(u) \in 0 .. Cap
           /\ buckets[u] # NoBucket =>
                /\ buckets[u] \in Bucket
                /\ Refilled(u) <= buckets[u].tokens + (now - buckets[u].last)
  <1>1. CASE buckets[u] = NoBucket
    BY <1>1, RateAssumption DEF Refilled
  <1>2. CASE buckets[u] # NoBucket
    <2>1. buckets[u] \in Bucket
      BY <1>2 DEF RateTypeOK
    <2>2. now \in Nat /\ buckets[u].last <= now
      BY DEF RateTypeOK, NotAhead
    <2> QED
      BY <1>2, <2>1, <2>2, RateAssumption DEF Refilled, Bucket
  <1> QED
    BY <1>1, <1>2

\* Allow's answer costs nothing but what it takes: Deny keeps the inequality.
LEMMA DenyKeepsInv ==
    ASSUME RateInv, NEW u \in Callers, Deny(u)
    PROVE  RateInv'
  <1> DEFINE b == [tokens |-> Refilled(u), last |-> now]
  <1>1. /\ Refilled(u) \in 0 .. Cap
        /\ buckets[u] # NoBucket =>
             /\ buckets[u] \in Bucket
             /\ Refilled(u) <= buckets[u].tokens + (now - buckets[u].last)
    BY RefilledFacts DEF RateInv
  <1>2. now \in Nat /\ now' = now /\ grants' = grants
    BY DEF RateInv, RateTypeOK, Deny
  <1>3. /\ buckets'[u] = b
        /\ \A v \in Callers \ {u} : buckets'[v] = buckets[v]
        /\ buckets' \in [Callers -> {NoBucket} \cup Bucket]
    BY <1>1, <1>2 DEF RateInv, RateTypeOK, Deny, Bucket
  <1>4. b # NoBucket
    BY <1>2 DEF NoBucket
  <1>5. RateTypeOK'
    BY <1>2, <1>3 DEF RateInv, RateTypeOK
  <1>6. NotAhead'
    BY <1>2, <1>3 DEF RateInv, NotAhead
  <1>7. Paid'
    <2> SUFFICES ASSUME NEW v \in Callers, NEW i \in DOMAIN grants[v]
                 PROVE  /\ buckets'[v] # NoBucket
                        /\ grants[v][i] <= buckets'[v].last
                        /\ (Len(grants[v]) - i + 1) * Grain + buckets'[v].tokens
                             <= Cap + (buckets'[v].last - grants[v][i])
      BY <1>2 DEF Paid
    <2>1. /\ buckets[v] # NoBucket
          /\ grants[v][i] <= buckets[v].last
          /\ (Len(grants[v]) - i + 1) * Grain + buckets[v].tokens
               <= Cap + (buckets[v].last - grants[v][i])
      BY DEF RateInv, Paid
    <2>2. CASE v # u
      BY <1>3, <2>1, <2>2
    <2>3. CASE v = u
      <3>1. grants[u] \in Seq(Nat) /\ i \in 1 .. Len(grants[u]) /\ grants[u][i] \in Nat
        BY <2>3 DEF RateInv, RateTypeOK
      <3>2. buckets[u].last \in Nat /\ buckets[u].tokens \in Nat /\ buckets[u].last <= now
        BY <1>1, <2>1, <2>3 DEF Bucket, RateInv, NotAhead
      <3> DEFINE cost == (Len(grants[u]) - i + 1) * Grain
      <3>3. cost \in Int
        BY <3>1, RateAssumption
      <3>4. cost + buckets[u].tokens <= Cap + (buckets[u].last - grants[u][i])
        BY <2>1, <2>3
      <3> HIDE DEF cost
      <3>5. cost + Refilled(u) <= Cap + (now - grants[u][i])
        <4> DEFINE at == grants[u][i]
                   left == buckets[u].tokens
                   last == buckets[u].last
                   x == Refilled(u)
        <4>1. at \in Nat /\ left \in Nat /\ last \in Nat /\ x \in Int
          BY <1>1, <3>1, <3>2
        <4>2. x <= left + (now - last) /\ cost + left <= Cap + (last - at)
          BY <1>1, <2>1, <2>3, <3>4
        <4> HIDE DEF at, left, last, x
        <4>3. cost + x <= Cap + (now - at)
          BY <1>2, <3>3, <4>1, <4>2, RateAssumption
        <4> QED
          BY <4>3 DEF at, x
      <3>6. buckets'[u] # NoBucket /\ buckets'[u].last = now /\ buckets'[u].tokens = Refilled(u)
        BY <1>3, <1>4
      <3>7. grants[u][i] <= now
        BY <1>2, <2>1, <2>3, <3>1, <3>2
      <3> QED
        BY <2>3, <3>5, <3>6, <3>7 DEF cost
    <2> QED
      BY <2>2, <2>3
  <1>8. WindowBounded'
    BY <1>2 DEF RateInv, WindowBounded
  <1> QED
    BY <1>5, <1>6, <1>7, <1>8 DEF RateInv

\* A grant: the new one opens a window of its own, and closes every other.
LEMMA GrantKeepsInv ==
    ASSUME RateInv, NEW u \in Callers, Grant(u)
    PROVE  RateInv'
  <1> DEFINE b == [tokens |-> Refilled(u) - Grain, last |-> now]
             n == Len(grants[u])
             cost(i) == (n - i + 1) * Grain
  <1>1. /\ Refilled(u) \in 0 .. Cap
        /\ Refilled(u) >= Grain
        /\ buckets[u] # NoBucket =>
             /\ buckets[u] \in Bucket
             /\ Refilled(u) <= buckets[u].tokens + (now - buckets[u].last)
    BY RefilledFacts DEF RateInv, Grant
  <1>2. now \in Nat /\ now' = now /\ grants[u] \in Seq(Nat)
    BY DEF RateInv, RateTypeOK, Grant
  <1>3. /\ buckets'[u] = b
        /\ \A v \in Callers \ {u} : buckets'[v] = buckets[v]
        /\ buckets' \in [Callers -> {NoBucket} \cup Bucket]
    BY <1>1, <1>2, RateAssumption DEF RateInv, RateTypeOK, Grant, Bucket
  <1>4. b # NoBucket
    BY <1>2 DEF NoBucket
  <1>5. /\ grants'[u] = Append(grants[u], now)
        /\ \A v \in Callers \ {u} : grants'[v] = grants[v]
        /\ grants' \in [Callers -> Seq(Nat)]
    BY <1>2 DEF RateInv, RateTypeOK, Grant
  <1>6. /\ Len(grants'[u]) = n + 1
        /\ grants'[u][n + 1] = now
        /\ \A i \in 1 .. n : grants'[u][i] = grants[u][i] /\ grants[u][i] \in Nat
        /\ n \in Nat
        /\ DOMAIN grants[u] = 1 .. n
        /\ DOMAIN grants'[u] = 1 .. (n + 1)
    BY <1>2, <1>5
  \* What the caller had before pays for the new grant too.
  <1>7. ASSUME NEW i \in 1 .. n
        PROVE  /\ (n + 1 - i + 1) * Grain <= Cap + (now - grants[u][i])
               /\ (n + 1 - i + 1) * Grain + b.tokens <= Cap + (now - grants[u][i])
               /\ grants[u][i] <= now
    <2>1. cost(i) \in Int /\ (n + 1 - i + 1) * Grain = cost(i) + Grain
      BY <1>6, RateAssumption
    <2>2. /\ buckets[u] # NoBucket
          /\ grants[u][i] <= buckets[u].last
          /\ cost(i) + buckets[u].tokens <= Cap + (buckets[u].last - grants[u][i])
      BY <1>6 DEF RateInv, Paid
    <2>3. buckets[u].last \in Nat /\ buckets[u].tokens \in Nat /\ buckets[u].last <= now
      BY <1>1, <2>2 DEF Bucket, RateInv, NotAhead
    <2>4. Refilled(u) <= buckets[u].tokens + (now - buckets[u].last)
      BY <1>1, <2>2
    <2>5. grants[u][i] \in Nat
      BY <1>6
    <2> HIDE DEF cost
    <2>6. cost(i) + Refilled(u) <= Cap + (now - grants[u][i])
      <3> DEFINE at == grants[u][i]
                 left == buckets[u].tokens
                 last == buckets[u].last
                 x == Refilled(u)
                 c == cost(i)
      <3>1. at \in Nat /\ left \in Nat /\ last \in Nat /\ x \in Int /\ c \in Int
        BY <1>1, <2>1, <2>3, <2>5
      <3>2. x <= left + (now - last) /\ c + left <= Cap + (last - at)
        BY <2>2, <2>4
      <3> HIDE DEF at, left, last, x, c
      <3>3. c + x <= Cap + (now - at)
        BY <1>2, <3>1, <3>2, RateAssumption
      <3> QED
        BY <3>3 DEF at, x, c
    <2>7. /\ (n + 1 - i + 1) * Grain <= Cap + (now - grants[u][i])
          /\ (n + 1 - i + 1) * Grain + (Refilled(u) - Grain) <= Cap + (now - grants[u][i])
      <3> DEFINE new == (n + 1 - i + 1) * Grain
                 room == Cap + (now - grants[u][i])
                 x == Refilled(u)
                 c == cost(i)
      <3>1. x \in Int /\ Grain <= x
        BY <1>1
      <3>2. room \in Int
        BY <1>2, <2>5, RateAssumption
      <3>3. c \in Int /\ new = c + Grain
        BY ONLY <2>1
      <3>4. c + x <= room
        BY ONLY <2>6
      <3> HIDE DEF new, room, x, c
      <3>5. new <= room /\ new + (x - Grain) <= room
        BY <3>1, <3>2, <3>3, <3>4, RateAssumption
      <3> QED
        BY <3>5 DEF new, room, x
    <2> QED
      BY <1>2, <2>2, <2>3, <2>5, <2>7
  <1>8. RateTypeOK'
    BY <1>2, <1>3, <1>5 DEF RateInv, RateTypeOK
  <1>9. NotAhead'
    BY <1>2, <1>3 DEF RateInv, NotAhead
  <1>10. Paid'
    <2> SUFFICES ASSUME NEW v \in Callers, NEW i \in DOMAIN grants'[v]
                 PROVE  /\ buckets'[v] # NoBucket
                        /\ grants'[v][i] <= buckets'[v].last
                        /\ (Len(grants'[v]) - i + 1) * Grain + buckets'[v].tokens
                             <= Cap + (buckets'[v].last - grants'[v][i])
      BY DEF Paid
    <2>1. CASE v # u
      BY <1>3, <1>5, <2>1 DEF RateInv, Paid
    <2>2. CASE v = u /\ i = n + 1
      <3>1. (n + 1 - i + 1) * Grain + (Refilled(u) - Grain) = Refilled(u)
        BY <1>1, <1>6, <2>2, RateAssumption
      <3>2. Refilled(u) <= Cap + (now - now)
        BY <1>1, <1>2, RateAssumption
      <3>3. (Len(grants'[v]) - i + 1) * Grain = (n + 1 - i + 1) * Grain
        <4>1. Len(grants'[v]) = n + 1
          BY <1>6, <2>2
        <4> QED
          BY ONLY <4>1
      <3>4. buckets'[v].tokens = Refilled(u) - Grain /\ buckets'[v].last = now
        BY <1>3, <2>2
      <3>5. (Len(grants'[v]) - i + 1) * Grain + buckets'[v].tokens <= Cap + (now - now)
        BY ONLY <3>1, <3>2, <3>3, <3>4
      <3>6. buckets'[v] # NoBucket /\ grants'[v][i] = now /\ now <= now
        BY <1>2, <1>3, <1>4, <1>6, <2>2
      <3> QED
        BY ONLY <3>4, <3>5, <3>6
    <2>3. CASE v = u /\ i \in 1 .. n
      <3>1. (Len(grants'[v]) - i + 1) * Grain = (n + 1 - i + 1) * Grain
        <4>1. Len(grants'[v]) = n + 1
          BY <1>6, <2>3
        <4> QED
          BY ONLY <4>1
      <3>2. grants'[v][i] = grants[u][i] /\ buckets'[v] = b
        BY <1>3, <1>6, <2>3
      <3> QED
        BY <1>4, <1>7, <2>3, <3>1, <3>2
    <2> QED
      BY <1>6, <2>1, <2>2, <2>3
  <1>11. WindowBounded'
    <2> SUFFICES ASSUME NEW v \in Callers, NEW i \in DOMAIN grants'[v],
                        NEW j \in DOMAIN grants'[v], i <= j
                 PROVE  (j - i + 1) * Grain <= Cap + (grants'[v][j] - grants'[v][i])
      BY DEF WindowBounded
    <2>1. CASE v # u
      BY <1>5, <2>1 DEF RateInv, WindowBounded
    <2>2. CASE v = u /\ j \in 1 .. n
      <3>1. i \in DOMAIN grants[u] /\ j \in DOMAIN grants[u]
        BY <1>6, <2>2
      <3>2. (j - i + 1) * Grain <= Cap + (grants[u][j] - grants[u][i])
        BY <3>1 DEF RateInv, WindowBounded
      <3>3. grants'[v][j] = grants[u][j] /\ grants'[v][i] = grants[u][i]
        BY <1>6, <2>2, <3>1
      <3> QED
        BY ONLY <3>2, <3>3
    <2>3. CASE v = u /\ j = n + 1 /\ i \in 1 .. n
      <3>1. grants'[v][j] = now /\ grants'[v][i] = grants[u][i]
        BY <1>6, <2>3
      <3>2. (j - i + 1) * Grain = (n + 1 - i + 1) * Grain
        BY ONLY <2>3
      <3> QED
        BY <1>7, <2>3, <3>1, <3>2
    <2>4. CASE v = u /\ j = n + 1 /\ i = n + 1
      <3>1. (j - i + 1) * Grain = Grain
        BY <1>6, <2>4, RateAssumption
      <3>2. grants'[v][j] = now /\ grants'[v][i] = now
        BY <1>6, <2>4
      <3>3. Grain <= Cap + (grants'[v][j] - grants'[v][i])
        BY <1>1, <1>2, <3>2, RateAssumption
      <3> QED
        BY ONLY <3>1, <3>3
    <2>5. v = u => j \in 1 .. n \/ (j = n + 1 /\ (i \in 1 .. n \/ i = n + 1))
      BY <1>6
    <2> QED
      BY ONLY <2>1, <2>2, <2>3, <2>4, <2>5
  <1> QED
    BY <1>8, <1>9, <1>10, <1>11 DEF RateInv

LEMMA TimeKeepsInv ==
    ASSUME RateInv, TimePasses
    PROVE  RateInv'
  <1>1. now \in Nat /\ now' = now + 1 /\ buckets' = buckets /\ grants' = grants
    BY DEF RateInv, RateTypeOK, TimePasses
  <1>2. \A u \in Callers : buckets[u].last \in Int
    BY DEF RateInv, RateTypeOK, Bucket, NoBucket
  <1>3. NotAhead'
    BY <1>1, <1>2 DEF RateInv, NotAhead
  <1> QED
    BY <1>1, <1>3 DEF RateInv, RateTypeOK, Paid, WindowBounded

LEMMA RateInitInv == RateInit => RateInv
  <1> SUFFICES ASSUME RateInit
               PROVE  RateInv
    OBVIOUS
  <1>1. /\ now = 0
        /\ \A u \in Callers : buckets[u] = NoBucket /\ grants[u] = << >>
    BY DEF RateInit
  <1>2. RateTypeOK
    BY DEF RateInit, RateTypeOK
  <1> QED
    BY <1>1, <1>2 DEF RateInv, NotAhead, Paid, WindowBounded, NoBucket

LEMMA RateStepInv == RateInv /\ [RateNext]_rateVars => RateInv'
  <1> SUFFICES ASSUME RateInv, [RateNext]_rateVars
               PROVE  RateInv'
    OBVIOUS
  <1>1. ASSUME NEW u \in Callers, Grant(u)
        PROVE  RateInv'
    BY <1>1, GrantKeepsInv
  <1>2. ASSUME NEW u \in Callers, Deny(u)
        PROVE  RateInv'
    BY <1>2, DenyKeepsInv
  <1>3. CASE TimePasses
    BY <1>3, TimeKeepsInv
  <1>4. CASE UNCHANGED rateVars
    BY <1>4 DEF rateVars, RateInv, RateTypeOK, NotAhead, Paid, WindowBounded
  <1> QED
    BY <1>1, <1>2, <1>3, <1>4 DEF RateNext

\* Whatever the callers do and however long they are idle, no window of time
\* ever holds more grants than a full bucket and its own refill.
THEOREM WindowIsBounded == RateSpec => []WindowBounded
  <1>1. RateInit => RateInv
    BY RateInitInv
  <1>2. RateInv /\ [RateNext]_rateVars => RateInv'
    BY RateStepInv
  <1>3. RateInv => WindowBounded
    BY DEF RateInv
  <1> QED
    BY <1>1, <1>2, <1>3, PTL DEF RateSpec

\* No bucket ever holds more than its size or less than nothing, and no clock
\* runs backwards.
THEOREM RateTypeCorrect == RateSpec => []RateTypeOK
  <1>1. RateInv => RateTypeOK
    BY DEF RateInv
  <1> QED
    BY <1>1, RateInitInv, RateStepInv, PTL DEF RateSpec

----
(* The bucket refilled lazily implements the bucket refilled all the time.  *)

\* After a call the bucket holds, now, what the call left in it; no other
\* caller's bucket is another for it.
LEMMA CallLeaves ==
    ASSUME RateTypeOK, NEW u \in Callers, NEW left \in 0 .. Cap,
           buckets' = [buckets EXCEPT ![u] = [tokens |-> left, last |-> now]],
           now' = now
    PROVE  /\ Refilled(u)' = left
           /\ \A v \in Callers \ {u} : Refilled(v)' = Refilled(v)
  <1>1. now \in Nat /\ Cap \in Nat
    BY RateAssumption DEF RateTypeOK
  <1>2. buckets'[u] = [tokens |-> left, last |-> now]
    BY DEF RateTypeOK
  <1>3. buckets'[u] # NoBucket /\ buckets'[u].tokens = left /\ buckets'[u].last = now
    BY <1>1, <1>2 DEF NoBucket
  <1>4. Refilled(u)' = left
    BY <1>1, <1>3 DEF Refilled
  <1>5. \A v \in Callers \ {u} : buckets'[v] = buckets[v]
    BY DEF RateTypeOK
  <1> QED
    BY <1>4, <1>5 DEF Refilled

\* A tick fills every bucket by a grain, if it is not full: a bucket nobody
\* has asked for is.
LEMMA TickFills ==
    ASSUME RateTypeOK, NotAhead, TimePasses, NEW u \in Callers
    PROVE  Refilled(u)' = IF Refilled(u) < Cap THEN Refilled(u) + 1 ELSE Cap
  <1>1. /\ now \in Nat /\ Cap \in Nat /\ now' = now + 1 /\ buckets' = buckets
    BY RateAssumption DEF RateTypeOK, TimePasses
  <1>2. CASE buckets[u] = NoBucket
    BY <1>1, <1>2 DEF Refilled
  <1>3. CASE buckets[u] # NoBucket
    <2>1. buckets[u].tokens \in Nat /\ buckets[u].last \in Nat /\ buckets[u].last <= now
      BY <1>3 DEF RateTypeOK, Bucket, NotAhead
    <2> QED
      BY <1>1, <1>3, <2>1 DEF Refilled
  <1> QED
    BY <1>2, <1>3

LEMMA GrantTakes ==
    ASSUME RateInv, NEW u \in Callers, Grant(u)
    PROVE  Steady!Take(u)
  <1> DEFINE level == [v \in Callers |-> Refilled(v)]
  <1>1. /\ Refilled(u) \in 0 .. Cap /\ Refilled(u) >= Grain
        /\ Refilled(u) - Grain \in 0 .. Cap
    BY RefilledFacts, RateAssumption DEF RateInv, Grant
  <1>2. /\ Refilled(u)' = Refilled(u) - Grain
        /\ \A v \in Callers \ {u} : Refilled(v)' = Refilled(v)
    BY <1>1, CallLeaves DEF RateInv, Grant
  <1>3. level' = [level EXCEPT ![u] = @ - Grain]
    BY <1>2
  <1>4. level[u] >= Grain
    BY <1>1
  <1>5. grants' = [grants EXCEPT ![u] = Append(@, now)] /\ now' = now
    BY DEF Grant
  <1> QED
    BY <1>3, <1>4, <1>5 DEF Steady!Take

LEMMA DenyStutters ==
    ASSUME RateInv, NEW u \in Callers, Deny(u)
    PROVE  UNCHANGED Steady!bucketVars
  <1>1. Refilled(u) \in 0 .. Cap
    BY RefilledFacts DEF RateInv
  <1>2. \A v \in Callers : Refilled(v)' = Refilled(v)
    BY <1>1, CallLeaves DEF RateInv, Deny
  <1>3. now' = now /\ grants' = grants
    BY DEF Deny
  <1> QED
    BY <1>2, <1>3 DEF Steady!bucketVars

LEMMA TickDrips ==
    ASSUME RateInv, TimePasses
    PROVE  Steady!Drip
  <1> DEFINE level == [v \in Callers |-> Refilled(v)]
  <1>1. level' = [v \in Callers |-> IF level[v] < Cap THEN level[v] + 1 ELSE Cap]
    BY TickFills DEF RateInv
  <1>2. now < MaxTime /\ now' = now + 1 /\ grants' = grants
    BY DEF TimePasses
  <1> QED
    BY <1>1, <1>2 DEF Steady!Drip

\* Whoever asks, however often or seldom, and whoever is denied, is answered as
\* by a bucket that fills with every tick: Allow's lazy refill is no shortcut.
THEOREM LimiterImplementsBucket == RateSpec => RefillsSteadily
  <1>1. RateInit => Steady!Init
    <2> SUFFICES ASSUME RateInit
                 PROVE  Steady!Init
      OBVIOUS
    <2>1. \A u \in Callers : Refilled(u) = Cap
      BY DEF RateInit, Refilled
    <2> QED
      BY <2>1 DEF RateInit, Steady!Init
  <1>2. RateInv /\ [RateNext]_rateVars => [Steady!Next]_(Steady!bucketVars)
    <2> SUFFICES ASSUME RateInv, [RateNext]_rateVars
                 PROVE  [Steady!Next]_(Steady!bucketVars)
      OBVIOUS
    <2>1. ASSUME NEW u \in Callers, Grant(u)
          PROVE  Steady!Next
      BY <2>1, GrantTakes DEF Steady!Next
    <2>2. ASSUME NEW u \in Callers, Deny(u)
          PROVE  UNCHANGED Steady!bucketVars
      BY <2>2, DenyStutters
    <2>3. CASE TimePasses
      BY <2>3, TickDrips DEF Steady!Next
    <2>4. CASE UNCHANGED rateVars
      BY <2>4 DEF rateVars, Steady!bucketVars, Refilled
    <2> QED
      BY <2>1, <2>2, <2>3, <2>4 DEF RateNext
  <1> QED
    BY <1>1, <1>2, RateInitInv, RateStepInv, PTL
    DEF RateSpec, RefillsSteadily, Steady!BucketSpec
=============================================================================
