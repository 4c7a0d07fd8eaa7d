---------------------------- MODULE QuotaProofs -----------------------------
(***************************************************************************)
(* What holds of Quota for every calendar, every set of users, limits and  *)
(* request slots, and each backend.                                        *)
(***************************************************************************)
EXTENDS Quota, FiniteSetTheorems, TLAPS

(* The day the period after the current one begins.                         *)
NextStart(b) == IF b = "daily" THEN day + 1 ELSE MonthStart[MonthOf(day) + 1]

(* A monthly counter is reset on the 1st of some month.                     *)
ResetsAtStarts ==
    \A u \in Users : LET at == counters["monthly"][u].resetAt
                     IN  at = -1 \/ \E m \in 1 .. NumMonths : at = MonthStart[m]

(* What was added in the current period is in a counter that outlasts it.   *)
SpentIsCounted ==
    backend = "memory" =>
      \A b \in Buckets, u \in Users : spent[b][u] > 0 =>
        /\ counters[b][u].resetAt >= NextStart(b)
        /\ spent[b][u] <= counters[b][u].used

(* A row in Redis is kept for its TTL from the start of its period.         *)
StartOf(b, key) == IF b = "daily" THEN key ELSE MonthStart[key]

RowsLast ==
    backend = "redis" =>
      \A b \in Buckets, u \in Users : rows[b][u].key # -1 =>
        rows[b][u].expires >= StartOf(b, rows[b][u].key) + TTL(b)

SpentIsInRows ==
    backend # "memory" =>
      \A b \in Buckets, u \in Users : spent[b][u] <= RowGet(b, u)

(* A daily counter that outlasts the day, and a row of the day, hold no     *)
(* more than was added on that day.                                         *)
DailyIsOfToday ==
    \A u \in Users :
      LET today == spent["daily"][u] + edge["daily"][u]
      IN  /\ counters["daily"][u].resetAt <= day + 1
          /\ counters["daily"][u].resetAt = day + 1 =>
                counters["daily"][u].used <= today
          /\ backend # "memory" /\ rows["daily"][u].key = day =>
                rows["daily"][u].tokens <= today

(* A monthly counter resets when it was told to on some day up to now; one  *)
(* that holds more than this month's tokens was told so in an earlier       *)
(* month.                                                                   *)
Begun(at, m) == \E d \in Days : MonthOf(d) <= m /\ at = NextMonthlyReset(d)

MonthlyIsOfItsMonth ==
    \A u \in Users :
      LET c == counters["monthly"][u]
          month == spent["monthly"][u] + edge["monthly"][u]
      IN  /\ c.resetAt = -1 => c.used = 0
          /\ c.resetAt # -1 => Begun(c.resetAt, MonthOf(day))
          /\ c.used > month => Begun(c.resetAt, MonthOf(day) - 1)
          /\ backend # "memory" /\ rows["monthly"][u].key = MonthOf(day) =>
                rows["monthly"][u].tokens <= month

(* Every day of the clock falls in one month of the calendar, and so does   *)
(* the day one month later.                                                 *)
LEMMA MonthOfDay ==
    ASSUME NEW d \in Days
    PROVE  /\ MonthOf(d) \in Months
           /\ InMonth(d, MonthOf(d))
           /\ MonthOf(AddOneMonth(d)) \in Months
           /\ InMonth(AddOneMonth(d), MonthOf(AddOneMonth(d)))
<1>1. \A e : (\E m \in Months : InMonth(e, m))
               => MonthOf(e) \in Months /\ InMonth(e, MonthOf(e))
  BY DEF MonthOf
<1>. QED BY <1>1, CalendarAssumption

(* The next reset, daily or monthly, is no earlier than the next period,    *)
(* and that begins on a later day than today.                               *)
LEMMA NextResetLater ==
    ASSUME NEW b \in Buckets, day \in Days
    PROVE  /\ NextReset(b) \in Nat /\ NextReset(b) > day
           /\ NextStart(b) \in Nat /\ NextStart(b) > day
           /\ NextReset(b) >= NextStart(b)
           /\ b = "daily" => NextReset(b) = day + 1
           /\ b = "monthly" =>
                 \E m \in 1 .. NumMonths : NextReset(b) = MonthStart[m]
<1>. day \in Nat
  BY CalendarAssumption
<1>1. CASE b = "daily"
  BY <1>1 DEF NextReset, NextDailyReset, NextStart
<1>2. CASE b # "daily"
  <2>. DEFINE m == MonthOf(day)
              e == AddOneMonth(day)
              n == MonthOf(e)
  <2>1. /\ m \in Months /\ InMonth(day, m)
        /\ n \in Months /\ InMonth(e, n)
    BY MonthOfDay
  <2>2. /\ NumMonths \in Nat
        /\ \A i \in 1 .. NumMonths : MonthStart[i] \in Nat
        /\ \A i, j \in 1 .. NumMonths : i < j => MonthStart[i] < MonthStart[j]
    BY CalendarAssumption
  <2>3. m + 1 \in 1 .. NumMonths /\ n + 1 \in 1 .. NumMonths /\ n \in 1 .. NumMonths
    BY <2>1, <2>2 DEF Months
  <2>4. e = MonthStart[m + 1] + (day - MonthStart[m])
    BY DEF AddOneMonth, DayOfMonth
  <2>5. e >= MonthStart[m + 1]
    BY <2>1, <2>2, <2>3, <2>4 DEF InMonth, Months
  <2>6. MonthStart[n + 1] > MonthStart[m + 1]
    <3>1. e < MonthStart[n + 1]
      BY <2>1 DEF InMonth
    <3>2. m \in 1 .. NumMonths
      BY <2>1, <2>2 DEF Months
    <3>3. e \in Int /\ MonthStart[m + 1] \in Nat /\ MonthStart[n + 1] \in Nat
      BY <3>2, <2>2, <2>3, <2>4
    <3>. HIDE DEF e, m, n
    <3>. QED BY <3>1, <3>3, <2>5
  <2>7. n >= m + 1
    <3>1. CASE n + 1 = m + 1
      BY <3>1, <2>2, <2>3, <2>6
    <3>2. CASE n + 1 < m + 1
      BY <3>2, <2>2, <2>3, <2>6
    <3>. QED BY <3>1, <3>2, <2>2, <2>3
  <2>8. MonthStart[n] >= MonthStart[m + 1]
    BY <2>2, <2>3, <2>7
  <2>9. MonthStart[m + 1] > day
    BY <2>1 DEF InMonth
  <2>10. NextReset(b) = MonthStart[n]
    BY <1>2 DEF NextReset, NextMonthlyReset
  <2>11. NextStart(b) = MonthStart[m + 1]
    BY <1>2 DEF NextStart
  <2>. QED BY <1>2, <2>2, <2>3, <2>8, <2>9, <2>10, <2>11
<1>. QED BY <1>1, <1>2

LEMMA NextResetPrimeLater ==
    ASSUME NEW b \in Buckets, TypeOK'
    PROVE  NextStart(b)' > day' /\ NextStart(b)' \in Nat /\ day' \in Nat
<1>1. day' \in Days
  BY DEF TypeOK
<1>2. ASSUME NEW d \in Days
      PROVE  /\ d \in Nat /\ d + 1 \in Nat /\ d + 1 > d
             /\ MonthStart[MonthOf(d) + 1] \in Nat /\ MonthStart[MonthOf(d) + 1] > d
  <2>1. MonthOf(d) \in Months /\ d < MonthStart[MonthOf(d) + 1]
    BY MonthOfDay DEF InMonth
  <2>2. \A i \in Months : i + 1 \in 1 .. NumMonths
    BY CalendarAssumption DEF Months
  <2>3. \A i \in 1 .. NumMonths : MonthStart[i] \in Nat
    BY CalendarAssumption
  <2>4. d \in Nat
    BY CalendarAssumption
  <2>. QED BY <2>1, <2>2, <2>3, <2>4
<1>. QED BY <1>1, <1>2 DEF NextStart

LEMMA MonthOfIsNat ==
    ASSUME NEW d \in Days
    PROVE  d \in Nat /\ MonthOf(d) \in Nat
  BY MonthOfDay, CalendarAssumption DEF Months

LEMMA KeyIsNat ==
    ASSUME NEW b \in Buckets, day \in Days
    PROVE  Key(b) \in Nat
  BY MonthOfIsNat DEF Key

(* A counter read by the manager is a natural number.                       *)
LEMMA ReadingIsNat ==
    ASSUME TypeOK, NEW b \in Buckets, NEW u \in Users
    PROVE  Reading(b, u) \in Nat /\ MemoryGet(b, u) \in Nat /\ RowGet(b, u) \in Nat
  BY DEF TypeOK, Reading, MemoryGet, RowGet, Counter, Row

----
(* Type correctness, one lemma for Init and one for a step.                  *)

LEMMA ReadingPrimeIsNat ==
    ASSUME TypeOK', NEW b \in Buckets, NEW u \in Users
    PROVE  Reading(b, u)' \in Nat
  BY DEF TypeOK, Reading, MemoryGet, RowGet, Counter, Row

LEMMA InitTypeOK == Init => TypeOK
  BY DEF Init, TypeOK, Counter, NoCounter, Row, NoRow, Zero

LEMMA AddedType ==
    ASSUME TypeOK, NEW r \in Requests, reqs[r] \in Active, Added(r)
    PROVE  reqs' \in [Requests -> {Idle} \cup Active]
  BY DEF TypeOK, Added, Active, Idle, FirstAdd, Buckets

LEMMA CountSpendType ==
    ASSUME TypeOK, NEW b \in Buckets, NEW u \in Users, NEW n \in Nat,
           CountSpend(b, u, n)
    PROVE  /\ spent' \in [Buckets -> [Users -> Nat]]
           /\ edge' \in [Buckets -> [Users -> Nat]]
<1>. /\ spent \in [Buckets -> [Users -> Nat]]
     /\ edge \in [Buckets -> [Users -> Nat]]
  BY DEF TypeOK
<1>1. CASE PeriodStart(b)
  <2>1. edge' = [edge EXCEPT ![b][u] = @ + n] /\ spent' = spent
    BY <1>1, Zenon DEF CountSpend
  <2>. QED BY <2>1
<1>2. CASE ~PeriodStart(b)
  <2>1. spent' = [spent EXCEPT ![b][u] = @ + n] /\ edge' = edge
    BY <1>2, Zenon DEF CountSpend
  <2>. QED BY <2>1
<1>. QED BY <1>1, <1>2

(* A request that is anywhere in the protocol has a user and a bucket.       *)
LEMMA BusyIsActive ==
    ASSUME TypeOK, NEW r \in Requests, reqs[r].pc # "idle"
    PROVE  /\ reqs[r] \in Active
           /\ reqs[r].bucket \in Buckets
           /\ reqs[r].user \in Users
           /\ reqs[r].tokens \in Nat
  BY QuotaAssumption DEF TypeOK, Active, Idle

LEMMA StepTypeOK == TypeOK /\ [Next]_vars => TypeOK'
<1>. SUFFICES ASSUME TypeOK, [Next]_vars
              PROVE  TypeOK'
  OBVIOUS
<1>. USE DEF clock, history
<1>1. ASSUME NEW r \in Requests, NEW u \in Users, Arrive(r, u)
      PROVE  TypeOK'
  <2>1. [pc |-> "check", bucket |-> "daily", user |-> u, tokens |-> 0] \in Active
    BY QuotaAssumption DEF Active, Buckets
  <2>. QED BY <1>1, <2>1 DEF Arrive, TypeOK
<1>2. ASSUME NEW r \in Requests, CheckPasses(r)
      PROVE  TypeOK'
  <2>1. reqs[r] \in Active
    BY <1>2, BusyIsActive DEF CheckPasses
  <2>2. reqs' \in [Requests -> {Idle} \cup Active]
    BY <1>2, <2>1 DEF CheckPasses, TypeOK, Active, Buckets
  <2>. QED BY <1>2, <2>2 DEF CheckPasses, TypeOK
<1>3. ASSUME NEW r \in Requests, CheckRejects(r) \/ CheckFails(r) \/ Abort(r)
      PROVE  TypeOK'
  BY <1>3 DEF CheckRejects, CheckFails, Abort, TypeOK
<1>4. ASSUME NEW r \in Requests, NEW n \in 0 .. MaxTokens, Respond(r, n)
      PROVE  TypeOK'
  <2>1. reqs[r] \in Active
    BY <1>4, BusyIsActive DEF Respond
  <2>2. reqs' \in [Requests -> {Idle} \cup Active]
    BY <1>4, <2>1 DEF Respond, TypeOK, Active, FirstAdd
  <2>. QED BY <1>4, <2>2 DEF Respond, TypeOK
<1>5. ASSUME NEW r \in Requests, FindCounter(r)
      PROVE  TypeOK'
  <2>1. reqs[r] \in Active /\ reqs[r].bucket \in Buckets /\ reqs[r].user \in Users
    BY <1>5, BusyIsActive DEF FindCounter
  <2>2. reqs' \in [Requests -> {Idle} \cup Active]
    BY <1>5, <2>1 DEF FindCounter, TypeOK, Active
  <2>3. NextReset(reqs[r].bucket) \in Nat
    BY <2>1, NextResetLater DEF TypeOK
  <2>4. counters' \in [Buckets -> [Users -> Counter]]
    BY <1>5, <2>1, <2>3 DEF FindCounter, TypeOK, Counter
  <2>. QED BY <1>5, <2>2, <2>4 DEF FindCounter, TypeOK
<1>6. ASSUME NEW r \in Requests, AddToCounter(r)
      PROVE  TypeOK'
  <2>1. /\ reqs[r] \in Active /\ reqs[r].bucket \in Buckets
        /\ reqs[r].user \in Users /\ reqs[r].tokens \in Nat
    BY <1>6, BusyIsActive DEF AddToCounter
  <2>2. reqs' \in [Requests -> {Idle} \cup Active]
    BY <1>6, <2>1, AddedType DEF AddToCounter
  <2>3. NextReset(reqs[r].bucket) \in Nat
    BY <2>1, NextResetLater DEF TypeOK
  <2>4. counters' \in [Buckets -> [Users -> Counter]]
    BY <1>6, <2>1, <2>3 DEF AddToCounter, TypeOK, Counter
  <2>5. /\ spent' \in [Buckets -> [Users -> Nat]]
        /\ edge' \in [Buckets -> [Users -> Nat]]
    BY <1>6, <2>1, CountSpendType DEF AddToCounter
  <2>. QED BY <1>6, <2>2, <2>4, <2>5 DEF AddToCounter, TypeOK
<1>7. ASSUME NEW r \in Requests, AddToRow(r)
      PROVE  TypeOK'
  <2>1. /\ reqs[r] \in Active /\ reqs[r].bucket \in Buckets
        /\ reqs[r].user \in Users /\ reqs[r].tokens \in Nat
    BY <1>7, BusyIsActive DEF AddToRow
  <2>2. reqs' \in [Requests -> {Idle} \cup Active]
    BY <1>7, <2>1, AddedType DEF AddToRow
  <2>3. Key(reqs[r].bucket) \in Nat /\ RowGet(reqs[r].bucket, reqs[r].user) \in Nat
    BY <2>1, KeyIsNat, ReadingIsNat DEF TypeOK
  <2>4. rows' \in [Buckets -> [Users -> Row]]
    BY <1>7, <2>1, <2>3, CalendarAssumption DEF AddToRow, TypeOK, Row, TTL
  <2>5. /\ spent' \in [Buckets -> [Users -> Nat]]
        /\ edge' \in [Buckets -> [Users -> Nat]]
    BY <1>7, <2>1, CountSpendType DEF AddToRow
  <2>. QED BY <1>7, <2>2, <2>4, <2>5 DEF AddToRow, TypeOK
<1>8. ASSUME NEW r \in Requests, AddFails(r)
      PROVE  TypeOK'
  <2>1. reqs[r] \in Active
    BY <1>8, BusyIsActive DEF AddFails
  <2>2. reqs' \in [Requests -> {Idle} \cup Active]
    BY <1>8, <2>1, AddedType DEF AddFails
  <2>. QED BY <1>8, <2>2 DEF AddFails, TypeOK
<1>9. ASSUME Tick
      PROVE  TypeOK'
  BY <1>9 DEF Tick, TypeOK, Zero
<1>10. ASSUME NEW b \in Buckets, NEW u \in Users, Expire(b, u)
       PROVE  TypeOK'
  BY <1>10 DEF Expire, TypeOK, NoRow, Row
<1>11. ASSUME Restart
       PROVE  TypeOK'
  BY <1>11 DEF Restart, TypeOK, NoCounter, Counter, Zero
<1>12. ASSUME UNCHANGED vars
       PROVE  TypeOK'
  BY <1>12 DEF vars, TypeOK
<1>. QED BY <1>1, <1>2, <1>3, <1>4, <1>5, <1>6, <1>7, <1>8, <1>9, <1>10,
            <1>11, <1>12 DEF Next, RequestStep

(* Every counter, row and request of the quota protocol keeps its type.      *)
THEOREM TypeCorrect == Spec => []TypeOK
<1>. QED BY InitTypeOK, StepTypeOK, PTL DEF Spec

----
(* The overshoot bound.  It needs one strengthening: the clock must not walk *)
(* into a row that is keyed by a later period, or a tick could raise what a  *)
(* request reads.                                                            *)

LEMMA MonthOfMonotone ==
    ASSUME NEW d \in Days, NEW e \in Days, d <= e
    PROVE  MonthOf(d) <= MonthOf(e)
<1>. DEFINE m == MonthOf(d)
            n == MonthOf(e)
<1>1. /\ m \in Months /\ MonthStart[m] <= d
      /\ n \in Months /\ e < MonthStart[n + 1]
  BY MonthOfDay DEF InMonth
<1>2. /\ NumMonths \in Nat /\ d \in Nat /\ e \in Nat
      /\ \A i \in 1 .. NumMonths : MonthStart[i] \in Nat
      /\ \A i, j \in 1 .. NumMonths : i < j => MonthStart[i] < MonthStart[j]
  BY CalendarAssumption
<1>. HIDE DEF m, n
<1>3. m \in 1 .. NumMonths /\ n + 1 \in 1 .. NumMonths /\ m \in Nat /\ n \in Nat
  BY <1>1, <1>2 DEF Months
<1>4. MonthStart[m] < MonthStart[n + 1]
  BY <1>1, <1>2, <1>3
<1>5. ~(n + 1 < m) /\ n + 1 # m
  BY <1>2, <1>3, <1>4
<1>6. m <= n
  BY <1>3, <1>5
<1>. QED BY <1>6 DEF m, n

(* A tick moves every bucket's key forward or leaves it.                     *)
LEMMA TickKeys ==
    ASSUME TypeOK, TypeOK', Tick, NEW b \in Buckets
    PROVE  /\ Key(b) \in Nat /\ Key(b)' \in Nat
           /\ Key(b) <= Key(b)'
<1>1. day \in Days /\ day' \in Days /\ day <= day' /\ day \in Nat /\ day' \in Nat
  BY CalendarAssumption DEF TypeOK, Tick
<1>2. MonthOf(day) \in Nat /\ MonthOf(day') \in Nat /\ MonthOf(day) <= MonthOf(day')
  BY <1>1, MonthOfIsNat, MonthOfMonotone
<1>. QED BY <1>1, <1>2 DEF Key

LEMMA RowsInit == Init => RowsNotFromFuture
<1>. SUFFICES ASSUME Init, NEW b \in Buckets, NEW u \in Users
              PROVE  rows[b][u].key <= Key(b)
  BY DEF RowsNotFromFuture
<1>1. Key(b) \in Nat
  BY KeyIsNat DEF Init
<1>. QED BY <1>1 DEF Init, NoRow

LEMMA RowsStep ==
    ASSUME TypeOK, TypeOK', RowsNotFromFuture, [Next]_vars
    PROVE  RowsNotFromFuture'
<1>. SUFFICES ASSUME NEW b \in Buckets, NEW u \in Users
              PROVE  (rows[b][u].key <= Key(b))'
  BY DEF RowsNotFromFuture
<1>. /\ Key(b) \in Nat /\ Key(b)' \in Nat
     /\ rows[b][u] \in Row /\ rows[b][u].key <= Key(b)
  BY MonthOfIsNat DEF TypeOK, RowsNotFromFuture, Key
<1>1. CASE UNCHANGED <<rows, day>>
  BY <1>1 DEF Key
<1>2. ASSUME NEW r \in Requests, AddToRow(r)
      PROVE  rows'[b][u].key <= Key(b)'
  <2>1. Key(b)' = Key(b)
    BY <1>2 DEF AddToRow, clock, Key
  <2>2. rows'[b][u] = rows[b][u] \/ rows'[b][u].key = Key(b)
    BY <1>2 DEF AddToRow, TypeOK
  <2>. QED BY <2>1, <2>2
<1>3. ASSUME Tick
      PROVE  rows'[b][u].key <= Key(b)'
  <2>1. rows' = rows /\ Key(b) <= Key(b)'
    BY <1>3, TickKeys DEF Tick
  <2>. QED BY <2>1 DEF Row
<1>4. ASSUME NEW c \in Buckets, NEW v \in Users, Expire(c, v)
      PROVE  rows'[b][u].key <= Key(b)'
  <2>1. Key(b)' = Key(b)
    BY <1>4 DEF Expire, clock, Key
  <2>2. rows'[b][u] = rows[b][u] \/ rows'[b][u].key = -1
    BY <1>4 DEF Expire, TypeOK, NoRow
  <2>. QED BY <2>1, <2>2
<1>. QED BY <1>1, <1>2, <1>3, <1>4
         DEF Next, RequestStep, vars, clock, Arrive, CheckPasses, CheckRejects,
             CheckFails, Respond, Abort, FindCounter, AddToCounter, AddFails, Restart

----
(* Counting what is in flight.                                               *)

LEMMA InFlightFinite ==
    ASSUME NEW b \in Buckets, NEW u \in Users
    PROVE  /\ IsFiniteSet(InFlight(b, u)) /\ IsFiniteSet(InFlight(b, u)')
           /\ InFlight(b, u) \subseteq Requests /\ InFlight(b, u)' \subseteq Requests
<1>1. InFlight(b, u) \subseteq Requests /\ InFlight(b, u)' \subseteq Requests
  BY DEF InFlight
<1>. QED BY <1>1, QuotaAssumption, FS_Subset

(* The worst case of a smaller set of requests is smaller.                   *)
LEMMA Weight ==
    ASSUME NEW S, IsFiniteSet(S), NEW T \in SUBSET S
    PROVE  /\ Cardinality(S) \in Nat /\ Cardinality(T) \in Nat
           /\ Cardinality(S) * MaxTokens \in Nat
           /\ Cardinality(T) * MaxTokens \in Nat
           /\ Cardinality(T) * MaxTokens <= Cardinality(S) * MaxTokens
<1>1. /\ Cardinality(S) \in Nat /\ Cardinality(T) \in Nat
      /\ Cardinality(T) <= Cardinality(S)
  BY FS_Subset, FS_CardinalityType
<1>2. MaxTokens \in Nat
  BY QuotaAssumption
<1>3. \A i, j, k \in Nat : i <= j => i * k \in Nat /\ j * k \in Nat /\ i * k <= j * k
  OBVIOUS
<1>. QED BY <1>1, <1>2, <1>3

(* ... and one request less is one response less.                            *)
LEMMA WeightOfOne ==
    ASSUME NEW S, IsFiniteSet(S), NEW r \in S
    PROVE  Cardinality(S \ {r}) * MaxTokens + MaxTokens = Cardinality(S) * MaxTokens
<1>1. /\ Cardinality(S) \in Nat /\ Cardinality(S \ {r}) \in Nat
      /\ Cardinality(S) = Cardinality(S \ {r}) + 1
  BY SMTT(30), FS_RemoveElement, FS_CardinalityType
<1>2. MaxTokens \in Nat
  BY QuotaAssumption
<1>3. \A i, k \in Nat : (i + 1) * k = i * k + k
  OBVIOUS
<1>. QED BY <1>1, <1>2, <1>3

(* A step under which nothing is admitted and no counter rises keeps the     *)
(* bound.                                                                    *)
LEMMA NothingGrows ==
    ASSUME TypeOK, TypeOK', NEW b \in Buckets, NEW u \in Users, OvershootBound(b, u),
           Reading(b, u)' <= Reading(b, u), InFlight(b, u)' \subseteq InFlight(b, u)
    PROVE  OvershootBound(b, u)'
<1>. DEFINE W(S) == Cardinality(S) * MaxTokens
<1>1. Reading(b, u) \in Nat
  BY ReadingIsNat
<1>2. Reading(b, u)' \in Nat
  BY ReadingPrimeIsNat
<1>3. Limit[b][u] \in Nat
  BY QuotaAssumption
<1>4. /\ W(InFlight(b, u)) \in Nat /\ W(InFlight(b, u)') \in Nat /\ W(Requests) \in Nat
      /\ W(InFlight(b, u)') <= W(InFlight(b, u))
  BY InFlightFinite, Weight, QuotaAssumption
<1>. QED BY <1>1, <1>2, <1>3, <1>4 DEF OvershootBound

(* A clock that moves on resets counters and raises none.                    *)
LEMMA TickReading ==
    ASSUME TypeOK, TypeOK', RowsNotFromFuture, Tick, NEW b \in Buckets, NEW u \in Users
    PROVE  Reading(b, u)' \in {0, Reading(b, u)}
<1>. /\ day \in Nat /\ day' \in Nat /\ midnight \in BOOLEAN
     /\ \/ midnight /\ day' = day /\ midnight' = FALSE
        \/ day' > day
     /\ counters' = counters /\ rows' = rows /\ backend' = backend
  BY CalendarAssumption DEF Tick, TypeOK
<1>1. CASE backend = "memory"
  <2>1. counters[b][u].resetAt \in Int
    BY DEF TypeOK, Counter
  <2>2. After(counters[b][u].resetAt) => After(counters[b][u].resetAt)'
    BY <2>1 DEF After
  <2>. QED BY <1>1, <2>2 DEF Reading, MemoryGet
<1>2. CASE backend # "memory"
  <2>1. /\ rows[b][u].key \in Int /\ rows[b][u].key <= Key(b)
        /\ Key(b) \in Nat /\ Key(b)' \in Nat /\ Key(b) <= Key(b)'
    BY TickKeys DEF TypeOK, RowsNotFromFuture, Row
  <2>2. rows[b][u].key = Key(b)' => rows[b][u].key = Key(b)
    BY <2>1
  <2>. QED BY <1>2, <2>2 DEF Reading, RowGet
<1>. QED BY <1>1, <1>2

(* An add raises the one counter it is for, by at most the tokens added.     *)
LEMMA AddReading ==
    ASSUME TypeOK, NEW r \in Requests, AddToCounter(r) \/ AddToRow(r),
           NEW b \in Buckets, NEW u \in Users
    PROVE  \/ Reading(b, u)' = Reading(b, u)
           \/ /\ b = reqs[r].bucket /\ u = reqs[r].user
              /\ Reading(b, u)' <= Reading(b, u) + reqs[r].tokens
<1>. /\ reqs[r].pc = "add" /\ day' = day /\ midnight' = midnight /\ backend' = backend
     /\ Key(b)' = Key(b)
     /\ reqs[r].bucket \in Buckets /\ reqs[r].user \in Users /\ reqs[r].tokens \in Nat
     /\ Reading(b, u) \in Nat /\ MemoryGet(b, u) \in Nat /\ RowGet(b, u) \in Nat
  BY BusyIsActive, ReadingIsNat DEF AddToCounter, AddToRow, clock, Key
<1>1. CASE AddToCounter(r)
  <2>1. backend = "memory"
    BY <1>1 DEF AddToCounter
  <2>2. \/ counters'[b][u] = counters[b][u]
        \/ /\ b = reqs[r].bucket /\ u = reqs[r].user
           /\ counters'[b][u].used = MemoryGet(b, u) + reqs[r].tokens
    BY <1>1 DEF AddToCounter, TypeOK, MemoryGet, After, Counter
  <2>. QED BY <2>1, <2>2 DEF Reading, MemoryGet, After
<1>2. CASE AddToRow(r)
  <2>1. backend # "memory"
    BY <1>2 DEF AddToRow
  <2>2. \/ rows'[b][u] = rows[b][u]
        \/ /\ b = reqs[r].bucket /\ u = reqs[r].user
           /\ rows'[b][u].tokens = RowGet(b, u) + reqs[r].tokens
           /\ rows'[b][u].key = Key(b)
    BY <1>2 DEF AddToRow, TypeOK
  <2>. QED BY <2>1, <2>2 DEF Reading, RowGet
<1>. QED BY <1>1, <1>2

(* The request whose add is done was in flight against that bucket, and is   *)
(* not any more.                                                             *)
LEMMA AddedInFlight ==
    ASSUME TypeOK, NEW r \in Requests, reqs[r].pc = "add", Added(r),
           NEW b \in Buckets, NEW u \in Users
    PROVE  /\ InFlight(b, u)' \subseteq InFlight(b, u)
           /\ b = reqs[r].bucket /\ u = reqs[r].user =>
                r \in InFlight(b, u) /\ InFlight(b, u)' \subseteq InFlight(b, u) \ {r}
<1>. /\ reqs[r] \in Active
     /\ reqs' = [reqs EXCEPT ![r] = IF reqs[r].bucket = "daily"
                   THEN [reqs[r] EXCEPT !.pc = FirstAdd, !.bucket = "monthly"] ELSE Idle]
  BY BusyIsActive DEF Added
<1>1. FirstAdd \in {"find", "add"}
  BY DEF FirstAdd
<1>2. \A q \in Requests : q # r => reqs'[q] = reqs[q]
  BY DEF TypeOK
<1>3. reqs'[r] = IF reqs[r].bucket = "daily"
                   THEN [reqs[r] EXCEPT !.pc = FirstAdd, !.bucket = "monthly"] ELSE Idle
  BY DEF TypeOK
<1>4. Pending(r, b, u)' => Pending(r, b, u)
  BY <1>1, <1>3 DEF Pending, Active, Idle, Buckets
<1>5. ASSUME b = reqs[r].bucket, u = reqs[r].user
      PROVE  Pending(r, b, u) /\ ~Pending(r, b, u)'
  <2>1. Pending(r, b, u)
    BY <1>5 DEF Pending, Buckets
  <2>2. CASE b = "daily"
    <3>1. reqs'[r] = [reqs[r] EXCEPT !.pc = FirstAdd, !.bucket = "monthly"]
      BY <1>5, <1>3, <2>2
    <3>2. reqs'[r].bucket = "monthly" /\ reqs'[r].pc = FirstAdd
      BY <3>1 DEF Active
    <3>. QED BY <1>1, <2>1, <2>2, <3>2 DEF Pending
  <2>3. CASE b = "monthly"
    <3>1. reqs'[r].pc = "idle"
      BY <1>5, <1>3, <2>3 DEF Idle
    <3>. QED BY <2>1, <3>1 DEF Pending
  <2>. QED BY <2>2, <2>3 DEF Buckets
<1>6. \A q \in Requests : q # r => (Pending(q, b, u)' <=> Pending(q, b, u))
  BY <1>2 DEF Pending
<1>. QED BY <1>4, <1>5, <1>6 DEF InFlight

LEMMA OvershootInit == Init => OvershootBounded
<1>. SUFFICES ASSUME Init, NEW b \in Buckets, NEW u \in Users, Limit[b][u] > 0
              PROVE  OvershootBound(b, u)
  BY DEF OvershootBounded
<1>1. Reading(b, u) = 0
  BY DEF Init, Reading, MemoryGet, RowGet, NoCounter, NoRow
<1>2. InFlight(b, u) = {}
  BY DEF Init, InFlight, Pending, Idle
<1>3. Cardinality(InFlight(b, u)) * MaxTokens = 0
  BY <1>2, FS_EmptySet, QuotaAssumption
<1>4. Cardinality(Requests) * MaxTokens \in Nat
  BY Weight, QuotaAssumption
<1>5. Limit[b][u] \in Nat
  BY QuotaAssumption
<1>. QED BY <1>1, <1>3, <1>4, <1>5 DEF OvershootBound

(* Admitting one more request: its own check read a counter below the limit, *)
(* and no more than all the slots can be in flight.                          *)
LEMMA OvershootCheckPasses ==
    ASSUME TypeOK, TypeOK', NEW r \in Requests, CheckPasses(r),
           NEW b \in Buckets, NEW u \in Users, Limit[b][u] > 0, OvershootBound(b, u)
    PROVE  OvershootBound(b, u)'
<1>. /\ reqs[r] \in Active /\ Limit[b][u] \in Nat /\ Reading(b, u) \in Nat
     /\ Reading(b, u)' = Reading(b, u)
  BY BusyIsActive, ReadingIsNat, QuotaAssumption
     DEF CheckPasses, clock, Reading, MemoryGet, RowGet, After, Key
<1>1. \A q \in Requests : q # r => reqs'[q] = reqs[q]
  BY DEF CheckPasses, TypeOK
<1>2. \A q \in Requests : q # r => (Pending(q, b, u)' <=> Pending(q, b, u))
  BY <1>1 DEF Pending
<1>3. CASE b = reqs[r].bucket /\ u = reqs[r].user
  <2>1. Reading(b, u) < Limit[b][u]
    BY <1>3 DEF CheckPasses, Admits
  <2>2. /\ Cardinality(Requests) * MaxTokens \in Nat
        /\ Cardinality(InFlight(b, u)') * MaxTokens \in Nat
        /\ Cardinality(InFlight(b, u)') * MaxTokens <= Cardinality(Requests) * MaxTokens
    BY InFlightFinite, Weight, QuotaAssumption
  <2>. QED BY <2>1, <2>2 DEF OvershootBound
<1>4. CASE ~(b = reqs[r].bucket /\ u = reqs[r].user)
  <2>1. reqs'[r] = IF reqs[r].bucket = "daily"
                     THEN [reqs[r] EXCEPT !.bucket = "monthly"]
                     ELSE [reqs[r] EXCEPT !.pc = "forward", !.bucket = "daily"]
    BY DEF CheckPasses, TypeOK
  <2>2. Pending(r, b, u)' => Pending(r, b, u)
    BY <1>4, <2>1 DEF CheckPasses, Pending, Active, Buckets
  <2>3. InFlight(b, u)' \subseteq InFlight(b, u)
    BY <1>2, <2>2 DEF InFlight
  <2>. QED BY <2>3, NothingGrows
<1>. QED BY <1>3, <1>4

(* An add turns the worst case of its request into what it really used.      *)
LEMMA OvershootAdd ==
    ASSUME TypeOK, TypeOK', NEW r \in Requests, AddToCounter(r) \/ AddToRow(r),
           NEW b \in Buckets, NEW u \in Users, OvershootBound(b, u)
    PROVE  OvershootBound(b, u)'
<1>. reqs[r].pc = "add" /\ Added(r) /\ reqs[r] \in Active /\ reqs[r].tokens \in 0 .. MaxTokens
  BY BusyIsActive DEF AddToCounter, AddToRow, Active
<1>1. CASE Reading(b, u)' = Reading(b, u)
  BY <1>1, AddedInFlight, NothingGrows, ReadingIsNat
<1>2. CASE /\ b = reqs[r].bucket /\ u = reqs[r].user
           /\ Reading(b, u)' <= Reading(b, u) + reqs[r].tokens
  <2>. DEFINE W(S) == Cardinality(S) * MaxTokens
              F == InFlight(b, u)
  <2>1. r \in F /\ F' \subseteq F \ {r} /\ IsFiniteSet(F) /\ IsFiniteSet(F \ {r})
    BY <1>2, AddedInFlight, InFlightFinite, FS_Subset
  <2>2. /\ W(F \ {r}) + MaxTokens = W(F)
        /\ W(F') <= W(F \ {r}) /\ W(F') \in Nat /\ W(F \ {r}) \in Nat
    BY <2>1, Weight, WeightOfOne
  <2>3. /\ Reading(b, u) \in Nat /\ Reading(b, u)' \in Nat /\ MaxTokens \in Nat
        /\ Limit[b][u] \in Nat /\ W(Requests) \in Nat
    BY ReadingIsNat, ReadingPrimeIsNat, QuotaAssumption, Weight
  <2>4. Reading(b, u) + W(F) < Limit[b][u] + W(Requests)
    BY DEF OvershootBound
  <2>5. Reading(b, u)' + W(F') < Limit[b][u] + W(Requests)
    <3>. HIDE DEF W, F
    <3>. QED BY <1>2, <2>2, <2>3, <2>4
  <2>. QED BY <2>5 DEF OvershootBound
<1>. QED BY <1>1, <1>2, AddReading

LEMMA OvershootStep ==
    ASSUME TypeOK, TypeOK', RowsNotFromFuture, OvershootBounded, [Next]_vars
    PROVE  OvershootBounded'
<1>. SUFFICES ASSUME NEW b \in Buckets, NEW u \in Users, Limit[b][u] > 0
              PROVE  OvershootBound(b, u)'
  BY DEF OvershootBounded
<1>. OvershootBound(b, u) /\ Reading(b, u) \in Nat
  BY ReadingIsNat DEF OvershootBounded
<1>1. ASSUME NEW r \in Requests,
             \/ \E v \in Users : Arrive(r, v)
             \/ CheckRejects(r) \/ CheckFails(r) \/ Abort(r) \/ AddFails(r)
             \/ \E n \in 0 .. MaxTokens : Respond(r, n)
      PROVE  OvershootBound(b, u)'
  <2>1. UNCHANGED <<clock, backend, counters, rows>>
    BY <1>1 DEF Arrive, CheckRejects, CheckFails, Abort, AddFails, Respond
  <2>2. Reading(b, u)' = Reading(b, u)
    BY <2>1 DEF clock, Reading, MemoryGet, RowGet, After, Key
  <2>3. InFlight(b, u)' \subseteq InFlight(b, u)
    <3>1. CASE AddFails(r)
      BY <3>1, AddedInFlight DEF AddFails
    <3>2. CASE ~AddFails(r)
      <4>1. \A q \in Requests : q # r => reqs'[q] = reqs[q]
        BY <1>1, <3>2 DEF Arrive, CheckRejects, CheckFails, Abort, Respond, TypeOK
      <4>2. Pending(r, b, u)' => Pending(r, b, u)
        <5>1. CASE reqs'[r].pc = "idle"
          BY <5>1 DEF Pending
        <5>2. CASE \E v \in Users : Arrive(r, v)
          <6>1. reqs'[r].pc = "check" /\ reqs'[r].bucket = "daily"
            BY <5>2 DEF Arrive, TypeOK
          <6>. QED BY <6>1 DEF Pending
        <5>3. CASE \E n \in 0 .. MaxTokens : Respond(r, n) /\ n # 0
          <6>1. PICK n \in 0 .. MaxTokens : Respond(r, n) /\ n # 0
            BY <5>3
          <6>2. reqs[r].pc = "forward" /\ reqs[r] \in Active
            BY <6>1, BusyIsActive DEF Respond
          <6>3. reqs'[r].user = reqs[r].user
            BY <6>1, <6>2 DEF Respond, TypeOK, Active
          <6>. QED BY <6>2, <6>3 DEF Pending
        <5>4. CASE CheckRejects(r) \/ CheckFails(r) \/ Abort(r) \/ Respond(r, 0)
          BY <5>1, <5>4 DEF CheckRejects, CheckFails, Abort, Respond, TypeOK, Idle
        <5>. QED BY <1>1, <3>2, <5>2, <5>3, <5>4
      <4>3. \A q \in Requests : q # r => (Pending(q, b, u)' <=> Pending(q, b, u))
        BY <4>1 DEF Pending
      <4>. QED BY <4>2, <4>3 DEF InFlight
    <3>. QED BY <3>1, <3>2
  <2>. QED BY <2>2, <2>3, NothingGrows
<1>2. ASSUME NEW r \in Requests, CheckPasses(r)
      PROVE  OvershootBound(b, u)'
  BY <1>2, OvershootCheckPasses
<1>3. ASSUME NEW r \in Requests, FindCounter(r)
      PROVE  OvershootBound(b, u)'
  <2>1. Reading(b, u)' <= Reading(b, u)
    BY <1>3, BusyIsActive DEF FindCounter, clock, TypeOK, Reading, MemoryGet, RowGet,
                After, Key, NoCounter, Counter
  <2>2. \A q \in Requests : Pending(q, b, u)' => Pending(q, b, u)
    BY <1>3 DEF FindCounter, TypeOK, Pending, Active, Idle
  <2>. QED BY <2>1, <2>2, NothingGrows DEF InFlight
<1>4. ASSUME NEW r \in Requests, AddToCounter(r) \/ AddToRow(r)
      PROVE  OvershootBound(b, u)'
  BY <1>4, OvershootAdd
<1>5. ASSUME Tick
      PROVE  OvershootBound(b, u)'
  <2>1. InFlight(b, u)' = InFlight(b, u)
    BY <1>5 DEF Tick, InFlight, Pending
  <2>. QED BY <1>5, <2>1, TickReading, NothingGrows
<1>6. ASSUME NEW c \in Buckets, NEW v \in Users, Expire(c, v)
      PROVE  OvershootBound(b, u)'
  <2>1. InFlight(b, u)' = InFlight(b, u)
    BY <1>6 DEF Expire, InFlight, Pending
  <2>2. Reading(b, u)' <= Reading(b, u)
    BY <1>6 DEF Expire, clock, TypeOK, Reading, MemoryGet, RowGet, After, Key, NoRow, Row
  <2>. QED BY <2>1, <2>2, NothingGrows
<1>7. ASSUME Restart
      PROVE  OvershootBound(b, u)'
  <2>1. InFlight(b, u)' = {}
    BY <1>7 DEF Restart, InFlight, Pending, Idle
  <2>2. Reading(b, u)' <= Reading(b, u)
    BY <1>7 DEF Restart, clock, TypeOK, Reading, MemoryGet, RowGet, After, Key, NoCounter
  <2>. QED BY <2>1, <2>2, NothingGrows
<1>8. ASSUME UNCHANGED vars
      PROVE  OvershootBound(b, u)'
  BY <1>8 DEF vars, OvershootBound, InFlight, Pending, Reading, MemoryGet, RowGet, After, Key
<1>. QED BY <1>1, <1>2, <1>3, <1>4, <1>5, <1>6, <1>7, <1>8 DEF Next, RequestStep

(* However requests of a user interleave, a quota is overshot by less than   *)
(* one response per request slot.                                            *)
THEOREM OvershootIsBounded == Spec => []OvershootBounded
<1>. DEFINE Inv == TypeOK /\ RowsNotFromFuture /\ OvershootBounded
<1>1. Init => Inv
  BY InitTypeOK, RowsInit, OvershootInit
<1>2. Inv /\ [Next]_vars => Inv'
  BY StepTypeOK, RowsStep, OvershootStep
<1>. QED BY <1>1, <1>2, PTL DEF Spec

----
(* No tokens that were added in the current period are missed.               *)

(* A tick within a period moves no bucket's next start, and keeps its        *)
(* history.                                                                  *)
LEMMA TickWithin ==
    ASSUME TypeOK, TypeOK', Tick, NEW b \in Buckets, NEW u \in Users
    PROVE  \/ spent'[b][u] = 0 /\ edge'[b][u] = 0 /\ Key(b)' # Key(b)
           \/ /\ spent'[b][u] = spent[b][u] /\ edge'[b][u] = edge[b][u]
              /\ Key(b)' = Key(b) /\ NextStart(b)' = NextStart(b)
              /\ b = "daily" => day' = day
<1>. DEFINE over == IF b = "daily" THEN day' # day ELSE MonthOf(day') # MonthOf(day)
<1>1. /\ spent'[b] = IF over THEN Zero[b] ELSE spent[b]
      /\ edge'[b] = IF over THEN Zero[b] ELSE edge[b]
  BY DEF Tick
<1>2. CASE over
  <2>1. spent'[b][u] = 0 /\ edge'[b][u] = 0
    BY <1>1, <1>2 DEF Zero
  <2>2. Key(b)' # Key(b)
    BY <1>2 DEF Key
  <2>. QED BY <2>1, <2>2
<1>3. CASE ~over
  <2>1. spent'[b][u] = spent[b][u] /\ edge'[b][u] = edge[b][u]
    BY <1>1, <1>3
  <2>2. Key(b)' = Key(b) /\ NextStart(b)' = NextStart(b) /\ (b = "daily" => day' = day)
    BY <1>3 DEF Key, NextStart
  <2>. QED BY <2>1, <2>2
<1>. QED BY <1>2, <1>3

(* A counter that is not over, but at the very instant its period ends,      *)
(* lasts to the end of the current one.                                      *)
LEMMA ResetBeyond ==
    ASSUME TypeOK, ResetsAtStarts, NEW b \in Buckets, NEW u \in Users,
           ~After(counters[b][u].resetAt), ~PeriodStart(b)
    PROVE  counters[b][u].resetAt >= NextStart(b)
<1>. DEFINE at == counters[b][u].resetAt
<1>1. day \in Nat /\ day \in Days /\ midnight \in BOOLEAN /\ at \in Int
  BY CalendarAssumption DEF TypeOK, Counter
<1>. HIDE DEF at
<1>2. at > day \/ (at = day /\ midnight)
  BY <1>1 DEF After, at
<1>3. CASE b = "daily"
  BY <1>1, <1>2, <1>3 DEF NextStart, PeriodStart, at
<1>4. CASE b = "monthly"
  <2>. DEFINE m == MonthOf(day)
  <2>1. m \in Months /\ MonthStart[m] <= day /\ day < MonthStart[m + 1]
    BY <1>1, MonthOfDay DEF InMonth
  <2>2. /\ NumMonths \in Nat
        /\ \A i \in 1 .. NumMonths : MonthStart[i] \in Nat
        /\ \A i, j \in 1 .. NumMonths : i < j => MonthStart[i] < MonthStart[j]
    BY CalendarAssumption
  <2>3. PICK n \in 1 .. NumMonths : at = MonthStart[n]
    <3>1. at # -1
      BY <1>1, <1>2
    <3>. QED BY <1>4, <3>1 DEF ResetsAtStarts, at
  <2>4. at = day => MonthStart[m] < day
    <3>1. ~(midnight /\ DayOfMonth(day) = 0)
      BY <1>4, Zenon DEF PeriodStart
    <3>2. at = day => DayOfMonth(day) # 0
      BY <1>1, <1>2, <3>1
    <3>3. DayOfMonth(day) = day - MonthStart[m] /\ MonthStart[m] \in Nat
      BY <2>1, <2>2 DEF DayOfMonth, Months
    <3>. HIDE DEF m
    <3>. QED BY <1>1, <2>1, <3>2, <3>3
  <2>. HIDE DEF m
  <2>5. m \in 1 .. NumMonths /\ m + 1 \in 1 .. NumMonths /\ m \in Nat
    BY <2>1, <2>2 DEF Months
  <2>6. MonthStart[m] < MonthStart[n]
    BY <1>1, <1>2, <2>1, <2>2, <2>3, <2>4, <2>5
  <2>7. ~(n < m) /\ n # m
    BY <2>2, <2>5, <2>6
  <2>8. n = m + 1 \/ m + 1 < n
    BY <2>5, <2>7
  <2>9. MonthStart[n] >= MonthStart[m + 1]
    BY <2>2, <2>5, <2>8
  <2>. QED BY <1>4, <2>3, <2>9 DEF NextStart, m, at
<1>. QED BY <1>3, <1>4 DEF Buckets

(* What was added is counted as spent, or at the instant the period began.   *)
LEMMA SpendShape ==
    ASSUME TypeOK, NEW c \in Buckets, NEW v \in Users, NEW n \in Nat, CountSpend(c, v, n)
    PROVE  /\ spent'[c][v] = IF PeriodStart(c) THEN spent[c][v] ELSE spent[c][v] + n
           /\ spent'[c][v] + edge'[c][v] = spent[c][v] + edge[c][v] + n
           /\ \A b \in Buckets, u \in Users : ~(b = c /\ u = v) =>
                 spent'[b][u] = spent[b][u] /\ edge'[b][u] = edge[b][u]
<1>. /\ spent \in [Buckets -> [Users -> Nat]]
     /\ edge \in [Buckets -> [Users -> Nat]]
     /\ spent[c][v] \in Nat /\ edge[c][v] \in Nat
  BY DEF TypeOK
<1>1. CASE PeriodStart(c)
  <2>1. edge' = [edge EXCEPT ![c][v] = @ + n] /\ spent' = spent
    BY <1>1, Zenon DEF CountSpend
  <2>. QED BY <1>1, <2>1
<1>2. CASE ~PeriodStart(c)
  <2>1. spent' = [spent EXCEPT ![c][v] = @ + n] /\ edge' = edge
    BY <1>2, Zenon DEF CountSpend
  <2>. QED BY <1>2, <2>1
<1>. QED BY <1>1, <1>2

(* What an add does to the counter and the history of its own bucket and     *)
(* user, and that it leaves the others alone.                                *)
Own(r, b, u) == b = reqs[r].bucket /\ u = reqs[r].user

Spends(r, b, u) ==
    LET n == reqs[r].tokens
    IN  /\ n \in Nat
        /\ Own(r, b, u) =>
             /\ spent'[b][u] = IF PeriodStart(b) THEN spent[b][u] ELSE spent[b][u] + n
             /\ spent'[b][u] + edge'[b][u] = spent[b][u] + edge[b][u] + n
        /\ ~Own(r, b, u) => spent'[b][u] = spent[b][u] /\ edge'[b][u] = edge[b][u]

LEMMA AddSpends ==
    ASSUME TypeOK, NEW r \in Requests, AddToCounter(r) \/ AddToRow(r),
           NEW b \in Buckets, NEW u \in Users
    PROVE  Spends(r, b, u)
<1>1. /\ reqs[r].bucket \in Buckets /\ reqs[r].user \in Users /\ reqs[r].tokens \in Nat
  BY BusyIsActive DEF AddToCounter, AddToRow
<1>2. CountSpend(reqs[r].bucket, reqs[r].user, reqs[r].tokens)
  BY DEF AddToCounter, AddToRow
<1>3. PICK c \in Buckets, v \in Users, n \in Nat :
         c = reqs[r].bucket /\ v = reqs[r].user /\ n = reqs[r].tokens /\ CountSpend(c, v, n)
  BY <1>1, <1>2
<1>4. /\ spent'[c][v] = IF PeriodStart(c) THEN spent[c][v] ELSE spent[c][v] + n
      /\ spent'[c][v] + edge'[c][v] = spent[c][v] + edge[c][v] + n
      /\ \A d \in Buckets, w \in Users : ~(d = c /\ w = v) =>
            spent'[d][w] = spent[d][w] /\ edge'[d][w] = edge[d][w]
  BY <1>3, SpendShape
<1>. QED BY <1>3, <1>4 DEF Spends, Own

LEMMA CounterShape ==
    ASSUME TypeOK, NEW r \in Requests, AddToCounter(r),
           NEW b \in Buckets, NEW u \in Users
    PROVE  /\ backend = "memory" /\ backend' = backend
           /\ day' = day /\ midnight' = midnight /\ rows' = rows
           /\ Own(r, b, u) /\ After(counters[b][u].resetAt) =>
                 /\ counters'[b][u].used = reqs[r].tokens
                 /\ counters'[b][u].resetAt = NextReset(b)
           /\ Own(r, b, u) /\ ~After(counters[b][u].resetAt) =>
                 /\ counters'[b][u].used = counters[b][u].used + reqs[r].tokens
                 /\ counters'[b][u].resetAt = counters[b][u].resetAt
           /\ ~Own(r, b, u) => counters'[b][u] = counters[b][u]
<1>1. reqs[r].bucket \in Buckets /\ reqs[r].user \in Users
  BY BusyIsActive DEF AddToCounter
<1>2. counters \in [Buckets -> [Users -> Counter]]
  BY DEF TypeOK
<1>. QED BY <1>1, <1>2 DEF AddToCounter, clock, Own

LEMMA RowShape ==
    ASSUME TypeOK, NEW r \in Requests, AddToRow(r),
           NEW b \in Buckets, NEW u \in Users
    PROVE  /\ backend # "memory" /\ backend' = backend
           /\ day' = day /\ midnight' = midnight /\ counters' = counters
           /\ Own(r, b, u) =>
                 /\ rows'[b][u].key = Key(b)
                 /\ rows'[b][u].tokens = RowGet(b, u) + reqs[r].tokens
                 /\ backend = "redis" => rows'[b][u].expires = day + TTL(b)
           /\ ~Own(r, b, u) => rows'[b][u] = rows[b][u]
<1>1. reqs[r].bucket \in Buckets /\ reqs[r].user \in Users
  BY BusyIsActive DEF AddToRow
<1>2. rows \in [Buckets -> [Users -> Row]]
  BY DEF TypeOK
<1>. QED BY <1>1, <1>2 DEF AddToRow, clock, Own

(* The steps that touch what is counted.                                     *)
LEMMA StepKinds ==
    ASSUME [Next]_vars
    PROVE  \/ UNCHANGED <<day, midnight, backend, counters, rows, spent, edge>>
           \/ \E r \in Requests : FindCounter(r) \/ AddToCounter(r) \/ AddToRow(r)
           \/ Tick
           \/ \E b \in Buckets, u \in Users : Expire(b, u)
           \/ Restart
  BY DEF Next, RequestStep, vars, clock, history, Arrive, CheckPasses, CheckRejects,
         CheckFails, Respond, Abort, AddFails

LEMMA FindShape ==
    ASSUME TypeOK, NEW r \in Requests, FindCounter(r)
    PROVE  /\ UNCHANGED <<day, midnight, backend, rows, spent, edge>>
           /\ \A b \in Buckets, u \in Users :
                 \/ counters'[b][u] = counters[b][u]
                 \/ /\ counters[b][u] = NoCounter
                    /\ counters'[b][u] = [used |-> 0, resetAt |-> NextReset(b)]
<1>1. reqs[r].bucket \in Buckets /\ reqs[r].user \in Users
  BY BusyIsActive DEF FindCounter
<1>2. counters \in [Buckets -> [Users -> Counter]]
  BY DEF TypeOK
<1>. QED BY <1>1, <1>2 DEF FindCounter, clock, history

LEMMA ExpireShape ==
    ASSUME TypeOK, NEW c \in Buckets, NEW v \in Users, Expire(c, v)
    PROVE  /\ UNCHANGED <<day, midnight, backend, counters, spent, edge>>
           /\ backend = "redis"
           /\ day >= rows[c][v].expires
           /\ \A b \in Buckets, u \in Users :
                 rows'[b][u] = IF b = c /\ u = v THEN NoRow ELSE rows[b][u]
  BY DEF Expire, clock, history, TypeOK

LEMMA RestartShape ==
    ASSUME TypeOK, Restart
    PROVE  /\ UNCHANGED <<day, midnight, backend, rows>>
           /\ \A b \in Buckets, u \in Users :
                 /\ counters'[b][u] = NoCounter
                 /\ backend = "memory" => spent'[b][u] = 0 /\ edge'[b][u] = 0
                 /\ backend # "memory" =>
                       spent'[b][u] = spent[b][u] /\ edge'[b][u] = edge[b][u]
  BY DEF Restart, clock, history, Zero

LEMMA TickShape ==
    Tick => UNCHANGED <<backend, counters, rows>>
  BY DEF Tick

(* Types that the lemmas below use of one bucket and user.                   *)
LEMMA CellTypes ==
    ASSUME TypeOK, NEW b \in Buckets, NEW u \in Users
    PROVE  /\ day \in Nat /\ day \in Days
           /\ counters[b][u].used \in Nat /\ counters[b][u].resetAt \in Int
           /\ rows[b][u].tokens \in Nat /\ rows[b][u].key \in Int
           /\ rows[b][u].key # -1 => rows[b][u].key \in Nat
           /\ rows[b][u].expires \in Nat
           /\ spent[b][u] \in Nat /\ edge[b][u] \in Nat
  BY CalendarAssumption DEF TypeOK, Counter, Row

LEMMA ResetsStep ==
    ASSUME TypeOK, ResetsAtStarts, [Next]_vars
    PROVE  ResetsAtStarts'
<1>. DEFINE Good(at) == at = -1 \/ \E m \in 1 .. NumMonths : at = MonthStart[m]
<1>. "monthly" \in Buckets /\ day \in Days
  BY DEF Buckets, TypeOK
<1>0. Good(NextReset("monthly"))
  BY NextResetLater
<1>1. \A u \in Users : Good(counters["monthly"][u].resetAt)
  BY DEF ResetsAtStarts
<1>. SUFFICES ASSUME NEW u \in Users PROVE Good(counters'["monthly"][u].resetAt)
  BY DEF ResetsAtStarts
<1>2. CASE counters' = counters
  BY <1>1, <1>2
<1>3. ASSUME NEW r \in Requests, FindCounter(r)
      PROVE  Good(counters'["monthly"][u].resetAt)
  <2>1. counters'["monthly"][u] \in
           {counters["monthly"][u], [used |-> 0, resetAt |-> NextReset("monthly")]}
    BY <1>3, FindShape
  <2>. QED BY <1>0, <1>1, <2>1
<1>4. ASSUME NEW r \in Requests, AddToCounter(r)
      PROVE  Good(counters'["monthly"][u].resetAt)
  <2>1. \A b \in Buckets :
           \/ counters'[b][u] = counters[b][u]
           \/ counters'[b][u].resetAt \in {counters[b][u].resetAt, NextReset(b)}
    BY <1>4, CounterShape
  <2>. QED BY <1>0, <1>1, <2>1
<1>5. CASE Restart
  <2>1. counters'["monthly"][u].resetAt = -1
    BY <1>5, RestartShape DEF NoCounter
  <2>. QED BY <2>1
<1>6. ASSUME NEW r \in Requests, AddToRow(r) PROVE counters' = counters
  BY <1>6, RowShape
<1>7. ASSUME NEW c \in Buckets, NEW v \in Users, Expire(c, v) PROVE counters' = counters
  BY <1>7, ExpireShape
<1>. QED BY <1>2, <1>3, <1>4, <1>5, <1>6, <1>7, StepKinds, TickShape

LEMMA SpentStep ==
    ASSUME TypeOK, TypeOK', ResetsAtStarts, SpentIsCounted, [Next]_vars
    PROVE  SpentIsCounted'
<1>. SUFFICES ASSUME backend' = "memory", NEW b \in Buckets, NEW u \in Users,
                     spent'[b][u] > 0
              PROVE  /\ counters'[b][u].resetAt >= NextStart(b)'
                     /\ spent'[b][u] <= counters'[b][u].used
  BY DEF SpentIsCounted
<1>. DEFINE Done == /\ counters'[b][u].resetAt >= NextStart(b)'
                    /\ spent'[b][u] <= counters'[b][u].used
<1>0. backend = "memory"
  BY DEF Next, vars, RequestStep, Arrive, CheckPasses, CheckRejects, CheckFails,
         Respond, Abort, AddFails, FindCounter, AddToCounter, AddToRow, Tick,
         Expire, Restart
<1>1. /\ day \in Nat /\ spent[b][u] \in Nat /\ counters[b][u].used \in Nat
      /\ counters[b][u].resetAt \in Int
      /\ spent[b][u] > 0 => /\ counters[b][u].resetAt >= NextStart(b)
                            /\ spent[b][u] <= counters[b][u].used
      /\ NextReset(b) \in Nat /\ NextStart(b) \in Nat
      /\ NextReset(b) >= NextStart(b) /\ NextStart(b) > day
  BY <1>0, CellTypes, NextResetLater DEF SpentIsCounted
<1>2. day' = day => NextStart(b)' = NextStart(b)
  BY DEF NextStart
<1>3. CASE UNCHANGED <<day, counters, spent>>
  BY <1>1, <1>2, <1>3
<1>4. ASSUME NEW r \in Requests, FindCounter(r) PROVE Done
  <2>1. /\ day' = day /\ spent' = spent
        /\ counters[b][u] # NoCounter => counters'[b][u] = counters[b][u]
    BY <1>4, FindShape
  <2>2. counters[b][u] # NoCounter
    BY <1>1, <2>1 DEF NoCounter
  <2>. QED BY <1>1, <1>2, <2>1, <2>2
<1>5. ASSUME NEW r \in Requests, AddToCounter(r) PROVE Done
  <2>1. CASE Own(r, b, u)
    <3>. DEFINE n == reqs[r].tokens
    <3>1. /\ n \in Nat /\ day' = day
          /\ spent'[b][u] = IF PeriodStart(b) THEN spent[b][u] ELSE spent[b][u] + n
          /\ After(counters[b][u].resetAt) =>
                counters'[b][u].used = n /\ counters'[b][u].resetAt = NextReset(b)
          /\ ~After(counters[b][u].resetAt) =>
                /\ counters'[b][u].used = counters[b][u].used + n
                /\ counters'[b][u].resetAt = counters[b][u].resetAt
      BY <1>5, <2>1, CounterShape, AddSpends DEF Spends
    <3>2. CASE After(counters[b][u].resetAt)
      <4>1. spent[b][u] = 0
        BY <1>1, <3>2 DEF After
      <4>. QED BY <1>1, <1>2, <3>1, <3>2, <4>1
    <3>3. CASE ~After(counters[b][u].resetAt)
      <4>1. CASE spent[b][u] > 0
        BY <1>1, <1>2, <3>1, <3>3, <4>1
      <4>2. CASE spent[b][u] = 0
        <5>1. ~PeriodStart(b)
          BY <3>1, <4>2
        <5>2. counters[b][u].resetAt >= NextStart(b)
          BY <3>3, <5>1, ResetBeyond
        <5>. QED BY <1>1, <1>2, <3>1, <3>3, <4>2, <5>1, <5>2
      <4>. QED BY <1>1, <4>1, <4>2
    <3>. QED BY <3>2, <3>3
  <2>2. CASE ~Own(r, b, u)
    <3>1. counters'[b][u] = counters[b][u] /\ spent'[b][u] = spent[b][u] /\ day' = day
      BY <1>5, <2>2, CounterShape, AddSpends DEF Spends
    <3>. QED BY <1>1, <1>2, <3>1
  <2>. QED BY <2>1, <2>2
<1>6. CASE Tick
  <2>1. spent'[b][u] = spent[b][u] /\ NextStart(b)' = NextStart(b)
    BY <1>6, TickWithin
  <2>2. counters' = counters
    BY <1>6, TickShape
  <2>. QED BY <1>1, <2>1, <2>2
<1>7. CASE Restart
  BY <1>0, <1>7, RestartShape
<1>8. ASSUME NEW c \in Buckets, NEW v \in Users, Expire(c, v) PROVE Done
  BY <1>3, <1>8, ExpireShape
<1>9. ASSUME NEW r \in Requests, AddToRow(r) PROVE Done
  BY <1>0, <1>9, RowShape
<1>. QED BY <1>3, <1>4, <1>5, <1>6, <1>7, <1>8, <1>9, StepKinds

(* No day of a period is as late as the TTL of a row of it.                  *)
LEMMA PeriodsAreShort ==
    ASSUME NEW b \in Buckets, day \in Days
    PROVE  /\ StartOf(b, Key(b)) \in Nat
           /\ StartOf(b, Key(b)) <= day /\ day < StartOf(b, Key(b)) + TTL(b)
<1>. day \in Nat
  BY CalendarAssumption
<1>1. CASE b = "daily"
  BY <1>1 DEF StartOf, Key, TTL
<1>2. CASE b = "monthly"
  <2>. DEFINE m == MonthOf(day)
  <2>1. m \in Months /\ MonthStart[m] <= day /\ day < MonthStart[m + 1]
    BY MonthOfDay DEF InMonth
  <2>2. MonthStart[m] \in Nat /\ MonthStart[m + 1] \in Nat
    <3>1. \A i \in Months : i \in 1 .. NumMonths /\ i + 1 \in 1 .. NumMonths
      BY CalendarAssumption DEF Months
    <3>2. \A i \in 1 .. NumMonths : MonthStart[i] \in Nat
      BY CalendarAssumption
    <3>. QED BY <2>1, <3>1, <3>2
  <2>4. MonthStart[m + 1] <= MonthStart[m] + 31
    BY <2>1, CalendarAssumption
  <2>3. StartOf(b, Key(b)) = MonthStart[m] /\ TTL(b) = 70
    BY <1>2 DEF StartOf, Key, TTL
  <2>. HIDE DEF m
  <2>. QED BY <2>1, <2>2, <2>3, <2>4
<1>. QED BY <1>1, <1>2 DEF Buckets

LEMMA RowsLastStep ==
    ASSUME TypeOK, RowsLast, [Next]_vars
    PROVE  RowsLast'
<1>. SUFFICES ASSUME backend' = "redis", NEW b \in Buckets, NEW u \in Users,
                     rows'[b][u].key # -1
              PROVE  rows'[b][u].expires >= StartOf(b, rows'[b][u].key) + TTL(b)
  BY DEF RowsLast
<1>0. backend = "redis"
  BY DEF Next, vars, RequestStep, Arrive, CheckPasses, CheckRejects, CheckFails,
         Respond, Abort, AddFails, FindCounter, AddToCounter, AddToRow, Tick,
         Expire, Restart
<1>1. rows[b][u].key # -1 =>
         rows[b][u].expires >= StartOf(b, rows[b][u].key) + TTL(b)
  BY <1>0 DEF RowsLast
<1>2. CASE rows'[b][u] = rows[b][u]
  BY <1>1, <1>2
<1>3. ASSUME NEW r \in Requests, AddToRow(r), rows'[b][u] # rows[b][u]
      PROVE  rows'[b][u].expires >= StartOf(b, rows'[b][u].key) + TTL(b)
  <2>1. rows'[b][u].key = Key(b) /\ rows'[b][u].expires = day + TTL(b)
    BY <1>0, <1>3, RowShape
  <2>2. StartOf(b, Key(b)) \in Nat /\ StartOf(b, Key(b)) <= day /\ day \in Nat
    BY PeriodsAreShort, CellTypes
  <2>3. TTL(b) \in Nat
    BY DEF TTL
  <2>. QED BY <2>1, <2>2, <2>3
<1>4. ASSUME NEW c \in Buckets, NEW v \in Users, Expire(c, v)
      PROVE  rows'[b][u] = rows[b][u]
  <2>1. rows'[b][u] = IF b = c /\ u = v THEN NoRow ELSE rows[b][u]
    BY <1>4, ExpireShape
  <2>. QED BY <2>1 DEF NoRow
<1>. QED BY <1>2, <1>3, <1>4, StepKinds, FindShape, CounterShape, TickShape, RestartShape

(* What expires is not of the current period.                                *)
LEMMA ExpiredIsOld ==
    ASSUME TypeOK, RowsLast, NEW b \in Buckets, NEW u \in Users, Expire(b, u)
    PROVE  rows[b][u].key # Key(b)
<1>1. day \in Days /\ day \in Nat /\ Key(b) \in Nat
  BY CellTypes, KeyIsNat
<1>2. /\ StartOf(b, Key(b)) \in Nat /\ TTL(b) \in Nat
      /\ day < StartOf(b, Key(b)) + TTL(b)
  BY <1>1, PeriodsAreShort DEF TTL
<1>3. /\ rows[b][u].key # -1 =>
            rows[b][u].expires >= StartOf(b, rows[b][u].key) + TTL(b)
      /\ day >= rows[b][u].expires /\ rows[b][u].expires \in Nat
  BY ExpireShape, CellTypes DEF RowsLast
<1>. QED BY <1>1, <1>2, <1>3

LEMMA SpentInRowsStep ==
    ASSUME TypeOK, TypeOK', RowsLast, SpentIsInRows, [Next]_vars
    PROVE  SpentIsInRows'
<1>. SUFFICES ASSUME backend' # "memory", NEW b \in Buckets, NEW u \in Users
              PROVE  spent'[b][u] <= RowGet(b, u)'
  BY DEF SpentIsInRows
<1>0. backend # "memory"
  BY DEF Next, vars, RequestStep, Arrive, CheckPasses, CheckRejects, CheckFails,
         Respond, Abort, AddFails, FindCounter, AddToCounter, AddToRow, Tick,
         Expire, Restart
<1>1. /\ spent[b][u] <= RowGet(b, u) /\ spent[b][u] \in Nat
      /\ RowGet(b, u) \in Nat /\ RowGet(b, u)' \in Nat
  <2>1. RowGet(b, u)' \in Nat
    BY DEF TypeOK, RowGet, Row
  <2>. QED BY <1>0, <2>1, CellTypes, ReadingIsNat DEF SpentIsInRows
<1>2. day' = day => Key(b)' = Key(b)
  BY DEF Key
<1>3. ASSUME day' = day, rows'[b][u] = rows[b][u], spent'[b][u] = spent[b][u]
      PROVE  spent'[b][u] <= RowGet(b, u)'
  <2>1. RowGet(b, u)' = RowGet(b, u)
    BY <1>2, <1>3 DEF RowGet
  <2>. QED BY <1>1, <1>3, <2>1
<1>4. ASSUME NEW r \in Requests, AddToRow(r)
      PROVE  spent'[b][u] <= RowGet(b, u)'
  <2>1. CASE Own(r, b, u)
    <3>. DEFINE n == reqs[r].tokens
    <3>1. /\ n \in Nat /\ day' = day
          /\ spent'[b][u] = IF PeriodStart(b) THEN spent[b][u] ELSE spent[b][u] + n
          /\ rows'[b][u].key = Key(b) /\ rows'[b][u].tokens = RowGet(b, u) + n
      BY <1>4, <2>1, RowShape, AddSpends DEF Spends
    <3>2. RowGet(b, u)' = RowGet(b, u) + n
      BY <1>2, <3>1 DEF RowGet
    <3>. QED BY <1>1, <3>1, <3>2
  <2>2. CASE ~Own(r, b, u)
    BY <1>3, <1>4, <2>2, RowShape, AddSpends DEF Spends
  <2>. QED BY <2>1, <2>2
<1>5. CASE Tick
  <2>1. rows' = rows
    BY <1>5, TickShape
  <2>2. CASE spent'[b][u] = 0
    BY <1>1, <2>2
  <2>3. CASE spent'[b][u] = spent[b][u] /\ Key(b)' = Key(b)
    <3>1. RowGet(b, u)' = RowGet(b, u)
      BY <2>1, <2>3 DEF RowGet
    <3>. QED BY <1>1, <2>3, <3>1
  <2>. QED BY <1>5, <2>2, <2>3, TickWithin
<1>6. ASSUME NEW c \in Buckets, NEW v \in Users, Expire(c, v)
      PROVE  spent'[b][u] <= RowGet(b, u)'
  <2>1. CASE b = c /\ u = v
    <3>1. RowGet(b, u) = 0
      BY <1>6, <2>1, ExpiredIsOld DEF RowGet
    <3>2. spent'[b][u] = spent[b][u]
      BY <1>6, ExpireShape
    <3>. QED BY <1>1, <3>1, <3>2
  <2>2. CASE ~(b = c /\ u = v)
    BY <1>3, <1>6, <2>2, ExpireShape
  <2>. QED BY <2>1, <2>2
<1>7. ASSUME NEW r \in Requests, FindCounter(r)
      PROVE  spent'[b][u] <= RowGet(b, u)'
  BY <1>3, <1>7, FindShape
<1>8. ASSUME NEW r \in Requests, AddToCounter(r)
      PROVE  spent'[b][u] <= RowGet(b, u)'
  BY <1>0, <1>8, CounterShape
<1>9. CASE Restart
  BY <1>0, <1>3, <1>9, RestartShape
<1>. QED BY <1>3, <1>4, <1>5, <1>6, <1>7, <1>8, <1>9, StepKinds

LEMMA DailyStep ==
    ASSUME TypeOK, TypeOK', RowsNotFromFuture, DailyIsOfToday, [Next]_vars
    PROVE  DailyIsOfToday'
<1>. DEFINE b == "daily"
<1>. b \in Buckets
  BY DEF Buckets
<1>. SUFFICES ASSUME NEW u \in Users
              PROVE  /\ counters'[b][u].resetAt <= day' + 1
                     /\ counters'[b][u].resetAt = day' + 1 =>
                          counters'[b][u].used <= spent'[b][u] + edge'[b][u]
                     /\ backend' # "memory" /\ rows'[b][u].key = day' =>
                          rows'[b][u].tokens <= spent'[b][u] + edge'[b][u]
  BY DEF DailyIsOfToday
<1>. DEFINE today == spent[b][u] + edge[b][u]
            InCounter == /\ counters'[b][u].resetAt <= day' + 1
                         /\ counters'[b][u].resetAt = day' + 1 =>
                              counters'[b][u].used <= spent'[b][u] + edge'[b][u]
            InRow == backend' # "memory" /\ rows'[b][u].key = day' =>
                       rows'[b][u].tokens <= spent'[b][u] + edge'[b][u]
<1>1. /\ day \in Nat /\ spent[b][u] \in Nat /\ edge[b][u] \in Nat /\ today \in Nat
      /\ counters[b][u].used \in Nat /\ counters[b][u].resetAt \in Int
      /\ rows[b][u].tokens \in Nat /\ rows[b][u].key \in Int
      /\ counters[b][u].resetAt <= day + 1
      /\ counters[b][u].resetAt = day + 1 => counters[b][u].used <= today
      /\ backend # "memory" /\ rows[b][u].key = day => rows[b][u].tokens <= today
      /\ NextReset(b) = day + 1 /\ Key(b) = day
      /\ rows[b][u].key <= day
  BY CellTypes, NextResetLater DEF DailyIsOfToday, RowsNotFromFuture, Key
<1>2. spent'[b][u] \in Nat /\ edge'[b][u] \in Nat /\ day' \in Nat
  BY CalendarAssumption DEF TypeOK
<1>3. ASSUME day' = day, spent'[b][u] + edge'[b][u] = today,
             counters'[b][u] = counters[b][u]
      PROVE  InCounter
  BY <1>1, <1>3
<1>4. ASSUME day' = day, spent'[b][u] + edge'[b][u] = today,
             rows'[b][u] = rows[b][u], backend' = backend
      PROVE  InRow
  BY <1>1, <1>4
<1>5. ASSUME NEW r \in Requests, FindCounter(r)
      PROVE  InCounter /\ InRow
  <2>1. /\ day' = day /\ spent' = spent /\ edge' = edge
        /\ rows' = rows /\ backend' = backend
        /\ \/ counters'[b][u] = counters[b][u]
           \/ counters'[b][u] = [used |-> 0, resetAt |-> NextReset(b)]
    BY <1>5, FindShape
  <2>2. InCounter
    BY <1>1, <1>3, <2>1
  <2>. QED BY <1>4, <2>1, <2>2
<1>6. ASSUME NEW r \in Requests, AddToCounter(r)
      PROVE  InCounter /\ InRow
  <2>1. day' = day /\ backend' = "memory"
    BY <1>6, CounterShape
  <2>2. CASE Own(r, b, u)
    <3>. DEFINE n == reqs[r].tokens
    <3>1. /\ n \in Nat
          /\ spent'[b][u] + edge'[b][u] = spent[b][u] + edge[b][u] + n
          /\ After(counters[b][u].resetAt) =>
                counters'[b][u].used = n /\ counters'[b][u].resetAt = NextReset(b)
          /\ ~After(counters[b][u].resetAt) =>
                /\ counters'[b][u].used = counters[b][u].used + n
                /\ counters'[b][u].resetAt = counters[b][u].resetAt
      BY <1>6, <2>2, CounterShape, AddSpends DEF Spends
    <3>. QED BY <1>1, <2>1, <3>1
  <2>3. CASE ~Own(r, b, u)
    BY <1>1, <1>3, <1>6, <2>1, <2>3, CounterShape, AddSpends DEF Spends
  <2>. QED BY <2>2, <2>3
<1>7. ASSUME NEW r \in Requests, AddToRow(r)
      PROVE  InCounter /\ InRow
  <2>1. day' = day /\ counters' = counters /\ backend' = backend /\ backend # "memory"
    BY <1>7, RowShape
  <2>2. CASE Own(r, b, u)
    <3>. DEFINE n == reqs[r].tokens
    <3>1. /\ n \in Nat
          /\ spent'[b][u] + edge'[b][u] = spent[b][u] + edge[b][u] + n
          /\ rows'[b][u].tokens = RowGet(b, u) + n
      BY <1>7, <2>2, RowShape, AddSpends DEF Spends
    <3>2. RowGet(b, u) <= today /\ RowGet(b, u) \in Nat
      BY <1>1, <2>1 DEF RowGet
    <3>. QED BY <1>1, <2>1, <3>1, <3>2
  <2>3. CASE ~Own(r, b, u)
    <3>1. /\ spent'[b][u] = spent[b][u] /\ edge'[b][u] = edge[b][u]
          /\ rows'[b][u] = rows[b][u]
      BY <1>7, <2>3, RowShape, AddSpends DEF Spends
    <3>. QED BY <1>3, <1>4, <2>1, <3>1
  <2>. QED BY <2>2, <2>3
<1>8. CASE Tick
  <2>1. counters' = counters /\ rows' = rows /\ backend' = backend
    BY <1>8, TickShape
  <2>2. CASE day' = day
    <3>1. spent'[b][u] = spent[b][u] /\ edge'[b][u] = edge[b][u]
      <4>1. Key(b)' = Key(b)
        BY <2>2 DEF Key
      <4>. QED BY <1>8, <4>1, TickWithin
    <3>. QED BY <1>3, <1>4, <2>1, <2>2, <3>1
  <2>3. CASE day' # day
    <3>1. day' > day
      BY <1>1, <1>2, <1>8, <2>3 DEF Tick
    <3>. QED BY <1>1, <1>2, <2>1, <3>1
  <2>. QED BY <2>2, <2>3
<1>9. ASSUME NEW c \in Buckets, NEW v \in Users, Expire(c, v)
      PROVE  InCounter /\ InRow
  <2>1. /\ day' = day /\ counters' = counters /\ spent' = spent /\ edge' = edge
        /\ backend' = backend
        /\ rows'[b][u] = NoRow \/ rows'[b][u] = rows[b][u]
    BY <1>9, ExpireShape
  <2>2. NoRow.key # day
    BY <1>1 DEF NoRow
  <2>. QED BY <1>3, <1>4, <2>1, <2>2
<1>10. CASE Restart
  <2>1. /\ day' = day /\ counters'[b][u].resetAt = -1 /\ backend' = backend
        /\ rows' = rows
        /\ backend # "memory" => spent'[b][u] = spent[b][u] /\ edge'[b][u] = edge[b][u]
    BY <1>10, RestartShape DEF NoCounter
  <2>. QED BY <1>1, <1>4, <2>1
<1>11. CASE UNCHANGED <<day, midnight, backend, counters, rows, spent, edge>>
  BY <1>3, <1>4, <1>11
<1>. QED BY <1>5, <1>6, <1>7, <1>8, <1>9, <1>10, <1>11, StepKinds

(* A counter whose reset was set on a day of the past keeps it.              *)
LEMMA BegunBefore ==
    ASSUME NEW at, NEW m \in Int, NEW n \in Int, m <= n, Begun(at, m)
    PROVE  Begun(at, n)
<1>1. PICK d \in Days : MonthOf(d) <= m /\ at = NextMonthlyReset(d)
  BY DEF Begun
<1>2. MonthOf(d) \in Nat
  BY MonthOfIsNat
<1>. QED BY <1>1, <1>2 DEF Begun

LEMMA MonthlyStep ==
    ASSUME TypeOK, TypeOK', RowsNotFromFuture, MonthlyIsOfItsMonth, [Next]_vars
    PROVE  MonthlyIsOfItsMonth'
<1>. DEFINE b == "monthly"
<1>. b \in Buckets
  BY DEF Buckets
<1>. SUFFICES
       ASSUME NEW u \in Users
       PROVE  /\ counters'[b][u].resetAt = -1 => counters'[b][u].used = 0
              /\ counters'[b][u].resetAt # -1 =>
                   Begun(counters'[b][u].resetAt, MonthOf(day'))
              /\ counters'[b][u].used > spent'[b][u] + edge'[b][u] =>
                   Begun(counters'[b][u].resetAt, MonthOf(day') - 1)
              /\ backend' # "memory" /\ rows'[b][u].key = MonthOf(day') =>
                   rows'[b][u].tokens <= spent'[b][u] + edge'[b][u]
  BY DEF MonthlyIsOfItsMonth
<1>. DEFINE month == spent[b][u] + edge[b][u]
            InCounter == /\ counters'[b][u].resetAt = -1 => counters'[b][u].used = 0
                         /\ counters'[b][u].resetAt # -1 =>
                              Begun(counters'[b][u].resetAt, MonthOf(day'))
                         /\ counters'[b][u].used > spent'[b][u] + edge'[b][u] =>
                              Begun(counters'[b][u].resetAt, MonthOf(day') - 1)
            InRow == backend' # "memory" /\ rows'[b][u].key = MonthOf(day') =>
                       rows'[b][u].tokens <= spent'[b][u] + edge'[b][u]
<1>1. /\ day \in Nat /\ spent[b][u] \in Nat /\ edge[b][u] \in Nat /\ month \in Nat
      /\ counters[b][u].used \in Nat /\ counters[b][u].resetAt \in Int
      /\ rows[b][u].tokens \in Nat /\ rows[b][u].key \in Int
      /\ rows[b][u].key <= MonthOf(day) /\ MonthOf(day) \in Nat /\ Key(b) = MonthOf(day)
  BY CellTypes, MonthOfIsNat DEF RowsNotFromFuture, Key
<1>2. spent'[b][u] \in Nat /\ edge'[b][u] \in Nat /\ day' \in Days /\ MonthOf(day') \in Nat
  BY MonthOfIsNat DEF TypeOK
<1>3. /\ counters[b][u].resetAt = -1 => counters[b][u].used = 0
      /\ counters[b][u].resetAt # -1 => Begun(counters[b][u].resetAt, MonthOf(day))
      /\ counters[b][u].used > month => Begun(counters[b][u].resetAt, MonthOf(day) - 1)
      /\ backend # "memory" /\ rows[b][u].key = MonthOf(day) => rows[b][u].tokens <= month
  BY DEF MonthlyIsOfItsMonth
<1>4. NextReset(b) # -1 /\ Begun(NextReset(b), MonthOf(day))
  <2>1. day \in Days /\ NextReset(b) = NextMonthlyReset(day)
    BY DEF TypeOK, NextReset
  <2>2. NextReset(b) > day
    BY <2>1, NextResetLater
  <2>. QED BY <1>1, <2>1, <2>2 DEF Begun
<1>5. ASSUME day' = day, spent'[b][u] + edge'[b][u] = month,
             counters'[b][u] = counters[b][u]
      PROVE  InCounter
  BY <1>3, <1>5
<1>6. ASSUME day' = day, spent'[b][u] + edge'[b][u] = month,
             rows'[b][u] = rows[b][u], backend' = backend
      PROVE  InRow
  BY <1>3, <1>6
<1>7. ASSUME NEW r \in Requests, FindCounter(r)
      PROVE  InCounter /\ InRow
  <2>1. /\ day' = day /\ spent' = spent /\ edge' = edge
        /\ rows' = rows /\ backend' = backend
        /\ \/ counters'[b][u] = counters[b][u]
           \/ counters'[b][u] = [used |-> 0, resetAt |-> NextReset(b)]
    BY <1>7, FindShape
  <2>2. CASE counters'[b][u] = [used |-> 0, resetAt |-> NextReset(b)]
    <3>1. counters'[b][u].used = 0 /\ counters'[b][u].resetAt = NextReset(b)
      BY <2>2
    <3>. QED BY <1>2, <1>4, <1>6, <2>1, <3>1
  <2>. QED BY <1>5, <1>6, <2>1, <2>2
<1>8. ASSUME NEW r \in Requests, AddToCounter(r)
      PROVE  InCounter /\ InRow
  <2>1. day' = day /\ backend' = "memory"
    BY <1>8, CounterShape
  <2>2. CASE Own(r, b, u)
    <3>. DEFINE n == reqs[r].tokens
    <3>1. /\ n \in Nat
          /\ spent'[b][u] + edge'[b][u] = spent[b][u] + edge[b][u] + n
          /\ After(counters[b][u].resetAt) =>
                counters'[b][u].used = n /\ counters'[b][u].resetAt = NextReset(b)
          /\ ~After(counters[b][u].resetAt) =>
                /\ counters'[b][u].used = counters[b][u].used + n
                /\ counters'[b][u].resetAt = counters[b][u].resetAt
      BY <1>8, <2>2, CounterShape, AddSpends DEF Spends
    <3>2. CASE After(counters[b][u].resetAt)
      BY <1>1, <1>4, <2>1, <3>1, <3>2
    <3>3. CASE ~After(counters[b][u].resetAt)
      <4>1. counters[b][u].resetAt # -1
        BY <1>1, <3>3 DEF After
      <4>. QED BY <1>1, <1>3, <2>1, <3>1, <3>3, <4>1
    <3>. QED BY <3>2, <3>3
  <2>3. CASE ~Own(r, b, u)
    BY <1>1, <1>5, <1>8, <2>1, <2>3, CounterShape, AddSpends DEF Spends
  <2>. QED BY <2>2, <2>3
<1>9. ASSUME NEW r \in Requests, AddToRow(r)
      PROVE  InCounter /\ InRow
  <2>1. /\ day' = day /\ counters' = counters /\ backend' = backend /\ backend # "memory"
        /\ reqs[r].tokens \in Nat
    BY <1>9, RowShape, AddSpends DEF Spends
  <2>2. CASE Own(r, b, u)
    <3>. DEFINE n == reqs[r].tokens
    <3>1. /\ n \in Nat
          /\ spent'[b][u] + edge'[b][u] = spent[b][u] + edge[b][u] + n
          /\ rows'[b][u].tokens = RowGet(b, u) + n
      BY <1>9, <2>2, RowShape, AddSpends DEF Spends
    <3>2. RowGet(b, u) <= month /\ RowGet(b, u) \in Nat
      BY <1>1, <1>3, <2>1 DEF RowGet
    <3>3. InRow
      BY <1>1, <3>1, <3>2
    <3>4. InCounter
      <4>1. month <= spent'[b][u] + edge'[b][u]
        BY <1>1, <3>1
      <4>. QED BY <1>1, <1>2, <1>3, <2>1, <4>1
    <3>. QED BY <3>3, <3>4
  <2>3. CASE ~Own(r, b, u)
    <3>1. /\ spent'[b][u] = spent[b][u] /\ edge'[b][u] = edge[b][u]
          /\ rows'[b][u] = rows[b][u]
      BY <1>9, <2>3, RowShape, AddSpends DEF Spends
    <3>. QED BY <1>5, <1>6, <2>1, <3>1
  <2>. QED BY <2>2, <2>3
<1>10. CASE Tick
  <2>1. counters' = counters /\ rows' = rows /\ backend' = backend
    BY <1>10, TickShape
  <2>2. MonthOf(day) <= MonthOf(day')
    BY <1>10, TickKeys DEF Key
  <2>3. CASE MonthOf(day') = MonthOf(day)
    <3>1. spent'[b][u] = spent[b][u] /\ edge'[b][u] = edge[b][u]
      <4>1. Key(b)' = Key(b)
        BY <2>3 DEF Key
      <4>. QED BY <1>10, <4>1, TickWithin
    <3>. QED BY <1>3, <2>1, <2>3, <3>1
  <2>4. CASE MonthOf(day') # MonthOf(day)
    <3>1. MonthOf(day) <= MonthOf(day') - 1 /\ MonthOf(day) < MonthOf(day')
      BY <1>1, <1>2, <2>2, <2>4
    <3>2. counters[b][u].resetAt # -1 =>
             /\ Begun(counters[b][u].resetAt, MonthOf(day'))
             /\ Begun(counters[b][u].resetAt, MonthOf(day') - 1)
      BY <1>1, <1>2, <1>3, <2>2, <3>1, BegunBefore
    <3>3. rows[b][u].key # MonthOf(day')
      BY <1>1, <1>2, <3>1
    <3>. QED BY <1>2, <1>3, <2>1, <3>2, <3>3
  <2>. QED BY <2>3, <2>4
<1>11. ASSUME NEW c \in Buckets, NEW v \in Users, Expire(c, v)
      PROVE  InCounter /\ InRow
  <2>1. /\ day' = day /\ counters' = counters /\ spent' = spent /\ edge' = edge
        /\ backend' = backend
        /\ rows'[b][u] = NoRow \/ rows'[b][u] = rows[b][u]
    BY <1>11, ExpireShape
  <2>2. NoRow.key # MonthOf(day)
    BY <1>1 DEF NoRow
  <2>. QED BY <1>5, <1>6, <2>1, <2>2
<1>12. CASE Restart
  <2>1. /\ day' = day /\ counters'[b][u] = NoCounter /\ backend' = backend
        /\ rows' = rows
        /\ backend # "memory" => spent'[b][u] = spent[b][u] /\ edge'[b][u] = edge[b][u]
    BY <1>12, RestartShape
  <2>2. InRow
    BY <1>6, <2>1 DEF InRow
  <2>. QED BY <1>2, <2>1, <2>2 DEF NoCounter
<1>13. CASE UNCHANGED <<day, midnight, backend, counters, rows, spent, edge>>
  BY <1>5, <1>6, <1>13
<1>. QED BY <1>7, <1>8, <1>9, <1>10, <1>11, <1>12, <1>13, StepKinds

LEMMA GrowStep ==
    ASSUME TypeOK, TypeOK', ResetsAtStarts, RowsLast, [Next]_vars,
           NEW b \in Buckets, NEW u \in Users
    PROVE  \/ Key(b)' # Key(b)
           \/ PeriodStart(b)
           \/ backend = "memory" /\ counters'[b][u] = NoCounter
           \/ Reading(b, u)' >= Reading(b, u)
<1>. SUFFICES ASSUME Key(b)' = Key(b), ~PeriodStart(b)
              PROVE  \/ backend = "memory" /\ counters'[b][u] = NoCounter
                     \/ Reading(b, u)' >= Reading(b, u)
  OBVIOUS
<1>1. /\ Reading(b, u) \in Nat /\ Reading(b, u)' \in Nat
      /\ MemoryGet(b, u) \in Nat /\ RowGet(b, u) \in Nat /\ day \in Nat
      /\ counters[b][u].used \in Nat /\ counters[b][u].resetAt \in Int
  BY ReadingIsNat, ReadingPrimeIsNat, CellTypes
<1>2. ASSUME UNCHANGED <<day, midnight, backend>>,
             counters'[b][u] = counters[b][u], rows'[b][u] = rows[b][u]
      PROVE  Reading(b, u)' >= Reading(b, u)
  <2>1. Reading(b, u)' = Reading(b, u)
    BY <1>2 DEF Reading, MemoryGet, RowGet, After, Key
  <2>. QED BY <1>1, <2>1
<1>3. ASSUME NEW r \in Requests, FindCounter(r)
      PROVE  Reading(b, u)' >= Reading(b, u)
  <2>1. CASE counters'[b][u] = counters[b][u]
    BY <1>2, <1>3, <2>1, FindShape
  <2>2. CASE counters[b][u] = NoCounter /\ backend = "memory"
    <3>1. Reading(b, u) = 0
      BY <2>2 DEF Reading, MemoryGet, NoCounter
    <3>. QED BY <1>1, <3>1
  <2>3. CASE backend # "memory"
    <3>1. Reading(b, u)' = Reading(b, u)
      BY <1>3, <2>3, FindShape DEF Reading, RowGet, Key
    <3>. QED BY <1>1, <3>1
  <2>. QED BY <1>3, <2>1, <2>2, <2>3, FindShape
<1>4. ASSUME NEW r \in Requests, AddToCounter(r)
      PROVE  Reading(b, u)' >= Reading(b, u)
  <2>1. backend = "memory" /\ UNCHANGED <<day, midnight, backend, rows>>
    BY <1>4, CounterShape
  <2>2. CASE Own(r, b, u) /\ After(counters[b][u].resetAt)
    <3>1. Reading(b, u) = 0
      BY <2>1, <2>2 DEF Reading, MemoryGet
    <3>. QED BY <1>1, <3>1
  <2>3. CASE Own(r, b, u) /\ ~After(counters[b][u].resetAt)
    <3>1. /\ counters'[b][u].used = counters[b][u].used + reqs[r].tokens
          /\ counters'[b][u].resetAt = counters[b][u].resetAt
          /\ reqs[r].tokens \in Nat
      BY <1>4, <2>3, CounterShape, AddSpends DEF Spends
    <3>2. ~After(counters[b][u].resetAt)'
      BY <2>1, <2>3, <3>1 DEF After
    <3>3. /\ Reading(b, u) = counters[b][u].used
          /\ Reading(b, u)' = counters'[b][u].used
      BY <2>1, <2>3, <3>2 DEF Reading, MemoryGet
    <3>. QED BY <1>1, <3>1, <3>3
  <2>4. CASE ~Own(r, b, u)
    BY <1>2, <1>4, <2>1, <2>4, CounterShape
  <2>. QED BY <2>2, <2>3, <2>4
<1>5. ASSUME NEW r \in Requests, AddToRow(r)
      PROVE  Reading(b, u)' >= Reading(b, u)
  <2>1. backend # "memory" /\ UNCHANGED <<day, midnight, backend, counters>>
    BY <1>5, RowShape
  <2>2. CASE Own(r, b, u)
    <3>1. /\ rows'[b][u].key = Key(b) /\ reqs[r].tokens \in Nat
          /\ rows'[b][u].tokens = RowGet(b, u) + reqs[r].tokens
      BY <1>5, <2>2, RowShape, AddSpends DEF Spends
    <3>2. Reading(b, u) = RowGet(b, u) /\ Reading(b, u)' = rows'[b][u].tokens
      BY <2>1, <3>1 DEF Reading, RowGet
    <3>. QED BY <1>1, <3>1, <3>2
  <2>3. CASE ~Own(r, b, u)
    BY <1>2, <1>5, <2>1, <2>3, RowShape
  <2>. QED BY <2>2, <2>3
<1>6. CASE Tick
  <2>1. UNCHANGED <<backend, counters, rows>>
    BY <1>6, TickShape
  <2>2. CASE backend # "memory"
    <3>1. Reading(b, u)' = Reading(b, u)
      BY <2>1, <2>2 DEF Reading, RowGet
    <3>. QED BY <1>1, <3>1
  <2>3. CASE backend = "memory" /\ After(counters[b][u].resetAt)
    <3>1. Reading(b, u) = 0
      BY <2>3 DEF Reading, MemoryGet
    <3>. QED BY <1>1, <3>1
  <2>4. CASE backend = "memory" /\ ~After(counters[b][u].resetAt)
    <3>1. counters[b][u].resetAt >= NextStart(b)
      BY <2>4, ResetBeyond
    <3>2. NextStart(b)' = NextStart(b)
      BY <1>6, TickWithin
    <3>3. NextStart(b)' > day' /\ NextStart(b)' \in Nat /\ day' \in Nat
      BY NextResetPrimeLater
    <3>4. ~After(counters[b][u].resetAt)'
      BY <1>1, <2>1, <3>1, <3>2, <3>3 DEF After
    <3>5. Reading(b, u)' = Reading(b, u)
      BY <2>1, <2>4, <3>4 DEF Reading, MemoryGet
    <3>. QED BY <1>1, <3>5
  <2>. QED BY <2>2, <2>3, <2>4
<1>7. ASSUME NEW c \in Buckets, NEW v \in Users, Expire(c, v)
      PROVE  Reading(b, u)' >= Reading(b, u)
  <2>1. CASE b = c /\ u = v
    <3>1. Reading(b, u) = 0
      BY <1>7, <2>1, ExpiredIsOld, ExpireShape DEF Reading, RowGet
    <3>. QED BY <1>1, <3>1
  <2>2. CASE ~(b = c /\ u = v)
    BY <1>2, <1>7, <2>2, ExpireShape
  <2>. QED BY <2>1, <2>2
<1>8. CASE Restart
  <2>1. /\ UNCHANGED <<day, midnight, backend, rows>>
        /\ counters'[b][u] = NoCounter
    BY <1>8, RestartShape
  <2>2. CASE backend # "memory"
    <3>1. Reading(b, u)' = Reading(b, u)
      BY <2>1, <2>2 DEF Reading, RowGet, Key
    <3>. QED BY <1>1, <3>1
  <2>. QED BY <2>1, <2>2
<1>9. CASE UNCHANGED <<day, midnight, backend, counters, rows, spent, edge>>
  BY <1>2, <1>9
<1>. QED BY <1>3, <1>4, <1>5, <1>6, <1>7, <1>8, <1>9, StepKinds

----
(* The invariant of the counters.                                            *)

CountersInv ==
    /\ TypeOK
    /\ RowsNotFromFuture
    /\ ResetsAtStarts
    /\ SpentIsCounted
    /\ RowsLast
    /\ SpentIsInRows
    /\ DailyIsOfToday
    /\ MonthlyIsOfItsMonth

LEMMA CountersInvInit == Init => CountersInv
<1>. SUFFICES ASSUME Init PROVE CountersInv
  OBVIOUS
<1>1. TypeOK /\ RowsNotFromFuture
  BY InitTypeOK, RowsInit
<1>2. \A b \in Buckets, u \in Users :
         /\ counters[b][u].resetAt = -1 /\ rows[b][u].key = -1
         /\ rows[b][u].tokens = 0 /\ spent[b][u] = 0 /\ edge[b][u] = 0
         /\ counters[b][u].used = 0
  BY DEF Init, NoCounter, NoRow, Zero
<1>3. ResetsAtStarts /\ SpentIsCounted /\ RowsLast
  BY <1>2 DEF ResetsAtStarts, SpentIsCounted, RowsLast, Buckets
<1>4. SpentIsInRows
  BY <1>2 DEF SpentIsInRows, RowGet
<1>5. DailyIsOfToday
  <2>1. "daily" \in Buckets /\ day \in Nat
    BY CalendarAssumption DEF Init, Buckets
  <2>. QED BY <1>2, <2>1 DEF DailyIsOfToday
<1>6. MonthlyIsOfItsMonth
  <2>1. "monthly" \in Buckets
    BY DEF Buckets
  <2>. QED BY <1>2, <2>1 DEF MonthlyIsOfItsMonth
<1>. QED BY <1>1, <1>3, <1>4, <1>5, <1>6 DEF CountersInv

LEMMA CountersInvStep == CountersInv /\ [Next]_vars => CountersInv'
<1>. SUFFICES ASSUME CountersInv, [Next]_vars PROVE CountersInv'
  OBVIOUS
<1>. USE DEF CountersInv
<1>1. TypeOK'
  BY StepTypeOK
<1>2. RowsNotFromFuture' /\ ResetsAtStarts' /\ RowsLast'
  BY <1>1, RowsStep, ResetsStep, RowsLastStep
<1>3. SpentIsCounted' /\ SpentIsInRows' /\ DailyIsOfToday' /\ MonthlyIsOfItsMonth'
  BY <1>1, SpentStep, SpentInRowsStep, DailyStep, MonthlyStep
<1>. QED BY <1>1, <1>2, <1>3

LEMMA CountersInvAlways == Spec => []CountersInv
  BY CountersInvInit, CountersInvStep, PTL DEF Spec

(* What CheckQuota reads misses no tokens that were added in the current     *)
(* period, whatever interleaves, resets, expires or restarts, on any         *)
(* calendar.                                                                 *)
THEOREM SpendingIsCounted == Spec => []NeverUndercounts
<1>1. CountersInv => NeverUndercounts
  <2>. SUFFICES ASSUME CountersInv, NEW b \in Buckets, NEW u \in Users
                PROVE  spent[b][u] <= Reading(b, u)
    BY DEF NeverUndercounts
  <2>1. /\ Reading(b, u) \in Nat /\ spent[b][u] \in Nat /\ day \in Nat
        /\ NextStart(b) > day /\ NextStart(b) \in Nat
        /\ counters[b][u].resetAt \in Int
    BY ReadingIsNat, CellTypes, NextResetLater DEF CountersInv
  <2>2. CASE backend = "memory" /\ spent[b][u] > 0
    <3>1. /\ counters[b][u].resetAt >= NextStart(b)
          /\ spent[b][u] <= counters[b][u].used
      BY <2>2 DEF CountersInv, SpentIsCounted
    <3>2. ~After(counters[b][u].resetAt)
      BY <2>1, <3>1 DEF After
    <3>. QED BY <2>2, <3>1, <3>2 DEF Reading, MemoryGet
  <2>3. CASE backend # "memory"
    BY <2>3 DEF CountersInv, SpentIsInRows, Reading
  <2>. QED BY <2>1, <2>2, <2>3
<1>. QED BY <1>1, CountersInvAlways, PTL

(* Once midnight is past, the daily counter holds nothing of the day before. *)
LEMMA DailyInTime ==
    ASSUME CountersInv, ~midnight, NEW u \in Users
    PROVE  Reading("daily", u) <= spent["daily"][u] + edge["daily"][u]
<1>. DEFINE b == "daily"
<1>0. b \in Buckets
  BY DEF Buckets
<1>1. /\ day \in Nat /\ spent[b][u] \in Nat /\ edge[b][u] \in Nat
      /\ counters[b][u].resetAt \in Int /\ Key(b) = day
      /\ counters[b][u].resetAt <= day + 1
      /\ counters[b][u].resetAt = day + 1 =>
            counters[b][u].used <= spent[b][u] + edge[b][u]
      /\ backend # "memory" /\ rows[b][u].key = day =>
            rows[b][u].tokens <= spent[b][u] + edge[b][u]
  BY <1>0, CellTypes DEF CountersInv, DailyIsOfToday, Key
<1>2. CASE backend = "memory"
  <2>1. ~After(counters[b][u].resetAt) => counters[b][u].resetAt = day + 1
    BY <1>1 DEF After
  <2>. QED BY <1>1, <1>2, <2>1 DEF Reading, MemoryGet
<1>3. CASE backend # "memory"
  BY <1>1, <1>3 DEF Reading, RowGet
<1>. QED BY <1>2, <1>3

(* The monthly counter is late only by the calendar's overflow.              *)
LEMMA MonthlyInTime ==
    ASSUME CountersInv, ~midnight, NEW u \in Users,
           ~(Reading("monthly", u) <= spent["monthly"][u] + edge["monthly"][u])
    PROVE  backend = "memory" /\ \E d \in Days : Carried(d, u)
<1>. DEFINE b == "monthly"
            at == counters[b][u].resetAt
            m == MonthOf(day)
<1>0. b \in Buckets /\ day \in Days
  BY DEF Buckets, CountersInv, TypeOK
<1>1. /\ day \in Nat /\ spent[b][u] \in Nat /\ edge[b][u] \in Nat
      /\ counters[b][u].used \in Nat /\ at \in Int /\ Key(b) = m /\ m \in Nat
      /\ counters[b][u].used > spent[b][u] + edge[b][u] => Begun(at, m - 1)
      /\ backend # "memory" /\ rows[b][u].key = m =>
            rows[b][u].tokens <= spent[b][u] + edge[b][u]
  BY <1>0, CellTypes, MonthOfIsNat DEF CountersInv, MonthlyIsOfItsMonth, Key
<1>2. backend = "memory"
  BY <1>1 DEF Reading, RowGet
<1>3. at > day /\ Begun(at, m - 1)
  BY <1>1, <1>2 DEF Reading, MemoryGet, After
<1>4. PICK d \in Days : MonthOf(d) <= m - 1 /\ at = NextMonthlyReset(d)
  BY <1>3 DEF Begun
<1>. DEFINE n == MonthOf(AddOneMonth(d))
<1>5. /\ n \in Months /\ MonthStart[n] <= AddOneMonth(d) /\ at = MonthStart[n]
      /\ m \in Months /\ MonthStart[m] <= day
      /\ MonthOf(d) \in Months
  BY <1>0, <1>4, MonthOfDay DEF InMonth, NextMonthlyReset
<1>6. /\ NumMonths \in Nat
      /\ \A i \in 1 .. NumMonths : MonthStart[i] \in Nat
      /\ \A i, j \in 1 .. NumMonths : i < j => MonthStart[i] < MonthStart[j]
  BY CalendarAssumption
<1>7. AddOneMonth(d) \in Nat
  <2>. DEFINE k == MonthOf(d)
  <2>1. k \in Months /\ MonthStart[k] <= d /\ d \in Nat
    BY MonthOfDay, CalendarAssumption DEF InMonth
  <2>2. AddOneMonth(d) = MonthStart[k + 1] + (d - MonthStart[k])
    BY DEF AddOneMonth, DayOfMonth
  <2>. HIDE DEF k
  <2>3. MonthStart[k] \in Nat /\ MonthStart[k + 1] \in Nat
    BY <1>6, <2>1 DEF Months
  <2>. QED BY <2>1, <2>2, <2>3
<1>. HIDE DEF m, n, at
<1>8. n \in 1 .. NumMonths /\ m \in 1 .. NumMonths /\ m + 1 \in 1 .. NumMonths
  BY <1>5, <1>6 DEF Months
<1>9. MonthStart[m] < MonthStart[n]
  BY <1>1, <1>3, <1>5, <1>6, <1>8
<1>10. ~(n < m) /\ n # m
  BY <1>6, <1>8, <1>9
<1>11. n = m + 1 \/ m + 1 < n
  BY <1>8, <1>10
<1>12. MonthStart[m + 1] <= MonthStart[n]
  BY <1>6, <1>8, <1>11
<1>13. MonthStart[m + 1] <= AddOneMonth(d)
  BY <1>5, <1>6, <1>7, <1>8, <1>12
<1>14. MonthOf(d) < m
  BY <1>1, <1>4, <1>5 DEF Months
<1>. QED BY <1>2, <1>4, <1>13, <1>14 DEF Carried, m, at

(* Resets come when the period ends, on any calendar, but for the overflow.  *)
THEOREM OnlyOverflowDelays == Spec => []OnlyOverflowDelaysReset
<1>1. CountersInv => OnlyOverflowDelaysReset
  <2>. SUFFICES ASSUME CountersInv, ~midnight, NEW b \in Buckets, NEW u \in Users
                PROVE  \/ Reading(b, u) <= spent[b][u] + edge[b][u]
                       \/ /\ b = "monthly" /\ backend = "memory"
                          /\ \E d \in Days : Carried(d, u)
    BY DEF OnlyOverflowDelaysReset
  <2>1. b = "daily" \/ b = "monthly"
    BY DEF Buckets
  <2>2. CASE b = "daily"
    BY <2>2, DailyInTime
  <2>3. CASE b = "monthly"
    BY <2>3, MonthlyInTime
  <2>. QED BY <2>1, <2>2, <2>3
<1>. QED BY <1>1, CountersInvAlways, PTL

(* Within a period no counter goes down, but for a restart over the memory   *)
(* backend.                                                                  *)
THEOREM CountersGrow == Spec => CountersOnlyGrow
<1>. DEFINE Grows == \A b \in Buckets, u \in Users :
                        \/ Key(b)' # Key(b)
                        \/ PeriodStart(b)
                        \/ backend = "memory" /\ counters'[b][u] = NoCounter
                        \/ Reading(b, u)' >= Reading(b, u)
<1>1. CountersInv /\ CountersInv' /\ [Next]_vars => [Grows]_vars
  <2>. SUFFICES ASSUME CountersInv, CountersInv', [Next]_vars PROVE Grows
    OBVIOUS
  <2>. QED BY GrowStep DEF CountersInv
<1>. QED BY <1>1, CountersInvAlways, PTL DEF Spec, CountersOnlyGrow

=============================================================================
