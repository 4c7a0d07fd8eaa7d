-------------------------- MODULE AdmissionProofs ---------------------------
(***************************************************************************)
(* What the circuit breaker keeps for every configuration, every sequence  *)
(* of samples and every request that reads its state without the lock.    *)
(***************************************************************************)
EXTENDS Admission, TLAPS

\* The calm timer never runs ahead of the calm there was: what makes a raise
\* of the cap follow from the timer.
TimerIsHonest == calm # None => calm <= coldFor

\* A request that found the telemetry stale has only the age check before it,
\* where it still is stale, or is already admitted.
StaleIsSeen ==
    call.stale => \/ call.pc = "found" /\ age > MaxAge
                  \/ call.pc = "admitted"

AdmissionInv == TypeOK /\ CapInBand /\ TimerIsHonest /\ StaleIsSeen

----
\* A blend of two averages is an average.
LEMMA BlendType ==
    ASSUME ema \in Nat, NEW u \in Nat
    PROVE  Blend(u) \in Nat
  <1>1. (Weight - 1) * ema \in Nat
    BY AdmissionAssumption
  <1> DEFINE sum == u + (Weight - 1) * ema + (Weight - 1)
  <1>2. sum \in Nat /\ Weight \in Nat \ {0}
    BY <1>1, AdmissionAssumption
  <1>3. sum \div Weight \in Nat
    <2> HIDE DEF sum
    <2> QED BY <1>2
  <1> QED
    BY <1>3 DEF Blend

LEMMA QueueShareType ==
    ASSUME NEW n \in Counts
    PROVE  QueueShare(n) \in Nat
  <1>1. n \in Nat \ {0} /\ QueueBudget \in Nat
    BY AdmissionAssumption
  <1>2. QueueBudget \div n \in Nat
    BY <1>1
  <1> QED
    BY <1>2 DEF QueueShare, Higher

LEMMA StepType == Step \in Nat /\ LowestCap \in Nat
  <1>1. StressMargin \div 2 \in Nat
    BY AdmissionAssumption
  <1> QED
    BY <1>1, AdmissionAssumption DEF Step, LowestCap, Lower

\* Whatever the new average is, adjustThreshold keeps the cap in its band and
\* the timer honest, and raises the cap only on a calm that lasted.
LEMMA AdjustKeeps ==
    ASSUME cap \in Nat, calm \in {None} \cup 0 .. CalmDuration,
           coldFor \in 0 .. CalmDuration, CapInBand, TimerIsHonest,
           ema' \in Nat,
           Tighten(ema') \/ Relax(ema') \/ StayCalm(ema') \/ Hold(ema'),
           coldFor' = IF ema' >= SoftCachePct \/ cap' # cap THEN 0 ELSE coldFor
    PROVE  /\ cap' \in Nat /\ calm' \in {None} \cup 0 .. CalmDuration
           /\ coldFor' \in 0 .. CalmDuration
           /\ CapInBand' /\ TimerIsHonest'
           /\ cap' > cap => coldFor >= CalmDuration /\ ema' < SoftCachePct
  <1> USE AdmissionAssumption, StepType DEF None
  <1>1. CASE Tighten(ema')
    <2>1. /\ cap' = Lower(cap, Higher(cap - StressMargin, MinHardCachePct))
          /\ calm' = None
      BY <1>1 DEF Tighten
    <2>2. cap' \in Nat /\ cap' <= cap /\ LowestCap <= cap'
      BY <2>1 DEF CapInBand, LowestCap, Lower, Higher
    <2> QED
      BY <2>1, <2>2 DEF CapInBand, TimerIsHonest
  <1>2. CASE Relax(ema')
    <2>1. /\ ema' < SoftCachePct
          /\ CalmNow >= CalmDuration /\ cap < HardCachePct
          /\ cap' = Lower(cap + Step, HardCachePct)
          /\ calm' = 0
      BY <1>2 DEF Relax
    <2>2. cap' \in Nat /\ cap <= cap' /\ cap' <= HardCachePct
      BY <2>1 DEF Lower
    <2>3. coldFor >= CalmDuration
      BY <2>1 DEF CalmNow, TimerIsHonest
    <2> QED
      BY <2>1, <2>2, <2>3 DEF CapInBand, TimerIsHonest
  <1>3. CASE StayCalm(ema')
    <2>1. ema' < SoftCachePct /\ calm' = CalmNow /\ cap' = cap
      BY <1>3 DEF StayCalm
    <2>2. CalmNow \in 0 .. CalmDuration /\ CalmNow <= coldFor
      BY DEF CalmNow, TimerIsHonest
    <2> QED
      BY <2>1, <2>2 DEF CapInBand, TimerIsHonest
  <1>4. CASE Hold(ema')
    <2>1. ema' >= SoftCachePct /\ calm' = None /\ cap' = cap
      BY <1>4 DEF Hold
    <2> QED
      BY <2>1 DEF CapInBand, TimerIsHonest
  <1> QED
    BY <1>1, <1>2, <1>3, <1>4

----
\* A poll's bookkeeping is typed, and takes the staleness off a request.
LEMMA RecordedKeeps ==
    ASSUME TypeOK, NEW s \in [hasUsage : BOOLEAN, waiting : Waits \cup {0}],
           NEW n \in Counts, Recorded(s, n)
    PROVE  /\ age' \in {None} \cup 0 .. MaxAge + 1
           /\ sample' \in [hasUsage : BOOLEAN, waiting : Waits \cup {0}]
           /\ depth' \in Nat
           /\ polled' \in {"nothing", "queue", "usage"}
           /\ poller' \in {"new", "running", "done"}
           /\ call' \in Calls
           /\ StaleIsSeen'
  <1>1. age' = 0 /\ sample' = s /\ depth' = QueueShare(n) /\ poller' = poller
    BY DEF Recorded
  <1>2. age' \in {None} \cup 0 .. MaxAge + 1
    BY <1>1 DEF MaxAge
  <1>3. polled' \in {"nothing", "queue", "usage"}
    BY Zenon DEF Recorded
  <1>4. call' = [call EXCEPT !.stale = FALSE] /\ call \in Calls
    BY DEF Recorded, TypeOK
  <1>5. call' \in Calls /\ ~call'.stale
    BY <1>4 DEF Calls
  <1> QED
    BY <1>1, <1>2, <1>3, <1>5, QueueShareType DEF TypeOK, StaleIsSeen

\* One step of a request inside Allow: the state stays, the request moves on.
LEMMA CallKeepsInv ==
    ASSUME AdmissionInv, CallKeeps, call' \in Calls, StaleIsSeen'
    PROVE  AdmissionInv'
  BY DEF AdmissionInv, CallKeeps, state, TypeOK, CapInBand, TimerIsHonest, None

LEMMA CallStepKeeps ==
    ASSUME AdmissionInv, Ask \/ CallStep
    PROVE  AdmissionInv'
  <1>1. call \in Calls /\ age \in {None} \cup 0 .. MaxAge + 1 /\ StaleIsSeen
    BY DEF AdmissionInv, TypeOK
  <1>2. ema \in Nat
    BY DEF AdmissionInv, TypeOK
  <1>3. CallKeeps
    BY DEF Ask, CallStep, CheckAge, ReadUsage, CompareCap, CompareQueue, Return
  <1>4. age' = age
    BY <1>3 DEF CallKeeps, state
  <1>5. CASE Ask
    <2>1. CASE call' = [pc |-> "admitted", pct |-> 0, stale |-> FALSE]
      BY <1>3, <2>1, CallKeepsInv DEF Calls, StaleIsSeen
    <2>2. CASE call' = [pc |-> "found", pct |-> 0, stale |-> age > MaxAge]
      <3>1. call' \in Calls
        BY <2>2 DEF Calls
      <3>2. StaleIsSeen'
        BY <1>4, <2>2 DEF StaleIsSeen, MaxAge
      <3> QED
        BY <1>3, <3>1, <3>2, CallKeepsInv
    <2> QED
      BY <1>5, <2>1, <2>2 DEF Ask
  <1>6. CASE CheckAge
    <2>1. CASE age > MaxAge
      <3>1. call' = [call EXCEPT !.pc = "admitted"]
        BY <1>6, <2>1 DEF CheckAge, Answer
      <3>2. call' \in Calls /\ call'.pc = "admitted"
        BY <1>1, <3>1 DEF Calls
      <3> QED
        BY <1>3, <3>2, CallKeepsInv DEF StaleIsSeen
    <2>2. CASE ~(age > MaxAge)
      <3>1. call.pc = "found" /\ call' = [call EXCEPT !.pc = "fresh"]
        BY <1>6, <2>2 DEF CheckAge, Answer
      <3>2. call' \in Calls /\ call'.stale = call.stale
        BY <1>1, <3>1 DEF Calls
      <3>3. ~call.stale
        BY <1>1, <2>2, <3>1 DEF StaleIsSeen
      <3> QED
        BY <1>3, <3>2, <3>3, CallKeepsInv DEF StaleIsSeen
    <2> QED
      BY <2>1, <2>2
  <1>7. CASE ReadUsage
    <2>1. call.pc = "fresh" /\ call' = [call EXCEPT !.pc = "read", !.pct = ema]
      BY <1>7 DEF ReadUsage
    <2>2. call' \in Calls /\ call'.stale = call.stale /\ ~call.stale
      BY <1>1, <1>2, <2>1 DEF Calls, StaleIsSeen
    <2> QED
      BY <1>3, <2>2, CallKeepsInv DEF StaleIsSeen
  <1>8. CASE CompareCap
    <2>1. PICK pc \in {"shed", "below"} : call.pc = "read" /\ call' = [call EXCEPT !.pc = pc]
      BY <1>8 DEF CompareCap, Answer
    <2>2. call' \in Calls /\ call'.stale = call.stale /\ ~call.stale
      BY <1>1, <2>1 DEF Calls, StaleIsSeen
    <2> QED
      BY <1>3, <2>2, CallKeepsInv DEF StaleIsSeen
  <1>9. CASE CompareQueue
    <2>1. PICK pc \in {"shed", "admitted"} : call.pc = "below" /\ call' = [call EXCEPT !.pc = pc]
      BY <1>9 DEF CompareQueue, Answer
    <2>2. call' \in Calls /\ call'.stale = call.stale /\ ~call.stale
      BY <1>1, <2>1 DEF Calls, StaleIsSeen
    <2> QED
      BY <1>3, <2>2, CallKeepsInv DEF StaleIsSeen
  <1>10. CASE Return
    <2>1. call' \in Calls /\ ~call'.stale
      BY <1>10 DEF Return, Idle, Calls
    <2> QED
      BY <1>3, <2>1, CallKeepsInv DEF StaleIsSeen
  <1> QED
    BY <1>5, <1>6, <1>7, <1>8, <1>9, <1>10 DEF CallStep
----
\* A sample with the cache gauge: the average, the cap and the timer move.
LEMMA ObserveKeeps ==
    ASSUME AdmissionInv, NEW u \in Samples, NEW w \in Waits, NEW n \in Counts,
           Observe(u, w, n)
    PROVE  /\ AdmissionInv'
           /\ cap' > cap => coldFor >= CalmDuration /\ ema' < SoftCachePct
  <1> DEFINE s == [hasUsage |-> TRUE, waiting |-> w]
  <1>1. s \in [hasUsage : BOOLEAN, waiting : Waits \cup {0}] /\ Recorded(s, n)
    BY DEF Observe
  <1>2. ema \in Nat /\ u \in Nat
    BY AdmissionAssumption DEF AdmissionInv, TypeOK
  <1>3. ema' \in Nat
    BY <1>2, BlendType DEF Observe
  <1>4. /\ cap' \in Nat /\ calm' \in {None} \cup 0 .. CalmDuration
        /\ coldFor' \in 0 .. CalmDuration
        /\ CapInBand' /\ TimerIsHonest'
        /\ cap' > cap => coldFor >= CalmDuration /\ ema' < SoftCachePct
    BY <1>3, AdjustKeeps DEF AdmissionInv, TypeOK, Observe
  <1> HIDE DEF s
  <1>5. /\ age' \in {None} \cup 0 .. MaxAge + 1
        /\ sample' \in [hasUsage : BOOLEAN, waiting : Waits \cup {0}]
        /\ depth' \in Nat
        /\ polled' \in {"nothing", "queue", "usage"}
        /\ poller' \in {"new", "running", "done"}
        /\ call' \in Calls
        /\ StaleIsSeen'
    BY <1>1, RecordedKeeps DEF AdmissionInv
  <1> QED
    BY <1>3, <1>4, <1>5 DEF AdmissionInv, TypeOK

LEMMA ObserveNoCacheKeeps ==
    ASSUME AdmissionInv, NEW w \in Waits, NEW n \in Counts, ObserveNoCache(w, n)
    PROVE  AdmissionInv'
  <1> DEFINE s == [hasUsage |-> FALSE, waiting |-> w]
  <1>1. s \in [hasUsage : BOOLEAN, waiting : Waits \cup {0}] /\ Recorded(s, n)
    BY DEF ObserveNoCache
  <1>2. ema' = ema /\ cap' = cap /\ calm' = calm /\ coldFor' = coldFor
    BY DEF ObserveNoCache
  <1> HIDE DEF s
  <1>3. /\ age' \in {None} \cup 0 .. MaxAge + 1
        /\ sample' \in [hasUsage : BOOLEAN, waiting : Waits \cup {0}]
        /\ depth' \in Nat
        /\ polled' \in {"nothing", "queue", "usage"}
        /\ poller' \in {"new", "running", "done"}
        /\ call' \in Calls
        /\ StaleIsSeen'
    BY <1>1, RecordedKeeps DEF AdmissionInv
  <1> QED
    BY <1>2, <1>3 DEF AdmissionInv, TypeOK, CapInBand, TimerIsHonest

LEMMA IntervalKeeps ==
    ASSUME AdmissionInv, IntervalPasses
    PROVE  AdmissionInv'
  <1>1. UNCHANGED <<ema, cap, sample, depth, poller, call>> /\ polled' = "nothing"
    BY DEF IntervalPasses
  <1>2. age' = IF age = None THEN None ELSE Lower(age + 1, MaxAge + 1)
    BY DEF IntervalPasses
  <1>3. /\ age' \in {None} \cup 0 .. MaxAge + 1
        /\ age > MaxAge => age' > MaxAge
    BY <1>2 DEF AdmissionInv, TypeOK, Lower, MaxAge, None
  <1>4. /\ calm' \in {None} \cup 0 .. CalmDuration
        /\ coldFor' \in 0 .. CalmDuration
        /\ TimerIsHonest'
    <2>1. /\ calm \in {None} \cup 0 .. CalmDuration /\ coldFor \in 0 .. CalmDuration
          /\ TimerIsHonest
      BY DEF AdmissionInv, TypeOK
    <2>2. /\ calm' = IF calm = None THEN None ELSE Lower(calm + 1, CalmDuration)
          /\ coldFor' = Lower(coldFor + 1, CalmDuration)
      BY DEF IntervalPasses
    <2>3. CalmDuration \in Nat
      BY AdmissionAssumption
    <2> QED
      BY <2>1, <2>2, <2>3 DEF TimerIsHonest, Lower, None
  <1>5. StaleIsSeen'
    BY <1>1, <1>3 DEF AdmissionInv, StaleIsSeen
  <1> QED
    BY <1>1, <1>3, <1>4, <1>5 DEF AdmissionInv, TypeOK, CapInBand

LEMMA AdmissionInit == Init => AdmissionInv
  <1> SUFFICES ASSUME Init
               PROVE  AdmissionInv
    OBVIOUS
  <1>1. call \in Calls /\ ~call.stale
    BY DEF Init, Idle, Calls
  <1>2. CapInBand
    BY AdmissionAssumption DEF Init, CapInBand, LowestCap, Lower
  <1>3. TypeOK
    BY <1>1, AdmissionAssumption DEF Init, TypeOK
  <1> QED
    BY <1>1, <1>2, <1>3 DEF AdmissionInv, StaleIsSeen, TimerIsHonest, Init, None

LEMMA AdmissionStep == AdmissionInv /\ [Next]_vars => AdmissionInv'
  <1> SUFFICES ASSUME AdmissionInv, [Next]_vars
               PROVE  AdmissionInv'
    OBVIOUS
  <1>1. ASSUME NEW w \in Waits, NEW n \in Counts, ObserveNoCache(w, n)
        PROVE  AdmissionInv'
    BY <1>1, ObserveNoCacheKeeps
  <1>2. ASSUME NEW u \in Samples, NEW w \in Waits, NEW n \in Counts, Observe(u, w, n)
        PROVE  AdmissionInv'
    BY <1>2, ObserveKeeps
  <1>3. CASE Start \/ Stop
    BY <1>3 DEF Start, Stop, state, AdmissionInv, TypeOK, CapInBand, TimerIsHonest, StaleIsSeen
  <1>4. CASE IntervalPasses
    BY <1>4, IntervalKeeps
  <1>5. CASE Ask \/ CallStep
    BY <1>5, CallStepKeeps
  <1>6. CASE UNCHANGED vars
    BY <1>6 DEF vars, state, AdmissionInv, TypeOK, CapInBand, TimerIsHonest, StaleIsSeen
  <1> QED
    BY <1>1, <1>2, <1>3, <1>4, <1>5, <1>6 DEF Next

\* The state of the circuit breaker is well typed, whatever the configuration.
THEOREM TypeCorrect == Spec => []TypeOK
  <1>1. AdmissionInv => TypeOK
    BY DEF AdmissionInv
  <1> QED
    BY <1>1, AdmissionInit, AdmissionStep, PTL DEF Spec

\* The cap never leaves its band, even with a floor above the configured cap.
THEOREM CapStaysInBand == Spec => []CapInBand
  <1>1. AdmissionInv => CapInBand
    BY DEF AdmissionInv
  <1> QED
    BY <1>1, AdmissionInit, AdmissionStep, PTL DEF Spec

\* A request that found the telemetry stale is never shed, however the polls
\* and the clock move between its reads.
THEOREM StaleIsAdmitted == Spec => []StaleAdmits
  <1>1. AdmissionInv => StaleAdmits
    BY DEF AdmissionInv, StaleIsSeen, StaleAdmits
  <1> QED
    BY <1>1, AdmissionInit, AdmissionStep, PTL DEF Spec

\* The cap is raised only after a calm of CalmDuration that nothing interrupted.
THEOREM RaiseFollowsCalm == Spec => RaiseNeedsCalm
  <1> DEFINE Raise == cap' > cap => coldFor >= CalmDuration /\ ema' < SoftCachePct
  <1>1. AdmissionInv /\ [Next]_vars => [Raise]_vars
    <2> SUFFICES ASSUME AdmissionInv, Next
                 PROVE  Raise
      OBVIOUS
    <2>1. cap \in Nat
      BY DEF AdmissionInv, TypeOK
    <2>2. ASSUME NEW u \in Samples, NEW w \in Waits, NEW n \in Counts, Observe(u, w, n)
          PROVE  Raise
      BY <2>2, ObserveKeeps
    <2>3. ASSUME cap' = cap
          PROVE  Raise
      BY <2>1, <2>3
    <2>4. CASE Start \/ Stop \/ Ask \/ CallStep \/ IntervalPasses
      <3>1. cap' = cap
        BY <2>4 DEF Start, Stop, Ask, CallStep, CheckAge, ReadUsage, CompareCap,
                    CompareQueue, Return, CallKeeps, IntervalPasses, state
      <3> QED
        BY <2>3, <3>1
    <2>5. ASSUME NEW w \in Waits, NEW n \in Counts, ObserveNoCache(w, n)
          PROVE  Raise
      <3>1. cap' = cap
        BY <2>5 DEF ObserveNoCache
      <3> QED
        BY <2>3, <3>1
    <2> HIDE DEF Raise
    <2> QED
      BY <2>2, <2>4, <2>5 DEF Next
  <1> QED
    BY <1>1, AdmissionInit, AdmissionStep, PTL DEF Spec, RaiseNeedsCalm

----
(* The way back.                                                            *)

\* A margin of nothing never moves the cap.
MarginMoves == StressMargin = 0 => Restored

\* A sample under which the average is quiet lowers nothing and restarts
\* nothing, but for the calm after a raise.
LEMMA QuietAdjusts ==
    ASSUME AdmissionInv, MarginMoves, ema' \in Nat, Quiet', Calm',
           Tighten(ema') \/ Relax(ema') \/ StayCalm(ema') \/ Hold(ema')
    PROVE  cap' >= cap /\ (cap' = cap => calm' >= calm)
  <1> USE DEF None
  <1>1. /\ cap \in Nat /\ calm \in {None} \cup 0 .. CalmDuration /\ LowestCap <= cap
        /\ CalmDuration \in Nat /\ HardCachePct \in Nat /\ cap <= HardCachePct
    BY AdmissionAssumption DEF AdmissionInv, TypeOK, CapInBand
  <1>2. ~Stressed(ema')
    <2>1. LowestCap \in Nat
      BY StepType
    <2>2. ema' < (9 * LowestCap) \div 10
      BY DEF Quiet, QuietBelow
    <2>3. \A n \in Nat : n \div 10 \in Nat /\ 10 * (n \div 10) <= n
      OBVIOUS
    <2>4. 9 * LowestCap \in Nat
      BY <2>1
    <2> DEFINE band == (9 * LowestCap) \div 10
    <2>5. band \in Nat /\ 10 * band <= 9 * LowestCap /\ ema' < band
      BY <2>2, <2>3, <2>4
    <2> HIDE DEF band
    <2>6. \A e, b, l, c \in Nat : 10 * b <= 9 * l /\ e < b /\ l <= c => ~(10 * e >= 9 * c)
      OBVIOUS
    <2>7. ~(10 * ema' >= 9 * cap)
      BY <1>1, <2>1, <2>5, <2>6
    <2> QED
      BY <2>7 DEF Stressed
  <1>3. ~Tighten(ema') /\ ~Hold(ema')
    <2>1. ema' < SoftCachePct /\ SoftCachePct \in Nat
      BY AdmissionAssumption DEF Calm
    <2> QED
      BY <1>2, <2>1 DEF Tighten, Hold
  <1>4. CASE Relax(ema')
    <2>1. cap < HardCachePct /\ cap' = Lower(cap + Step, HardCachePct)
      BY <1>4 DEF Relax
    <2>2. Step \in Nat \ {0}
      <3>1. StressMargin # 0
        BY <1>1, <2>1 DEF MarginMoves, Restored
      <3>2. StressMargin = 2 * (StressMargin \div 2)
        BY AdmissionAssumption
      <3> QED
        BY <3>1, <3>2, StepType DEF Step
    <2>3. cap' > cap
      BY <1>1, <2>1, <2>2 DEF Lower
    <2>4. cap' \in Nat
      BY <1>1, <2>1, <2>2 DEF Lower
    <2>5. cap' >= cap /\ cap' # cap
      BY <1>1, <2>3, <2>4
    <2> QED
      BY <2>5
  <1>5. CASE StayCalm(ema')
    BY <1>1, <1>5 DEF StayCalm, CalmNow
  <1> QED
    BY <1>3, <1>4, <1>5

LEMMA MarginStep == AdmissionInv /\ MarginMoves /\ [Next]_vars => MarginMoves'
  <1> SUFFICES ASSUME AdmissionInv, MarginMoves, [Next]_vars, StressMargin = 0
               PROVE  Restored'
    BY DEF MarginMoves
  <1>1. cap = HardCachePct /\ cap \in Nat
    BY DEF MarginMoves, Restored, AdmissionInv, TypeOK
  <1>2. ASSUME NEW u \in Samples, NEW w \in Waits, NEW n \in Counts, Observe(u, w, n)
        PROVE  cap' = cap
    <2>1. CASE Tighten(ema')
      <3>1. cap' = Lower(cap, Higher(cap - 0, MinHardCachePct))
        BY <2>1 DEF Tighten
      <3> QED
        BY <1>1, <3>1, AdmissionAssumption DEF Lower, Higher
    <2>2. ~Relax(ema')
      BY <1>1 DEF Relax
    <2>3. StayCalm(ema') \/ Hold(ema') => cap' = cap
      BY DEF StayCalm, Hold
    <2> QED
      BY <1>2, <2>1, <2>2, <2>3 DEF Observe
  <1>3. ASSUME NEW w \in Waits, NEW n \in Counts, ObserveNoCache(w, n)
        PROVE  cap' = cap
    BY <1>3 DEF ObserveNoCache
  <1>4. Start \/ Stop \/ Ask \/ CallStep \/ IntervalPasses \/ UNCHANGED vars => cap' = cap
    BY DEF Start, Stop, Ask, CallStep, CheckAge, ReadUsage, CompareCap, CompareQueue, Return,
           CallKeeps, IntervalPasses, state, vars
  <1> QED
    BY <1>1, <1>2, <1>3, <1>4 DEF Next, Restored

\* While the average is quiet the cap's way back is never lengthened.  With
\* the next poll it is shortened, which is what the liveness of it rests on.
THEOREM QuietHeals == Spec => QuietSetsNothingBack
  <1> DEFINE Heals == Quiet' /\ Calm' => cap' >= cap /\ (cap' = cap => calm' >= calm)
  <1>1. Init => MarginMoves
    BY DEF Init, MarginMoves, Restored
  <1>2. AdmissionInv /\ MarginMoves /\ [Next]_vars => [Heals]_vars
    <2> SUFFICES ASSUME AdmissionInv, MarginMoves, Next, Quiet', Calm'
                 PROVE  cap' >= cap /\ (cap' = cap => calm' >= calm)
      OBVIOUS
    <2>1. cap \in Nat /\ calm \in {None} \cup 0 .. CalmDuration /\ CalmDuration \in Nat
      BY AdmissionAssumption DEF AdmissionInv, TypeOK
    <2>2. ASSUME NEW u \in Samples, NEW w \in Waits, NEW n \in Counts, Observe(u, w, n)
          PROVE  cap' >= cap /\ (cap' = cap => calm' >= calm)
      <3>1. ema' \in Nat
        BY <2>2, ObserveKeeps DEF AdmissionInv, TypeOK
      <3> QED
        BY <2>2, <3>1, QuietAdjusts DEF Observe
    <2>3. ASSUME cap' = cap, calm' = calm
          PROVE  cap' >= cap /\ (cap' = cap => calm' >= calm)
      BY <2>1, <2>3 DEF None
    <2>4. CASE Start \/ Stop \/ Ask \/ CallStep
      BY <2>3, <2>4 DEF Start, Stop, Ask, CallStep, CheckAge, ReadUsage, CompareCap,
                        CompareQueue, Return, CallKeeps, state
    <2>5. ASSUME NEW w \in Waits, NEW n \in Counts, ObserveNoCache(w, n)
          PROVE  cap' >= cap /\ (cap' = cap => calm' >= calm)
      BY <2>3, <2>5 DEF ObserveNoCache
    <2>6. CASE IntervalPasses
      <3>1. cap' = cap /\ calm' = IF calm = None THEN None ELSE Lower(calm + 1, CalmDuration)
        BY <2>6 DEF IntervalPasses
      <3> QED
        BY <2>1, <3>1 DEF Lower, None
    <2> QED
      BY <2>2, <2>4, <2>5, <2>6 DEF Next
  <1> QED
    BY <1>1, <1>2, AdmissionInit, AdmissionStep, MarginStep, PTL
    DEF Spec, QuietSetsNothingBack
=============================================================================
