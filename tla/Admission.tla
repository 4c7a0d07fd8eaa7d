----------------------------- MODULE Admission ------------------------------
(***************************************************************************)
(* The host-aware circuit breaker (core/admission/admission.go, poller.go) *)
(* for one model: a poller feeds it samples of the model's cache usage,    *)
(* which move a smoothed usage and a hard cap; a request asks Allow, which *)
(* reads that state without the lock, so the poller may write between any  *)
(* two of its reads.                                                       *)
(*                                                                         *)
(* Percentages are counted in any unit, time in polling intervals, and a   *)
(* time as the intervals since, as far as the code tells them apart.  The  *)
(* smoothed usage is a float in the code; here it is rounded up, so that,  *)
(* as there, it does not decay to 0.                                       *)
(***************************************************************************)
EXTENDS Integers

CONSTANTS
    HardCachePct,     \* the configured cap, the cap's ceiling
    SoftCachePct,     \* below this the model is calm
    MinHardCachePct,  \* the cap's floor
    StressMargin,     \* how far one stressed sample lowers the cap
    CalmDuration,     \* calm polls before the cap is raised
    Weight,           \* EMAAlpha = 1 / Weight
    QueueBudget,      \* requests the host's VRAM may queue, over all models
    Samples,          \* cache usages a model may report
    Waits,            \* queue lengths a model may report
    Counts            \* numbers of running models the lister may report

ASSUME AdmissionAssumption ==
    /\ {HardCachePct, SoftCachePct, MinHardCachePct, CalmDuration, QueueBudget} \subseteq Nat
    /\ StressMargin \in Nat /\ StressMargin % 2 = 0
    /\ Weight \in Nat \ {0}
    /\ Samples \subseteq Nat
    /\ Waits \subseteq Nat
    /\ Counts \subseteq Nat \ {0}

None == -1

VARIABLES
    ema,          \* cacheUsageEMA
    cap,          \* hardThresholdPct
    calm,         \* polls since calmSince, None when it is zero
    age,          \* polls since updatedAt, None before the first sample
    sample,       \* lastSample: whether it has the cache gauge, its queue
    depth,        \* maxQueueDepth
    polled,       \* what the poller has recorded in this interval
    poller,       \* Start and Stop
    call,         \* a request inside Allow
    coldFor       \* history: polls since the last sample above soft, or raise

state == <<ema, cap, calm, age, sample, depth>>
vars == <<state, polled, poller, call, coldFor>>

MaxAge == 3   \* Allow takes telemetry older than 3 polling intervals for stale

Step == StressMargin \div 2

Lower(a, b) == IF a < b THEN a ELSE b
Higher(a, b) == IF a > b THEN a ELSE b

LowestCap == Lower(MinHardCachePct, HardCachePct)

----
Idle == [pc |-> "idle", pct |-> 0, stale |-> FALSE]

Calls == [pc : {"idle", "found", "fresh", "read", "below", "admitted", "shed"},
          pct : Nat,
          stale : BOOLEAN]   \* history: telemetry was stale from the call's start on

TypeOK ==
    /\ ema \in Nat
    /\ cap \in Nat
    /\ calm \in {None} \cup 0 .. CalmDuration
    /\ age \in {None} \cup 0 .. MaxAge + 1
    /\ sample \in [hasUsage : BOOLEAN, waiting : Waits \cup {0}]
    /\ depth \in Nat
    /\ polled \in {"nothing", "queue", "usage"}
    /\ poller \in {"new", "running", "done"}
    /\ call \in Calls
    /\ coldFor \in 0 .. CalmDuration

Init ==
    /\ ema = 0
    /\ cap = HardCachePct
    /\ calm = None
    /\ age = None
    /\ sample = [hasUsage |-> FALSE, waiting |-> 0]
    /\ depth = 0
    /\ polled = "nothing"
    /\ poller = "new"
    /\ call = Idle
    /\ coldFor = 0

----
(* observe                                                                  *)

\* A sample that seeds the average, or is blended into it.
Blend(usage) ==
    IF ema = 0 THEN usage
    ELSE (usage + (Weight - 1) * ema + (Weight - 1)) \div Weight

Stressed(e) == 10 * e >= 9 * cap

\* Faulty variant: the floor is forgotten.
TightenNoFloor(e) ==
    /\ Stressed(e)
    /\ cap' = cap - StressMargin
    /\ calm' = None

\* adjustThreshold: stressed, the cap goes down and the calm is over.
Tighten(e) ==
    /\ Stressed(e)
    /\ cap' = Lower(cap, Higher(cap - StressMargin, MinHardCachePct))
    /\ calm' = None

CalmNow == IF calm = None THEN 0 ELSE calm

\* adjustThreshold: calm for long enough, the cap takes a step up.
Relax(e) ==
    /\ ~Stressed(e)
    /\ e < SoftCachePct
    /\ CalmNow >= CalmDuration /\ cap < HardCachePct
    /\ cap' = Lower(cap + Step, HardCachePct)
    /\ calm' = 0

\* Faulty variant: polls are counted instead of timed, and nothing stops it.
StayCalmCount(e) ==
    /\ ~Stressed(e)
    /\ e < SoftCachePct
    /\ ~(CalmNow >= CalmDuration /\ cap < HardCachePct)
    /\ calm' = CalmNow + 1
    /\ UNCHANGED cap

\* Faulty variant: every calm sample starts the calm anew.
StayCalmAnew(e) ==
    /\ ~Stressed(e)
    /\ e < SoftCachePct
    /\ ~(CalmNow >= CalmDuration /\ cap < HardCachePct)
    /\ calm' = 0
    /\ UNCHANGED cap

\* Calm, but not for long enough, or the cap is where it belongs.
StayCalm(e) ==
    /\ ~Stressed(e)
    /\ e < SoftCachePct
    /\ ~(CalmNow >= CalmDuration /\ cap < HardCachePct)
    /\ calm' = CalmNow
    /\ UNCHANGED cap

\* Faulty variant: between soft and stress the calm timer runs on.
HoldCalm(e) ==
    /\ ~Stressed(e)
    /\ e >= SoftCachePct
    /\ UNCHANGED <<cap, calm>>

\* adjustThreshold: between soft and stress nothing moves, the calm is over.
Hold(e) ==
    /\ ~Stressed(e)
    /\ e >= SoftCachePct
    /\ calm' = None
    /\ UNCHANGED cap

\* computeQueueDepth: each running model gets the same share, at least one.
QueueShare(n) ==
    IF QueueBudget = 0 THEN 0 ELSE Higher(QueueBudget \div n, 1)

Recorded(s, n) ==
    /\ poller = "running"
    /\ polled = "nothing"
    /\ polled' = IF s.hasUsage THEN "usage" ELSE "queue"
    /\ sample' = s
    /\ age' = 0
    /\ depth' = QueueShare(n)
    /\ call' = [call EXCEPT !.stale = FALSE]
    /\ UNCHANGED poller

\* A sample without the cache gauge leaves the average and the cap alone.
ObserveNoCache(w, n) ==
    /\ Recorded([hasUsage |-> FALSE, waiting |-> w], n)
    /\ UNCHANGED <<ema, cap, calm, coldFor>>

Observe(u, w, n) ==
    /\ Recorded([hasUsage |-> TRUE, waiting |-> w], n)
    /\ ema' = Blend(u)
    /\ \/ Tighten(ema')
       \/ Relax(ema')
       \/ StayCalm(ema')
       \/ Hold(ema')
    /\ coldFor' = IF ema' >= SoftCachePct \/ cap' # cap THEN 0 ELSE coldFor

----
(* The poller's life.  A list or a fetch that fails records nothing.        *)

Start ==
    /\ poller = "new"
    /\ poller' = "running"
    /\ UNCHANGED <<state, polled, call, coldFor>>

\* Stop cancels the poller and waits until it has returned.
Stop ==
    /\ poller = "running"
    /\ poller' = "done"
    /\ UNCHANGED <<state, polled, call, coldFor>>

\* The next polling interval.
IntervalPasses ==
    /\ polled' = "nothing"
    /\ age' = IF age = None THEN None ELSE Lower(age + 1, MaxAge + 1)
    /\ calm' = IF calm = None THEN None ELSE Lower(calm + 1, CalmDuration)
    /\ coldFor' = Lower(coldFor + 1, CalmDuration)
    /\ UNCHANGED <<ema, cap, sample, depth, poller, call>>

----
(* Allow.  The lock is released before the first field is read.             *)

Answer(pc) == call' = [call EXCEPT !.pc = pc]

CallKeeps == UNCHANGED <<state, polled, poller, coldFor>>

Ask ==
    /\ call.pc = "idle"
    /\ IF age = None \/ ~sample.hasUsage
         THEN call' = [pc |-> "admitted", pct |-> 0, stale |-> FALSE]
         ELSE call' = [pc |-> "found", pct |-> 0, stale |-> age > MaxAge]
    /\ CallKeeps

\* Faulty variant: telemetry is believed whatever its age.
CheckAgeNever ==
    /\ call.pc = "found"
    /\ Answer("fresh")
    /\ CallKeeps

CheckAge ==
    /\ call.pc = "found"
    /\ Answer(IF age > MaxAge THEN "admitted" ELSE "fresh")
    /\ CallKeeps

ReadUsage ==
    /\ call.pc = "fresh"
    /\ call' = [call EXCEPT !.pc = "read", !.pct = ema]
    /\ CallKeeps

CompareCap ==
    /\ call.pc = "read"
    /\ Answer(IF call.pct >= cap THEN "shed" ELSE "below")
    /\ CallKeeps

CompareQueue ==
    /\ call.pc = "below"
    /\ Answer(IF depth > 0 /\ sample.waiting >= depth THEN "shed" ELSE "admitted")
    /\ CallKeeps

Return ==
    /\ call.pc \in {"admitted", "shed"}
    /\ call' = Idle
    /\ CallKeeps

CallStep == CheckAge \/ ReadUsage \/ CompareCap \/ CompareQueue \/ Return

Next ==
    \/ \E w \in Waits, n \in Counts : ObserveNoCache(w, n)
    \/ \E u \in Samples, w \in Waits, n \in Counts : Observe(u, w, n)
    \/ Start \/ Stop
    \/ IntervalPasses
    \/ Ask \/ CallStep

\* Time passes and a request that is inside Allow gets through it; nothing is
\* assumed of the poller, whose every poll may fail.
Spec == Init /\ [][Next]_vars /\ WF_vars(IntervalPasses) /\ WF_vars(CallStep)

----
(* Properties                                                               *)

\* The cap never leaves the band between the floor and the configured cap,
\* even where the floor is configured above the cap.
CapInBand == LowestCap <= cap /\ cap <= HardCachePct

\* The cap is raised only after CalmDuration without one sample that left the
\* average at or above soft, and without another raise or tightening.
RaiseNeedsCalm == [][cap' > cap => coldFor >= CalmDuration /\ ema' < SoftCachePct]_vars

\* A request that found the telemetry stale, with no sample coming in while it
\* was inside Allow, is admitted.
StaleAdmits == call.pc = "shed" => ~call.stale

\* When the poller records no more, there is a time after which no request is
\* shed: a stuck or stopped poller never turns the gateway into a black hole.
SilenceAdmits == <>[](polled = "nothing") => <>[](call.pc # "shed")

QuietBelow == (9 * LowestCap) \div 10
Quiet == ema < QuietBelow
Calm == ema < SoftCachePct
Restored == cap = HardCachePct

\* While polls go on and the average stays clear of the lowest stress band, the
\* cap comes back to its configured value.
QuietRestoresCap == []<>(polled = "usage") => (<>[]Quiet => <>[]Restored)

\* The cap's way back is never lengthened meanwhile: under a quiet average no
\* sample lowers the cap, nor starts the calm anew unless it raises the cap.
QuietSetsNothingBack ==
    [][Quiet' /\ Calm' => /\ cap' >= cap
                          /\ cap' = cap => calm' >= calm]_vars

\* "calm (EMA below soft for CalmDuration) -> restore hard cap to configured
\* value" (core/admission/admission.go:317)
CalmRestoresCap == []<>(polled = "usage") => (<>[]Calm => <>[]Restored)
=============================================================================
