---------------------------- MODULE EngineProofs -----------------------------
(***************************************************************************)
(* What holds of the engine room for any number of commands, models,       *)
(* containers and failures: the directory of models stays sound under the  *)
(* commands of the engine room, too, and the commands keep what Fleet      *)
(* promises.                                                               *)
(***************************************************************************)
EXTENDS Engine, ModelCacheProofs, WellFoundedInduction, TLAPS

----
(* The invariant                                                            *)

AfterRun == {"health", "record", "write", "linger", "rewrite"}

(* Where the command is when the cache waits for it.                        *)
AtDocker ==
    {"force", "force stop", "boot", "plan", "list", "clear", "run"}
        \cup AfterRun \cup Stopping

Fetching == InLoop \cup {"lookup", "discover", "finish", "truncate", "write", "done"}

(* The command l of the engine room and the process j of the cache.         *)
Agree(l, j) ==
    /\ l.pc = "ready" => j.pc \notin {"engine", "loaded"} /\ j.op \in {"none", "pull", "remove"}
    /\ l.pc \in AtDocker => j.pc = "engine"
    /\ l.pc = "cache" => j.pc \in {"load", "loaded"}
    /\ l.pc = "pull" => j.pc \in Fetching
    /\ l.pc = "done" => j.pc = "done"
    /\ l.pc \in Deploying => j.op = "deploy"
    /\ l.pc \in Stopping => j.op \in {"stop", "stop all"}
    /\ l.pc = "survey" => j.op = "stop all"
    /\ l.pc \notin {"ready"} => j.op \in {"deploy", "stop", "stop all"}
    /\ l.answer = "none" <=> l.pc # "done"

(* What is owed for t when it is stopped.                                   *)
Called(t) == IF t \in Models THEN Listed[t] ELSE t

Owing(l) == {Called(t) : t \in l.todo}

(* What a command relies on, of what it asked and read.                     *)
Relies(l, j) ==
    /\ l.pc \in {"force", "force stop"} => l.loose
    /\ j.op = "deploy" /\ l.pc \in Deploying \cup {"boot"} /\ ~l.loose => Plain(j.model)
    /\ l.pc = "clear" /\ ~l.loose => Listed[j.model] \notin l.elders
    /\ l.pc \in AfterRun => l.owed = {}
    /\ l.pc \in {"force stop", "halt", "erase"} => l.name \in Names
    /\ j.op = "stop" /\ l.pc \in {"boot"} \cup Stopping => l.todo \subseteq {j.model}
    /\ j.op = "stop" /\ l.pc = "halt" => l.name = Listed[j.model]
    /\ ~l.fails =>
          /\ l.pc \in {"query", "erase"} => l.owed \subseteq Owing(l)
          /\ l.pc = "boot" /\ j.op = "stop" => l.owed \subseteq Owing(l)
          /\ l.pc = "halt" => l.owed \subseteq Owing(l) \cup {l.name}

Alive(b) == b.state \in {"running", "restarting"}

(* The container b of the name n, if the command l ran it.                  *)
Ran(l, j, n, b) ==
    /\ l.pc \in AfterRun \cup {"done"}
    /\ j.op = "deploy" /\ n = Listed[j.model]
    /\ l.answer = "failed" /\ Alive(b) => l.loose

EngineInv ==
    /\ CacheInv
    /\ box \in [Names -> Boxes]
    /\ records \in [Models -> Nat]
    /\ launch \in [Procs -> Launches]
    /\ \A p \in Procs :
          /\ Agree(launch[p], job[p])
          /\ Relies(launch[p], job[p])
          /\ launch[p].elders \subseteq Up
    /\ \A p \in Procs, n \in Names :
          box[n].id = p => Ran(launch[p], job[p], n, box[n])

LEMMA EngineTypes ==
    /\ Procs \subseteq Nat /\ None \notin Procs
    /\ Listed \in [Models -> Names] /\ "none" \notin Names
    /\ \A m \in Models : m \in Names => Listed[m] = m
    /\ \A i \in Ports : i \in Nat /\ i # 0
    /\ MaxFaults \in Nat
  BY EngineAssumption, ModelCacheAssumption DEF Plain

LEMMA InvIsTypeOK == EngineInv /\ BasisInv => TypeOK
  BY DEF EngineInv, BasisInv, TypeOK, CacheInv, Agree, AtDocker, Fetching, Deploying, Stopping,
         AfterRun, InLoop

LEMMA EngineInvInit == Init => EngineInv
<1>. SUFFICES ASSUME NEW s \in Sessions, CacheInit(s), box = s.box, records = s.records,
                     launch = [p \in Procs |-> Unbegun]
              PROVE  EngineInv
  BY DEF Init
<1>1. /\ box \in [Names -> Boxes] /\ records \in [Models -> Nat]
      /\ \A n \in Names : box[n].id \notin Procs
  BY EngineAssumption
<1>2. \A p \in Procs : job[p] = Idle /\ launch[p] = Unbegun
  BY DEF CacheInit
<1>3. Unbegun \in Launches
  BY DEF Launches, Unbegun, NoRecords, None, Deploying, Stopping
<1>4. Agree(Unbegun, Idle) /\ Relies(Unbegun, Idle) /\ Unbegun.elders = {}
  BY DEF Agree, Relies, Unbegun, Idle, AtDocker, AfterRun, Stopping, Deploying
<1>. QED BY <1>1, <1>2, <1>3, <1>4, CacheInvInit DEF EngineInv

----
(* What a step of one command changes.                                      *)

(* The names in d are no longer elders.                                     *)
Less(k, d) == [k EXCEPT !.elders = k.elders \ d]

(* Turn, read off.                                                          *)
LEMMA Turned ==
    ASSUME NEW p \in Procs, NEW l \in Launches, NEW down, Turn(p, l, down),
           launch \in [Procs -> Launches]
    PROVE  /\ launch' \in [Procs -> Launches]
           /\ launch'[p] = Less(l, down)
           /\ \A q \in Procs \ {p} : launch'[q] = Less(launch[q], down)
<1>1. \A k \in Launches : Less(k, down) \in Launches
  BY DEF Launches, Less
<1>2. launch' = [q \in Procs |-> IF q = p THEN Less(l, down) ELSE Less(launch[q], down)]
  BY DEF Turn, Less
<1>. QED BY <1>1, <1>2

(* What the parts of the invariant that speak of one command depend on.     *)
LEMMA Fewer ==
    ASSUME NEW k \in Launches, NEW d
    PROVE  LET l == Less(k, d) IN
           /\ l.pc = k.pc /\ l.recs = k.recs /\ l.id = k.id /\ l.name = k.name
           /\ l.port = k.port /\ l.todo = k.todo /\ l.fails = k.fails
           /\ l.answer = k.answer /\ l.owed = k.owed /\ l.loose = k.loose
           /\ l.elders = k.elders \ d
           /\ \A j : Agree(l, j) <=> Agree(k, j)
           /\ \A j : Relies(k, j) => Relies(l, j)
           /\ \A j, n, b : Ran(l, j, n, b) <=> Ran(k, j, n, b)
<1>. DEFINE l == Less(k, d)
<1>1. /\ l.pc = k.pc /\ l.recs = k.recs /\ l.id = k.id /\ l.name = k.name
      /\ l.port = k.port /\ l.todo = k.todo /\ l.fails = k.fails
      /\ l.answer = k.answer /\ l.owed = k.owed /\ l.loose = k.loose
      /\ l.elders = k.elders \ d
  BY DEF Launches, Less
<1>. HIDE DEF l
<1>2. \A j : Agree(l, j) <=> Agree(k, j)
  BY <1>1 DEF Agree
<1>3. \A j : Relies(k, j) => Relies(l, j)
  BY ZenonT(30), <1>1 DEF Relies, Owing
<1>4. \A j, n, b : Ran(l, j, n, b) <=> Ran(k, j, n, b)
  BY <1>1 DEF Ran
<1>. QED BY <1>1, <1>2, <1>3, <1>4 DEF l

(* A step of p, which becomes the command l and the process j; the names in *)
(* down are no longer up.                                                   *)
LEMMA StepKeeps ==
    ASSUME EngineInv, CacheInv', NEW p \in Procs, NEW l \in Launches, NEW j \in Jobs,
           NEW down, Turn(p, l, down), job' = [job EXCEPT ![p] = j],
           box' \in [Names -> Boxes], records' \in [Models -> Nat],
           Up \ down \subseteq Up',
           \A n \in Names :
              \/ box'[n].id = None
              \/ box'[n].id = p
              \/ box'[n].id = box[n].id /\ (Alive(box'[n]) => Alive(box[n])),
           l.elders \subseteq Up,
           Agree(l, j), Relies(l, j),
           \A n \in Names : box'[n].id = p => Ran(l, j, n, box'[n])
    PROVE  EngineInv'
<1>0. launch \in [Procs -> Launches] /\ job \in [Procs -> Jobs]
  BY DEF EngineInv, CacheInv, CacheTypeOK
<1>1. /\ launch' \in [Procs -> Launches]
      /\ launch'[p] = Less(l, down)
      /\ \A q \in Procs \ {p} : launch'[q] = Less(launch[q], down)
  BY <1>0, Turned
<1>2. job'[p] = j /\ \A q \in Procs \ {p} : job'[q] = job[q]
  BY <1>0
<1>3. Agree(launch'[p], j) /\ Relies(launch'[p], j) /\ launch'[p].elders \subseteq Up'
      /\ \A n \in Names : box'[n].id = p => Ran(launch'[p], j, n, box'[n])
  <2>1. /\ launch'[p].elders = l.elders \ down
        /\ Agree(launch'[p], j) /\ Relies(launch'[p], j)
        /\ \A n, b : Ran(l, j, n, b) => Ran(launch'[p], j, n, b)
    BY ONLY <1>1, Fewer, Agree(l, j), Relies(l, j), l \in Launches
  <2>. QED BY <2>1
<1>4. ASSUME NEW q \in Procs \ {p}
      PROVE  /\ Agree(launch'[q], job'[q]) /\ Relies(launch'[q], job'[q])
             /\ launch'[q].elders \subseteq Up'
             /\ \A n \in Names : box'[n].id = q => Ran(launch'[q], job'[q], n, box'[n])
  <2>1. launch[q] \in Launches /\ Agree(launch[q], job[q]) /\ Relies(launch[q], job[q])
        /\ launch[q].elders \subseteq Up
    BY <1>0 DEF EngineInv
  <2>4. /\ Agree(launch'[q], job[q]) /\ Relies(launch'[q], job[q])
        /\ launch'[q].elders = launch[q].elders \ down
        /\ \A n, b : Ran(launch[q], job[q], n, b) => Ran(launch'[q], job[q], n, b)
    BY ONLY <1>1, <2>1, Fewer, q \in Procs \ {p}
  <2>2. launch'[q].elders \subseteq Up'
    BY <2>1, <2>4
  <2>3. ASSUME NEW n \in Names, box'[n].id = q PROVE Ran(launch[q], job[q], n, box'[n])
    <3>1. box[n].id = q /\ (Alive(box'[n]) => Alive(box[n]))
      BY <2>3, EngineTypes
    <3>2. Ran(launch[q], job[q], n, box[n])
      BY <3>1 DEF EngineInv
    <3>. QED BY <3>1, <3>2 DEF Ran
  <2>. QED BY <1>2, <2>2, <2>3, <2>4
<1>5. \A q \in Procs :
        /\ Agree(launch'[q], job'[q]) /\ Relies(launch'[q], job'[q])
        /\ launch'[q].elders \subseteq Up'
        /\ \A n \in Names : box'[n].id = q => Ran(launch'[q], job'[q], n, box'[n])
  BY <1>2, <1>3, <1>4
<1>. QED BY <1>1, <1>5 DEF EngineInv


----
(* What a step is in the eyes of Fleet.                                     *)

Unasked == [kind |-> "none", name |-> "none", owed |-> {}, elders |-> {},
            loose |-> FALSE, answer |-> "none"]

LEMMA SeenUp ==
    ASSUME NEW b \in Boxes
    PROVE  /\ Seen(b) \in {"up", "faltering", "down"}
           /\ Seen(b) = "up" <=> b.state = "running"
           /\ Seen(b) = "faltering" <=> b.state = "restarting"
           /\ Seen(b) # "down" <=> Alive(b)
  BY DEF Seen, Boxes, Alive

LEMMA UpIsUp == box \in [Names -> Boxes] => Promises!Up = Up
  BY SeenUp DEF Promises!Up, Up, Running, FleetState

(* Fleet sees the elders of Less(l, d) gone.                                *)
LEMMA AskedLess ==
    ASSUME NEW l \in Launches, NEW d, NEW j, l.pc # "ready"
    PROVE  Asked(Less(l, d), j) = [Asked(l, j) EXCEPT !.elders = @ \ d]
<1>. DEFINE k == Less(l, d)
<1>1. /\ k.pc = l.pc /\ k.owed = l.owed /\ k.elders = l.elders \ d
      /\ k.loose = l.loose /\ k.answer = l.answer
  BY Fewer
<1>. HIDE DEF k
<1>2. Asked(k, j) = [kind |-> j.op, name |-> Listed[j.model], owed |-> l.owed,
                     elders |-> l.elders \ d, loose |-> l.loose, answer |-> l.answer]
  BY <1>1 DEF Asked
<1>3. Asked(l, j) = [kind |-> j.op, name |-> Listed[j.model], owed |-> l.owed,
                     elders |-> l.elders, loose |-> l.loose, answer |-> l.answer]
  BY DEF Asked
<1>4. Asked(k, j) = [Asked(l, j) EXCEPT !.elders = @ \ d]
  BY <1>2, <1>3
<1>. QED BY <1>4 DEF k

Answers == {"none", "ok", "failed", "unfit", "killed"}

Asks ==
    [kind : {"none", "pull", "remove", "deploy", "stop", "stop all"},
     name : Names \cup {"none"}, owed : SUBSET Names, elders : SUBSET Names,
     loose : BOOLEAN, answer : Answers]

AskOf(k, n, o, e, s, a) ==
    [kind |-> k, name |-> n, owed |-> o, elders |-> e, loose |-> s, answer |-> a]

LEMMA AskIsItsFields ==
    ASSUME NEW r \in Asks
    PROVE  r = AskOf(r.kind, r.name, r.owed, r.elders, r.loose, r.answer)
  BY DEF AskOf, Asks

LEMMA AskSame ==
    ASSUME NEW r \in Asks, NEW u \in Asks, r.kind = u.kind, r.name = u.name,
           r.owed = u.owed, r.elders = u.elders, r.loose <=> u.loose, r.answer = u.answer
    PROVE  r = u
<1>1. r.loose \in BOOLEAN /\ u.loose \in BOOLEAN
  BY DEF Asks
<1>2. r.loose = u.loose
  BY <1>1
<1>. QED BY <1>2, AskIsItsFields

(* The changes Fleet makes to what a command was asked, field by field.     *)
Loosened(r) == [r EXCEPT !.loose = TRUE]

Owes(r, o) == [r EXCEPT !.owed = o]

Recalls(r, o) == [r EXCEPT !.owed = o, !.loose = TRUE]

Answered(r, a, s) == [r EXCEPT !.answer = a, !.elders = {}, !.loose = @ \/ s]

LEMMA LoosenedFields ==
    ASSUME NEW r \in Asks
    PROVE  LET u == Loosened(r)
           IN  /\ u \in Asks /\ u.kind = r.kind /\ u.name = r.name /\ u.owed = r.owed
               /\ u.elders = r.elders /\ u.loose = TRUE /\ u.answer = r.answer
  BY DEF Asks, Loosened

LEMMA OwesFields ==
    ASSUME NEW r \in Asks, NEW o \in SUBSET Names
    PROVE  LET u == Owes(r, o)
           IN  /\ u \in Asks /\ u.kind = r.kind /\ u.name = r.name /\ u.owed = o
               /\ u.elders = r.elders /\ u.loose = r.loose /\ u.answer = r.answer
  BY DEF Asks, Owes

LEMMA RecallsFields ==
    ASSUME NEW r \in Asks, NEW o \in SUBSET Names
    PROVE  LET u == Recalls(r, o)
           IN  /\ u \in Asks /\ u.kind = r.kind /\ u.name = r.name /\ u.owed = o
               /\ u.elders = r.elders /\ u.loose = TRUE /\ u.answer = r.answer
  BY DEF Asks, Recalls

LEMMA AnsweredFields ==
    ASSUME NEW r \in Asks, NEW s \in BOOLEAN, NEW a \in Answers
    PROVE  LET u == Answered(r, a, s)
           IN  /\ u \in Asks /\ u.kind = r.kind /\ u.name = r.name /\ u.owed = r.owed
               /\ u.elders = {} /\ (u.loose <=> r.loose \/ s) /\ u.answer = a
  BY DEF Asks, Answered

LEMMA IsLoosened ==
    ASSUME NEW r \in Asks, NEW v \in Asks,
           v.kind = r.kind, v.name = r.name, v.owed = r.owed, v.elders = r.elders,
           v.loose = TRUE, v.answer = r.answer
    PROVE  v = Loosened(r)
<1>. DEFINE u == Loosened(r)
<1>1. /\ u \in Asks /\ u.kind = r.kind /\ u.name = r.name /\ u.owed = r.owed
      /\ u.elders = r.elders /\ u.loose = TRUE /\ u.answer = r.answer
  BY LoosenedFields
<1>. HIDE DEF u
<1>2. v.loose <=> u.loose
  BY <1>1
<1>3. v = u
  BY <1>1, <1>2, AskSame
<1>. QED BY <1>3 DEF u

LEMMA IsOwing ==
    ASSUME NEW r \in Asks, NEW v \in Asks, NEW o \in SUBSET Names,
           v.kind = r.kind, v.name = r.name, v.owed = o, v.elders = r.elders,
           v.loose = r.loose, v.answer = r.answer
    PROVE  v = Owes(r, o)
<1>. DEFINE u == Owes(r, o)
<1>1. /\ u \in Asks /\ u.kind = r.kind /\ u.name = r.name /\ u.owed = o
      /\ u.elders = r.elders /\ u.loose = r.loose /\ u.answer = r.answer
  BY OwesFields
<1>. HIDE DEF u
<1>2. v.loose <=> u.loose
  BY <1>1
<1>3. v = u
  BY <1>1, <1>2, AskSame
<1>. QED BY <1>3 DEF u

LEMMA IsRecall ==
    ASSUME NEW r \in Asks, NEW v \in Asks, NEW o \in SUBSET Names,
           v.kind = r.kind, v.name = r.name, v.owed = o, v.elders = r.elders,
           v.loose = TRUE, v.answer = r.answer
    PROVE  v = Recalls(r, o)
<1>. DEFINE u == Recalls(r, o)
<1>1. /\ u \in Asks /\ u.kind = r.kind /\ u.name = r.name /\ u.owed = o
      /\ u.elders = r.elders /\ u.loose = TRUE /\ u.answer = r.answer
  BY RecallsFields
<1>. HIDE DEF u
<1>2. v.loose <=> u.loose
  BY <1>1
<1>3. v = u
  BY <1>1, <1>2, AskSame
<1>. QED BY <1>3 DEF u

LEMMA IsAnswer ==
    ASSUME NEW r \in Asks, NEW v \in Asks, NEW s \in BOOLEAN, NEW a \in Answers,
           v.kind = r.kind, v.name = r.name, v.owed = r.owed, v.elders = {},
           v.loose <=> r.loose \/ s, v.answer = a
    PROVE  v = Answered(r, a, s)
<1>. DEFINE u == Answered(r, a, s)
<1>1. /\ u \in Asks /\ u.kind = r.kind /\ u.name = r.name /\ u.owed = r.owed
      /\ u.elders = {} /\ (u.loose <=> r.loose \/ s) /\ u.answer = a
  BY AnsweredFields
<1>. HIDE DEF u
<1>2. v.loose <=> u.loose
  BY <1>1
<1>3. v = u
  BY <1>1, <1>2, AskSame
<1>. QED BY <1>3 DEF u

LEMMA AskedTyped ==
    ASSUME NEW l \in Launches, NEW j \in Jobs, l.pc # "ready" => j.model \in Models
    PROVE  /\ Asked(l, j) \in Asks
           /\ l.pc # "ready" =>
                 /\ Asked(l, j).kind = j.op /\ Asked(l, j).name = Listed[j.model]
                 /\ Asked(l, j).owed = l.owed /\ Asked(l, j).elders = l.elders
                 /\ Asked(l, j).loose = l.loose /\ Asked(l, j).answer = l.answer
           /\ l.pc = "ready" => Asked(l, j) = Unasked
<1>1. CASE l.pc = "ready"
  BY <1>1 DEF Asked, Asks, Unasked, Answers
<1>2. CASE l.pc # "ready"
  <2>1. /\ l.owed \in SUBSET Names /\ l.elders \in SUBSET Names /\ l.loose \in BOOLEAN
        /\ l.answer \in Answers
        /\ Listed[j.model] \in Names
        /\ j.op \in {"none", "pull", "remove", "deploy", "stop", "stop all"}
    BY <1>2, EngineTypes DEF Launches, Jobs, Answers
  <2>. QED BY <1>2, <2>1 DEF Asked, Asks
<1>. QED BY <1>1, <1>2

LEMMA AskTyped ==
    ASSUME EngineInv
    PROVE  /\ FleetAsk \in [Procs -> Asks]
           /\ \A q \in Procs :
                 /\ launch[q] \in Launches /\ job[q] \in Jobs
                 /\ launch[q].pc # "ready" => job[q].model \in Models
                 /\ FleetAsk[q] = Asked(launch[q], job[q])
                 /\ FleetAsk[q].elders \subseteq Up
<1>1. \A q \in Procs : /\ launch[q] \in Launches /\ job[q] \in Jobs
                       /\ Agree(launch[q], job[q]) /\ launch[q].elders \subseteq Up
                       /\ job[q].pc # "ready" => job[q].model \in Models
  BY DEF EngineInv, CacheInv, CacheTypeOK
<1>2. ASSUME NEW q \in Procs, launch[q].pc # "ready" PROVE job[q].model \in Models
  BY <1>1, <1>2 DEF Agree, AtDocker, Fetching, InLoop, Launches, Deploying, Stopping, AfterRun
<1>3. \A q \in Procs : FleetAsk[q] = Asked(launch[q], job[q])
  BY DEF FleetAsk
<1>4. \A q \in Procs : Asked(launch[q], job[q]) \in Asks
  BY <1>1, <1>2, AskedTyped
<1>5. \A q \in Procs : FleetAsk[q].elders \subseteq Up
  BY <1>1, <1>2, <1>3, AskedTyped DEF Unasked
<1>. QED BY <1>1, <1>2, <1>3, <1>4, <1>5 DEF FleetAsk

LEMMA AskFields ==
    ASSUME EngineInv, NEW p \in Procs, launch[p].pc # "ready"
    PROVE  /\ FleetAsk[p] \in Asks
           /\ FleetAsk[p].kind = job[p].op /\ FleetAsk[p].name = Listed[job[p].model]
           /\ FleetAsk[p].owed = launch[p].owed /\ FleetAsk[p].elders = launch[p].elders
           /\ FleetAsk[p].loose = launch[p].loose /\ FleetAsk[p].answer = launch[p].answer
<1>1. /\ launch[p] \in Launches /\ job[p] \in Jobs /\ job[p].model \in Models
      /\ FleetAsk[p] = Asked(launch[p], job[p])
  BY AskTyped
<1>. QED BY <1>1, AskedTyped

LEMMA SunkNone ==
    ASSUME NEW a \in [Procs -> Asks] PROVE Promises!Sunk({}, a) = a
<1>1. \A q \in Procs : [a[q] EXCEPT !.elders = @ \ {}] = a[q]
  <2>. SUFFICES ASSUME NEW q \in Procs PROVE [a[q] EXCEPT !.elders = @ \ {}] = a[q]
    OBVIOUS
  <2>1. a[q] \in Asks
    OBVIOUS
  <2>. QED BY <2>1 DEF Asks
<1>. QED BY <1>1 DEF Promises!Sunk

(* Only a name that is up can be among the elders.                          *)
LEMMA SunkDown ==
    ASSUME NEW a \in [Procs -> Asks], NEW n, \A q \in Procs : a[q].elders \subseteq Up
    PROVE  Promises!Sunk(Down(n), a) = Promises!Sunk({n}, a)
<1>1. \A q \in Procs : a[q].elders \ Down(n) = a[q].elders \ {n}
  BY DEF Down
<1>2. \A q \in Procs : [a[q] EXCEPT !.elders = @ \ Down(n)] = [a[q] EXCEPT !.elders = @ \ {n}]
  BY <1>1
<1>. QED BY <1>2 DEF Promises!Sunk

LEMMA AskTurns ==
    ASSUME EngineInv, NEW p \in Procs, NEW l \in Launches, NEW j, NEW down,
           Turn(p, l, down), job' = [job EXCEPT ![p] = j], l.pc # "ready"
    PROVE  FleetAsk' = Promises!Sunk(down, [FleetAsk EXCEPT ![p] = Asked(l, j)])
<1>0. launch \in [Procs -> Launches] /\ job \in [Procs -> Jobs]
  BY DEF EngineInv, CacheInv, CacheTypeOK
<1>1. /\ launch'[p] = Less(l, down)
      /\ \A q \in Procs \ {p} : launch'[q] = Less(launch[q], down)
  BY <1>0, Turned
<1>2. ASSUME NEW q \in Procs \ {p}
      PROVE  Asked(launch'[q], job'[q]) = [FleetAsk[q] EXCEPT !.elders = @ \ down]
  <2>1. launch[q] \in Launches /\ job'[q] = job[q] /\ launch'[q] = Less(launch[q], down)
    BY <1>0, <1>1
  <2>2. FleetAsk[q] = Asked(launch[q], job[q])
    BY DEF FleetAsk
  <2>3. CASE launch[q].pc = "ready"
    <3>1. Less(launch[q], down).pc = "ready"
      BY <2>1, <2>3, Fewer
    <3>2. /\ Asked(Less(launch[q], down), job[q]) = Unasked
          /\ Asked(launch[q], job[q]) = Unasked
      BY <2>3, <3>1 DEF Asked, Unasked
    <3>3. [Unasked EXCEPT !.elders = @ \ down] = Unasked
      BY DEF Unasked
    <3>. QED BY <2>1, <2>2, <3>2, <3>3
  <2>4. CASE launch[q].pc # "ready"
    <3>1. Asked(Less(launch[q], down), job[q])
             = [Asked(launch[q], job[q]) EXCEPT !.elders = @ \ down]
      BY <2>1, <2>4, AskedLess
    <3>. QED BY <2>1, <2>2, <3>1
  <2>. QED BY <2>3, <2>4
<1>3. Asked(launch'[p], job'[p]) = [Asked(l, j) EXCEPT !.elders = @ \ down]
  <2>1. job'[p] = j
    BY <1>0
  <2>. QED BY ZenonT(30), <1>1, <2>1, AskedLess
<1>. DEFINE a == [FleetAsk EXCEPT ![p] = Asked(l, j)]
<1>4. \A q \in Procs : Asked(launch'[q], job'[q]) = [a[q] EXCEPT !.elders = @ \ down]
  <2>1. a[p] = Asked(l, j) /\ \A q \in Procs \ {p} : a[q] = FleetAsk[q]
    BY DEF FleetAsk
  <2>. QED BY <1>2, <1>3, <2>1
<1>. QED BY <1>4 DEF FleetAsk, Promises!Sunk

LEMMA InitMaps == EngineInv /\ Init => Promises!Init
<1>. SUFFICES ASSUME EngineInv, Init PROVE Promises!Init
  OBVIOUS
<1>1. FleetState \in [Names -> {"up", "faltering", "down"}]
  BY SeenUp DEF FleetState, EngineInv
<1>2. FleetAsk = [p \in Procs |-> Promises!Unasked]
  BY DEF Init, FleetAsk, Asked, Unbegun, Promises!Unasked
<1>. QED BY <1>1, <1>2 DEF Promises!Init

FleetStep == Promises!Next \/ UNCHANGED <<FleetState, FleetAsk>>

(* Nothing Fleet knows of.                                                  *)
LEMMA StateSame ==
    ASSUME \A n \in Names : Seen(box'[n]) = Seen(box[n])
    PROVE  FleetState' = FleetState
  BY DEF FleetState

LEMMA QuietMaps ==
    ASSUME EngineInv, NEW p \in Procs, NEW l \in Launches, NEW j,
           Turn(p, l, {}), job' = [job EXCEPT ![p] = j],
           launch[p].pc # "ready", l.pc # "ready",
           l.owed = launch[p].owed, l.elders = launch[p].elders,
           l.loose = launch[p].loose, l.answer = launch[p].answer,
           j.op = job[p].op, j.model = job[p].model,
           \A n \in Names : Seen(box'[n]) = Seen(box[n])
    PROVE  FleetStep
<1>1. FleetState' = FleetState
  BY StateSame
<1>2. Asked(l, j) = Asked(launch[p], job[p])
  BY DEF Asked
<1>3. FleetAsk \in [Procs -> Asks] /\ FleetAsk[p] = Asked(launch[p], job[p])
  BY AskTyped
<1>4. [FleetAsk EXCEPT ![p] = Asked(l, j)] = FleetAsk
  BY <1>2, <1>3
<1>5. FleetAsk' = Promises!Sunk({}, [FleetAsk EXCEPT ![p] = Asked(l, j)])
  BY AskTurns
<1>6. FleetAsk' = FleetAsk
  BY <1>3, <1>4, <1>5, SunkNone
<1>. QED BY <1>1, <1>6 DEF FleetStep

(* Docker does not answer a deployment.                                     *)
LEMMA LoosenMaps ==
    ASSUME EngineInv, NEW p \in Procs, NEW l \in Launches, NEW j \in Jobs,
           Turn(p, l, {}), job' = [job EXCEPT ![p] = j],
           launch[p].pc \notin {"ready", "done"}, l.pc # "ready", job[p].op = "deploy",
           l.owed = launch[p].owed, l.elders = launch[p].elders,
           l.loose = TRUE, l.answer = launch[p].answer,
           j.op = job[p].op, j.model = job[p].model,
           \A n \in Names : Seen(box'[n]) = Seen(box[n])
    PROVE  FleetStep
<1>1. FleetState' = FleetState
  BY StateSame
<1>2. FleetAsk \in [Procs -> Asks] /\ FleetAsk[p] = Asked(launch[p], job[p])
      /\ launch[p] \in Launches /\ job[p] \in Jobs /\ job[p].model \in Models
      /\ launch[p].answer = "none"
  BY AskTyped DEF EngineInv, Agree
<1>10. FleetAsk[p] \in Asks /\ Asked(l, j) \in Asks
  BY <1>2, AskedTyped
<1>11. /\ FleetAsk[p].kind = job[p].op /\ FleetAsk[p].name = Listed[job[p].model]
       /\ FleetAsk[p].owed = launch[p].owed /\ FleetAsk[p].elders = launch[p].elders
       /\ FleetAsk[p].answer = launch[p].answer
  BY <1>2, AskedTyped
<1>12. /\ Asked(l, j).kind = job[p].op /\ Asked(l, j).name = Listed[job[p].model]
       /\ Asked(l, j).owed = launch[p].owed /\ Asked(l, j).elders = launch[p].elders
       /\ Asked(l, j).loose = TRUE /\ Asked(l, j).answer = launch[p].answer
  BY <1>2, AskedTyped
<1>3. Asked(l, j) = Loosened(FleetAsk[p])
  <2>. DEFINE v == Asked(l, j)
              u == FleetAsk[p]
  <2>1. u \in Asks /\ v \in Asks /\ v.kind = u.kind /\ v.name = u.name /\ v.owed = u.owed
        /\ v.elders = u.elders /\ v.loose = TRUE /\ v.answer = u.answer
    BY <1>10, <1>11, <1>12
  <2>. HIDE DEF u, v
  <2>2. v = Loosened(u)
    BY <2>1, IsLoosened
  <2>. QED BY <2>2 DEF u, v
<1>4. [FleetAsk EXCEPT ![p] = Asked(l, j)] = [FleetAsk EXCEPT ![p].loose = TRUE]
  <2>1. [FleetAsk EXCEPT ![p].loose = TRUE] = [FleetAsk EXCEPT ![p] = Loosened(FleetAsk[p])]
    BY DEF Loosened
  <2>. QED BY <1>3, <2>1
<1>5. [FleetAsk EXCEPT ![p] = Asked(l, j)] \in [Procs -> Asks]
  BY <1>2, AskedTyped
<1>9. FleetAsk' = Promises!Sunk({}, [FleetAsk EXCEPT ![p] = Asked(l, j)])
  BY AskTurns
<1>6. FleetAsk' = [FleetAsk EXCEPT ![p].loose = TRUE]
  BY <1>4, <1>5, <1>9, SunkNone
<1>7. Promises!Pending(p, "deploy")
  BY <1>2, AskedTyped DEF Promises!Pending
<1>8. Promises!Loosen(p)
  BY <1>1, <1>6, <1>7 DEF Promises!Loosen
<1>. QED BY <1>8 DEF FleetStep, Promises!Next

(* A command is over.                                                       *)
LEMMA AnswerMaps ==
    ASSUME EngineInv, NEW p \in Procs, NEW l \in Launches, NEW j \in Jobs,
           Turn(p, l, {}), job' = [job EXCEPT ![p] = j],
           launch[p].pc \notin {"ready", "done"}, l.pc # "ready",
           l.owed = launch[p].owed, l.elders = {},
           \/ l.loose = launch[p].loose
           \/ l.loose = TRUE /\ l.answer = "failed",
           l.answer \in Answers \ {"none"},
           l.answer = "ok" => launch[p].owed = {},
           l.answer = "unfit" => job[p].op = "deploy",
           j.op = job[p].op, j.model = job[p].model,
           \A n \in Names : Seen(box'[n]) = Seen(box[n])
    PROVE  FleetStep
<1>1. FleetState' = FleetState
  BY StateSame
<1>2. FleetAsk \in [Procs -> Asks] /\ FleetAsk[p] = Asked(launch[p], job[p])
      /\ launch[p] \in Launches /\ job[p] \in Jobs /\ job[p].model \in Models
      /\ launch[p].answer = "none" /\ job[p].op \in {"deploy", "stop", "stop all"}
  BY AskTyped DEF EngineInv, Agree
<1>3. PICK mute \in BOOLEAN : /\ l.loose <=> launch[p].loose \/ mute
                              /\ mute => l.answer = "failed"
  <2>1. launch[p].loose \in BOOLEAN
    BY <1>2 DEF Launches
  <2>2. CASE l.loose = launch[p].loose
    BY <2>1, <2>2
  <2>3. CASE l.loose = TRUE /\ l.answer = "failed"
    BY <2>1, <2>3
  <2>. QED BY <2>2, <2>3
<1>10. FleetAsk[p] \in Asks /\ Asked(l, j) \in Asks
  BY <1>2, AskedTyped
<1>4. /\ FleetAsk[p].kind = job[p].op /\ FleetAsk[p].name = Listed[job[p].model]
      /\ FleetAsk[p].owed = launch[p].owed /\ FleetAsk[p].loose = launch[p].loose
      /\ FleetAsk[p].answer = "none"
  BY <1>2, AskFields
<1>11. /\ Asked(l, j).kind = job[p].op /\ Asked(l, j).name = Listed[job[p].model]
       /\ Asked(l, j).owed = launch[p].owed /\ Asked(l, j).elders = {}
       /\ Asked(l, j).loose = l.loose /\ Asked(l, j).answer = l.answer
  <2>1. j.model \in Models
    BY <1>2
  <2>. QED BY ONLY <2>1, l \in Launches, j \in Jobs, l.pc # "ready", l.owed = launch[p].owed,
                   l.elders = {}, j.op = job[p].op, j.model = job[p].model, AskedTyped
<1>5. Asked(l, j) = Answered(FleetAsk[p], l.answer, mute)
  <2>. DEFINE v == Asked(l, j)
              u == FleetAsk[p]
  <2>1. u \in Asks /\ v \in Asks /\ v.kind = u.kind /\ v.name = u.name /\ v.owed = u.owed
        /\ v.elders = {} /\ v.loose = l.loose /\ u.loose = launch[p].loose
        /\ v.answer = l.answer
    BY <1>4, <1>10, <1>11
  <2>. HIDE DEF u, v
  <2>2. v.loose <=> u.loose \/ mute
    BY <1>3, <2>1
  <2>3. v = Answered(u, l.answer, mute)
    BY <2>1, <2>2, IsAnswer
  <2>. QED BY <2>3 DEF u, v
<1>6. [FleetAsk EXCEPT ![p] = Asked(l, j)]
         = [FleetAsk EXCEPT ![p].answer = l.answer, ![p].elders = {},
                            ![p].loose = @ \/ mute]
  <2>1. [FleetAsk EXCEPT ![p].answer = l.answer, ![p].elders = {}, ![p].loose = @ \/ mute]
           = [FleetAsk EXCEPT ![p] = Answered(FleetAsk[p], l.answer, mute)]
    BY DEF Answered
  <2>. QED BY <1>5, <2>1
<1>7. [FleetAsk EXCEPT ![p] = Asked(l, j)] \in [Procs -> Asks]
  BY <1>2, AskedTyped
<1>8. FleetAsk' = [FleetAsk EXCEPT ![p].answer = l.answer, ![p].elders = {},
                                   ![p].loose = @ \/ mute]
  <2>1. FleetAsk' = Promises!Sunk({}, [FleetAsk EXCEPT ![p] = Asked(l, j)])
    BY AskTurns
  <2>. QED BY <1>6, <1>7, <2>1, SunkNone
<1>9. Promises!Answer(p)
  BY <1>1, <1>2, <1>3, <1>4, <1>8 DEF Promises!Answer, Answers
<1>. QED BY <1>9 DEF FleetStep, Promises!Next

(* The container of a name is stopped or removed.                           *)
LEMMA DownMaps ==
    ASSUME EngineInv, NEW p \in Procs, NEW l \in Launches, NEW j \in Jobs, NEW n \in Names,
           Turn(p, l, Down(n)), job' = [job EXCEPT ![p] = j],
           launch[p].pc \notin {"ready", "done"}, l.pc # "ready",
           l.owed = launch[p].owed \ {n} \/ l.owed = launch[p].owed,
           l.elders = launch[p].elders,
           l.loose = launch[p].loose, l.answer = launch[p].answer,
           j.op = job[p].op, j.model = job[p].model,
           Seen(box'[n]) = "down",
           \A k \in Names \ {n} : Seen(box'[k]) = Seen(box[k]),
           \/ /\ l.owed = launch[p].owed
              /\ job[p].op = "deploy"
              /\ launch[p].loose \/ (n = Listed[job[p].model] /\ n \notin launch[p].elders)
           \/ /\ l.owed = launch[p].owed \ {n}
              /\ job[p].op = "stop all" \/ (job[p].op = "stop" /\ n = Listed[job[p].model])
    PROVE  FleetStep
<1>1. FleetState' = [FleetState EXCEPT ![n] = "down"]
  BY DEF FleetState
<1>2. FleetAsk \in [Procs -> Asks] /\ FleetAsk[p] = Asked(launch[p], job[p])
      /\ launch[p] \in Launches /\ job[p] \in Jobs /\ job[p].model \in Models
      /\ launch[p].answer = "none"
      /\ \A q \in Procs : FleetAsk[q].elders \subseteq Up
  BY AskTyped DEF EngineInv, Agree
<1>10. FleetAsk[p] \in Asks /\ Asked(l, j) \in Asks
  BY <1>2, AskedTyped
<1>11. /\ Asked(l, j).kind = job[p].op /\ Asked(l, j).name = Listed[job[p].model]
       /\ Asked(l, j).owed = l.owed /\ Asked(l, j).elders = launch[p].elders
       /\ Asked(l, j).loose = launch[p].loose /\ Asked(l, j).answer = launch[p].answer
  BY <1>2, AskedTyped
<1>12. /\ FleetAsk[p].kind = job[p].op /\ FleetAsk[p].answer = "none"
       /\ FleetAsk[p].name = Listed[job[p].model] /\ FleetAsk[p].owed = launch[p].owed
       /\ FleetAsk[p].loose = launch[p].loose /\ FleetAsk[p].elders = launch[p].elders
  BY ZenonT(30), <1>2, AskedTyped
<1>3. Asked(l, j) = Owes(FleetAsk[p], l.owed)
  <2>1. l.owed \in SUBSET Names
    BY DEF Launches
  <2>. DEFINE v == Asked(l, j)
              u == FleetAsk[p]
  <2>2. u \in Asks /\ v \in Asks /\ v.kind = u.kind /\ v.name = u.name /\ v.owed = l.owed
        /\ v.elders = u.elders /\ v.loose = u.loose /\ v.answer = u.answer
    BY <1>2, <1>10, <1>11, <1>12
  <2>. HIDE DEF u, v
  <2>3. v = Owes(u, l.owed)
    BY <2>1, <2>2, IsOwing
  <2>. QED BY <2>3 DEF u, v
<1>. DEFINE a == [FleetAsk EXCEPT ![p] = Asked(l, j)]
<1>4. a \in [Procs -> Asks] /\ \A q \in Procs : a[q].elders \subseteq Up
  <2>1. Asked(l, j) \in Asks /\ Asked(l, j).elders = FleetAsk[p].elders
    BY <1>10, <1>11, <1>12
  <2>. QED BY <1>2, <2>1
<1>5. FleetAsk' = Promises!Sunk({n}, a)
  <2>1. FleetAsk' = Promises!Sunk(Down(n), a)
    BY AskTurns
  <2>. HIDE DEF a
  <2>. QED BY <1>4, <2>1, SunkDown
<1>6. CASE /\ l.owed = launch[p].owed
           /\ job[p].op = "deploy"
           /\ launch[p].loose \/ (n = Listed[job[p].model] /\ n \notin launch[p].elders)
  <2>1. a = FleetAsk
    <3>1. Asked(l, j) = FleetAsk[p]
      <4>. DEFINE v == Asked(l, j)
                  u == FleetAsk[p]
      <4>1. u \in Asks /\ v \in Asks /\ v.kind = u.kind /\ v.name = u.name /\ v.owed = u.owed
            /\ v.elders = u.elders /\ v.loose = u.loose /\ v.answer = u.answer
        BY <1>2, <1>6, <1>10, <1>11, <1>12
      <4>. HIDE DEF u, v
      <4>2. v = u
        BY <4>1, AskSame
      <4>. QED BY <4>2 DEF u, v
    <3>. QED BY <1>2, <3>1
  <2>2. Promises!Displace(p, n)
    BY <1>1, <1>12, <1>5, <1>6, <2>1 DEF Promises!Displace, Promises!Pending
  <2>. QED BY <2>2 DEF FleetStep, Promises!Next
<1>7. CASE /\ l.owed = launch[p].owed \ {n}
           /\ job[p].op = "stop all" \/ (job[p].op = "stop" /\ n = Listed[job[p].model])
  <2>1. a = [FleetAsk EXCEPT ![p].owed = @ \ {n}]
    <3>1. [FleetAsk EXCEPT ![p].owed = @ \ {n}]
             = [FleetAsk EXCEPT ![p] = Owes(FleetAsk[p], FleetAsk[p].owed \ {n})]
      BY DEF Owes
    <3>2. Asked(l, j) = Owes(FleetAsk[p], FleetAsk[p].owed \ {n})
      BY <1>3, <1>7, <1>12
    <3>. QED BY <3>1, <3>2
  <2>2. Promises!TakeDown(p, n)
    BY <1>1, <1>12, <1>5, <1>7, <2>1 DEF Promises!TakeDown, Promises!Pending
  <2>. QED BY <2>2 DEF FleetStep, Promises!Next
<1>. QED BY <1>6, <1>7

----
(* The steps of the engine room.                                            *)

(* What is known of a command that has been asked for.                      *)
LEMMA Here ==
    ASSUME EngineInv, NEW p \in Procs, launch[p].pc # "ready"
    PROVE  /\ launch[p] \in Launches /\ job[p] \in Jobs /\ TidyJob(job[p])
           /\ Agree(launch[p], job[p]) /\ Relies(launch[p], job[p])
           /\ launch[p].elders \subseteq Up
           /\ job[p].model \in Models /\ Listed[job[p].model] \in Names
           /\ job[p].op \in {"deploy", "stop", "stop all"}
           /\ box \in [Names -> Boxes] /\ records \in [Models -> Nat]
           /\ faults \in 0..MaxFaults
           /\ \A n \in Names : box[n].id = p => Ran(launch[p], job[p], n, box[n])
<1>1. /\ launch[p] \in Launches /\ job[p] \in Jobs /\ TidyJob(job[p])
      /\ Agree(launch[p], job[p]) /\ Relies(launch[p], job[p])
      /\ launch[p].elders \subseteq Up
      /\ box \in [Names -> Boxes] /\ records \in [Models -> Nat]
      /\ faults \in 0..MaxFaults
      /\ \A n \in Names : box[n].id = p => Ran(launch[p], job[p], n, box[n])
  BY DEF EngineInv, CacheInv, CacheTypeOK
<1>2. job[p].model \in Models
  BY AskTyped
<1>3. Listed[job[p].model] \in Names
  BY <1>2, EngineTypes
<1>4. job[p].op \in {"deploy", "stop", "stop all"}
  BY <1>1 DEF Agree
<1>. QED BY <1>1, <1>2, <1>3, <1>4

(* Nothing but docker and the engine's own state changes.                   *)
LEMMA DiskRests ==
    ASSUME EngineInv, UNCHANGED job, SameDisk, faults' \in 0..MaxFaults
    PROVE  CacheInv'
  BY CacheRests DEF EngineInv, SameDisk

LEMMA FaultOrNot ==
    EngineInv /\ (Fault \/ UNCHANGED faults) => faults' \in 0..MaxFaults
  BY FaultTyped DEF EngineInv, CacheInv, CacheTypeOK

(* The command goes on, and docker is as it was.                            *)
LEMMA GoesOn ==
    ASSUME EngineInv, NEW p \in Procs, NEW l \in Launches, NEW j \in Jobs, Turn(p, l, {}),
           job' = [job EXCEPT ![p] = j], CacheInv', UNCHANGED box,
           records' \in [Models -> Nat], launch[p].pc # "ready",
           l.elders = launch[p].elders, Agree(l, j), Relies(l, j),
           launch[p].pc # "done",
           launch[p].pc \in AfterRun => l.pc \in AfterRun,
           j.op = job[p].op, j.model = job[p].model
    PROVE  EngineInv'
<1>1. /\ launch[p].elders \subseteq Up /\ box \in [Names -> Boxes]
      /\ \A n \in Names : box[n].id = p => Ran(launch[p], job[p], n, box[n])
  BY Here
<1>2. \A n \in Names : box'[n].id = p => Ran(l, j, n, box'[n])
  <2>. SUFFICES ASSUME NEW n \in Names, box[n].id = p PROVE Ran(l, j, n, box[n])
    OBVIOUS
  <2>1. Ran(launch[p], job[p], n, box[n])
    BY <1>1
  <2>2. l.pc \in AfterRun
    BY <2>1 DEF Ran
  <2>3. l.answer = "none"
    BY <2>2 DEF Agree, AfterRun
  <2>. QED BY <2>1, <2>2, <2>3 DEF Ran
<1>3. Up \ {} \subseteq Up'
  BY DEF Up, Running
<1>4. box' \in [Names -> Boxes] /\ l.elders \subseteq Up
  BY <1>1
<1>5. \A n \in Names :
         \/ box'[n].id = None
         \/ box'[n].id = p
         \/ box'[n].id = box[n].id /\ (Alive(box'[n]) => Alive(box[n]))
  OBVIOUS
<1>. QED BY <1>2, <1>3, <1>4, <1>5, StepKeeps

(* The command answers.                                                     *)
LEMMA Leaves ==
    ASSUME EngineInv, NEW p \in Procs, NEW l \in Launches, NEW j \in Jobs,
           Turn(p, l, {}), job' = [job EXCEPT ![p] = j],
           l.pc = "done", l.answer \in Answers \ {"none"}, l.elders = {},
           l.owed = launch[p].owed,
           l.loose = launch[p].loose \/ (l.loose = TRUE /\ l.answer = "failed"),
           j.pc = "done", TidyJob(j), j.op = job[p].op, j.model = job[p].model,
           SameDisk, faults' \in 0..MaxFaults, records' \in [Models -> Nat],
           launch[p].pc \notin {"ready", "done"},
           l.answer = "ok" => launch[p].owed = {},
           l.answer = "unfit" => job[p].op = "deploy",
           box' \in [Names -> Boxes], \A n \in Names : Seen(box'[n]) = Seen(box[n]),
           \A n \in Names :
              \/ box'[n].id = None
              \/ box'[n].id = p
              \/ box'[n].id = box[n].id /\ (Alive(box'[n]) => Alive(box[n])),
           \A n \in Names : box'[n].id = p => Ran(l, j, n, box'[n])
    PROVE  EngineInv' /\ FleetStep
<1>1. /\ launch[p] \in Launches /\ job[p] \in Jobs /\ box \in [Names -> Boxes]
      /\ job[p].op \in {"deploy", "stop", "stop all"} /\ job[p].model \in Models
  BY Here
<1>4. CacheInv'
  <2>1. /\ UNCHANGED <<disk, present, mixed>>
        /\ dirs' \subseteq Models /\ index' \subseteq Models
    BY DEF SameDisk, EngineInv, CacheInv, CacheTypeOK
  <2>2. j.pc \notin InLoop \cup {"finish"}
    BY DEF InLoop
  <2>. QED BY <1>1, <2>1, <2>2, IdleKeeps DEF EngineInv
<1>7. Agree(l, j)
  BY <1>1 DEF Agree, AtDocker, AfterRun, Deploying, Stopping, Answers
<1>8. Relies(l, j)
  BY DEF Relies, AfterRun, Deploying, Stopping
<1>9. Up \ {} \subseteq Up'
  <2>. SUFFICES ASSUME NEW n \in Names, Running(n) PROVE Running(n)'
    BY DEF Up
  <2>1. box[n] \in Boxes /\ box'[n] \in Boxes /\ Seen(box'[n]) = Seen(box[n])
    BY <1>1
  <2>. QED BY <2>1, SeenUp DEF Running
<1>12. EngineInv'
  <2>1. l.elders \subseteq Up
    OBVIOUS
  <2>. QED BY <1>1, <1>4, <1>7, <1>8, <1>9, <2>1, StepKeeps
<1>13. FleetStep
  BY AnswerMaps
<1>. QED BY <1>12, <1>13

(* What is left of p when it answers a.                                     *)
Departed(p, a) == [Unbegun EXCEPT !.pc = "done", !.answer = a, !.owed = launch[p].owed,
                                  !.loose = launch[p].loose]

LEMMA ExitForms ==
    ASSUME EngineInv, NEW p \in Procs, launch[p].pc # "ready",
           NEW a \in Answers \ {"none"}, NEW b \in {"ok", "failed"}
    PROVE  LET l == Departed(p, a)
               j == Done(job[p], b)
           IN  /\ l \in Launches /\ l.pc = "done" /\ l.answer = a /\ l.elders = {}
               /\ l.owed = launch[p].owed /\ l.loose = launch[p].loose
               /\ j \in Jobs /\ j.pc = "done" /\ TidyJob(j) /\ j.op = job[p].op
               /\ j.model = job[p].model
<1>1. launch[p] \in Launches /\ job[p] \in Jobs
  BY Here
<1>2. launch[p].owed \in SUBSET Names /\ launch[p].loose \in BOOLEAN
  BY <1>1 DEF Launches
<1>. QED BY ZenonT(30), <1>1, <1>2, DoneJob DEF Departed, Launches, Unbegun, NoRecords, None, Answers, Done, Idle

(* The command answers, and docker is as it was.                            *)
LEMMA Exits ==
    ASSUME EngineInv, NEW p \in Procs, NEW a \in Answers \ {"none"}, Exit(p, a), SameDisk,
           Fault \/ UNCHANGED faults, UNCHANGED box, records' \in [Models -> Nat],
           launch[p].pc \notin {"ready", "done"}, a = "ok" => launch[p].owed = {},
           a = "unfit" => job[p].op = "deploy",
           a = "failed" => launch[p].pc \notin AfterRun \/ launch[p].loose
                           \/ \A n \in Names : box[n].id = p => ~Alive(box[n])
    PROVE  EngineInv' /\ FleetStep
<1>. DEFINE l == Departed(p, a)
<1>1. /\ launch[p] \in Launches /\ box \in [Names -> Boxes]
      /\ \A n \in Names : box[n].id = p => Ran(launch[p], job[p], n, box[n])
      /\ faults' \in 0..MaxFaults /\ Answers \ {"none"} \subseteq Answers
  BY Here, FaultOrNot
<1>2. launch[p].loose \in BOOLEAN
  BY <1>1 DEF Launches
<1>3. PICK b \in {"ok", "failed"} : Step(p, Done(job[p], b))
  BY DEF Exit
<1>. DEFINE j == Done(job[p], b)
<1>4. Turn(p, l, {}) /\ job' = [job EXCEPT ![p] = j]
  BY <1>3 DEF Exit, Step, Departed
<1>5. /\ l \in Launches /\ l.pc = "done" /\ l.answer = a /\ l.elders = {}
      /\ l.owed = launch[p].owed /\ l.loose = launch[p].loose
      /\ j \in Jobs /\ j.pc = "done" /\ TidyJob(j) /\ j.op = job[p].op
      /\ j.model = job[p].model
  BY ExitForms
<1>. HIDE DEF l, j
<1>7. \A n \in Names : box'[n].id = p => Ran(l, j, n, box'[n])
  <2>. SUFFICES ASSUME NEW n \in Names, box[n].id = p PROVE Ran(l, j, n, box[n])
    OBVIOUS
  <2>1. Ran(launch[p], job[p], n, box[n])
    BY <1>1
  <2>. QED BY <1>5, <2>1 DEF Ran
<1>8. /\ box' \in [Names -> Boxes]
      /\ \A n \in Names : Seen(box'[n]) = Seen(box[n])
      /\ \A n \in Names : box'[n].id = box[n].id /\ (Alive(box'[n]) => Alive(box[n]))
  BY <1>1
<1>. QED BY <1>1, <1>4, <1>5, <1>7, <1>8, Leaves

LEMMA FreePortIsPort ==
    ASSUME NEW b
    PROVE  FreePort(b) \in Ports
<1>. DEFINE free == Ports \ Taken(b)
            from == IF free = {} THEN Ports ELSE free
<1>1. from \subseteq Nat /\ from # {} /\ from \subseteq Ports
  BY EngineAssumption
<1>. HIDE DEF from
<1>2. PICK i \in from : \A k \in from : ~(<<k, i>> \in OpToRel(<, Nat))
  BY <1>1, WFMin, NatLessThanWellFounded
<1>3. \A k \in from : i <= k
  <2>. SUFFICES ASSUME NEW k \in from, k < i PROVE FALSE
    BY <1>1
  <2>1. <<k, i>> \in Nat \X Nat /\ <<k, i>>[1] < <<k, i>>[2]
    BY <1>1
  <2>2. <<k, i>> \in OpToRel(<, Nat)
    BY <2>1, Zenon DEF OpToRel
  <2>. QED BY <1>2, <2>2
<1>4. (CHOOSE x \in from : \A k \in from : x <= k) \in from
  BY <1>3
<1>. QED BY <1>1, <1>4 DEF FreePort, from

LEMMA NoImageKeeps ==
    ASSUME EngineInv, NEW p \in Procs, NoImage(p) PROVE EngineInv' /\ FleetStep
<1>1. launch[p].pc = "clear" /\ Exit(p, "failed") /\ SameDisk /\ Fault
      /\ UNCHANGED box /\ UNCHANGED records
  BY DEF NoImage, InEngine
<1>2. records' \in [Models -> Nat] /\ launch[p].pc \notin AfterRun
  BY <1>1 DEF EngineInv, AfterRun
<1>. QED BY <1>1, <1>2, Exits DEF Answers

LEMMA ReturnKeeps ==
    ASSUME EngineInv, NEW p \in Procs, Return(p) PROVE EngineInv' /\ FleetStep
<1>1. launch[p].pc \in AfterRun /\ Exit(p, "ok") /\ SameDisk /\ UNCHANGED faults
      /\ UNCHANGED box /\ UNCHANGED records
  BY DEF Return, InEngine, AfterRun
<1>2. records' \in [Models -> Nat] /\ launch[p].owed = {}
      /\ launch[p].pc \notin {"ready", "done"}
  BY <1>1 DEF EngineInv, AfterRun, Relies
<1>. QED BY <1>1, <1>2, Exits DEF Answers

LEMMA WrittenTyped ==
    ASSUME EngineInv, NEW p \in Procs, Written(p) PROVE records' \in [Models -> Nat]
<1>1. launch[p] \in Launches
  BY DEF EngineInv
<1>2. launch[p].recs \in [Models -> Nat] /\ NoRecords \in [Models -> Nat]
  BY <1>1 DEF Launches, NoRecords, None
<1>. QED BY <1>2 DEF Written

LEMMA BackgroundSaveKeeps ==
    ASSUME EngineInv, NEW p \in Procs, BackgroundSave(p) PROVE EngineInv' /\ FleetStep
<1>1. launch[p].pc \in AfterRun /\ Exit(p, "ok") /\ SameDisk /\ UNCHANGED faults
      /\ UNCHANGED box /\ Written(p)
  BY DEF BackgroundSave, InEngine, AfterRun
<1>2. records' \in [Models -> Nat] /\ launch[p].owed = {}
      /\ launch[p].pc \notin {"ready", "done"}
  BY <1>1, WrittenTyped DEF EngineInv, AfterRun, Relies
<1>. QED BY <1>1, <1>2, Exits DEF Answers

LEMMA StopReturnsKeeps ==
    ASSUME EngineInv, NEW p \in Procs, StopReturns(p) PROVE EngineInv' /\ FleetStep
<1>1. launch[p].pc = "query" /\ launch[p].todo = {} /\ SameDisk /\ UNCHANGED faults
      /\ Exit(p, IF launch[p].fails THEN "failed" ELSE "ok")
      /\ UNCHANGED box /\ UNCHANGED records
  BY DEF StopReturns, InEngine
<1>2. launch[p] \in Launches /\ Relies(launch[p], job[p]) /\ records' \in [Models -> Nat]
  BY <1>1, Here
<1>3. launch[p].pc \notin AfterRun /\ launch[p].pc \notin {"ready", "done"}
  BY <1>1 DEF AfterRun
<1>4. CASE launch[p].fails
  BY <1>1, <1>2, <1>3, <1>4, Exits DEF Answers
<1>5. CASE ~launch[p].fails
  <2>1. launch[p].owed = {}
    BY <1>1, <1>2, <1>5 DEF Relies, Owing
  <2>. QED BY <1>1, <1>2, <1>3, <1>5, <2>1, Exits DEF Answers
<1>. QED BY <1>4, <1>5

LEMMA CrashKeeps ==
    ASSUME EngineInv, NEW p \in Procs, Crash(p) PROVE EngineInv' /\ FleetStep
<1>1. launch[p].pc \notin {"ready", "done"} /\ SameDisk /\ Fault /\ Exit(p, "killed")
      /\ UNCHANGED box /\ UNCHANGED records
  BY DEF Crash
<1>2. records' \in [Models -> Nat]
  BY <1>1, Here
<1>. QED BY <1>1, <1>2, Exits DEF Answers

LEMMA RunningIsAlive ==
    ASSUME EngineInv, NEW p \in Procs, launch[p].pc # "ready", ~Healthy(p),
           NEW n \in Names, box[n].id = p
    PROVE  ~Alive(box[n])
<1>1. Ran(launch[p], job[p], n, box[n])
  BY Here
<1>. QED BY <1>1 DEF Ran, Healthy, Target, Alive

LEMMA HealthKeeps ==
    ASSUME EngineInv, NEW p \in Procs, Health(p) PROVE EngineInv' /\ FleetStep
<1>1. launch[p].pc = "health" /\ SameDisk /\ UNCHANGED box /\ UNCHANGED records
  BY DEF Health, InEngine
<1>2. /\ launch[p] \in Launches /\ job[p] \in Jobs /\ TidyJob(job[p])
      /\ Agree(launch[p], job[p]) /\ Relies(launch[p], job[p])
      /\ records' \in [Models -> Nat] /\ box \in [Names -> Boxes]
      /\ \A n \in Names : box[n].id = p => Ran(launch[p], job[p], n, box[n])
  BY <1>1, Here
<1>3. launch[p].owed = {} /\ launch[p].answer = "none" /\ job[p].op = "deploy"
      /\ launch[p].pc \in AfterRun
  BY <1>1, <1>2 DEF Relies, Agree, AfterRun, Deploying
<1>4. CASE Stay("record", p) /\ UNCHANGED faults
  <2>. DEFINE l == [launch[p] EXCEPT !.pc = "record"]
  <2>1. /\ l \in Launches /\ l.pc = "record" /\ l.elders = launch[p].elders
        /\ l.owed = launch[p].owed /\ l.loose = launch[p].loose
        /\ l.answer = launch[p].answer
    BY <1>2 DEF Launches, Deploying
  <2>2. Turn(p, l, {}) /\ job' = [job EXCEPT ![p] = job[p]] /\ CacheInv'
    BY <1>1, <1>4, DiskRests, FaultOrNot DEF Stay, Go, EngineInv, CacheInv, CacheTypeOK
  <2>. HIDE DEF l
  <2>3. Agree(l, job[p])
    BY <1>1, <1>2, <1>3, <2>1 DEF Agree, AtDocker, AfterRun, Deploying, Stopping
  <2>4. Relies(l, job[p])
    BY <1>1, <1>2, <1>3, <2>1 DEF Relies, AfterRun, Deploying, Stopping
  <2>5. EngineInv'
    BY <1>1, <1>2, <2>1, <2>2, <2>3, <2>4, GoesOn DEF AfterRun
  <2>6. FleetStep
    BY <1>1, <1>2, <2>1, <2>2, QuietMaps
  <2>. QED BY <2>5, <2>6
<1>5. CASE ~Healthy(p) /\ Exit(p, "failed") /\ UNCHANGED faults
  <2>1. \A n \in Names : box[n].id = p => ~Alive(box[n])
    BY <1>1, <1>5, RunningIsAlive
  <2>. QED BY <1>1, <1>2, <1>5, <2>1, Exits DEF Answers
<1>6. CASE /\ Fault
           /\ Turn(p, [Unbegun EXCEPT !.pc = "done", !.answer = "failed",
                                      !.loose = TRUE], {})
           /\ Step(p, Done(job[p], "failed"))
  <2>. DEFINE l == [Unbegun EXCEPT !.pc = "done", !.answer = "failed", !.loose = TRUE]
              j == Done(job[p], "failed")
  <2>1. /\ l \in Launches /\ l.pc = "done" /\ l.answer = "failed" /\ l.elders = {}
        /\ l.owed = {} /\ l.loose = TRUE
    BY DEF Launches, Unbegun, NoRecords, None
  <2>2. /\ j \in Jobs /\ j.pc = "done" /\ TidyJob(j) /\ j.op = job[p].op
        /\ j.model = job[p].model
    BY <1>2, DoneJob DEF Done, Idle
  <2>3. Turn(p, l, {}) /\ job' = [job EXCEPT ![p] = j] /\ faults' \in 0..MaxFaults
    BY <1>6, FaultOrNot DEF Step
  <2>. HIDE DEF l, j
  <2>4. \A n \in Names : box'[n].id = p => Ran(l, j, n, box'[n])
    BY <1>1, <1>2, <2>1, <2>2 DEF Ran
  <2>5. /\ box' \in [Names -> Boxes] /\ l.answer \in Answers \ {"none"}
        /\ \A n \in Names : Seen(box'[n]) = Seen(box[n])
        /\ \A n \in Names : box'[n].id = box[n].id /\ (Alive(box'[n]) => Alive(box[n]))
    BY <1>1, <1>2, <2>1 DEF Answers
  <2>. QED BY <1>1, <1>2, <1>3, <2>1, <2>2, <2>3, <2>4, <2>5, Leaves, ZenonT(30)
<1>. QED BY <1>4, <1>5, <1>6 DEF Health

(* The command goes on, and neither docker nor Fleet knows of it.           *)
LEMMA Quietly ==
    ASSUME EngineInv, NEW p \in Procs, NEW l \in Launches, NEW j \in Jobs, Turn(p, l, {}),
           job' = [job EXCEPT ![p] = j], CacheInv', UNCHANGED box,
           records' \in [Models -> Nat], launch[p].pc \notin {"ready", "done"},
           l.pc # "ready", l.owed = launch[p].owed, l.elders = launch[p].elders,
           l.loose = launch[p].loose, l.answer = launch[p].answer,
           Agree(l, j), Relies(l, j),
           launch[p].pc \in AfterRun => l.pc \in AfterRun,
           j.op = job[p].op, j.model = job[p].model
    PROVE  EngineInv' /\ FleetStep
<1>1. EngineInv'
  BY GoesOn
<1>2. FleetStep
  BY QuietMaps
<1>. QED BY <1>1, <1>2

(* The same, where it is none of the cache's business.                      *)
LEMMA QuietlyHere ==
    ASSUME EngineInv, NEW p \in Procs, NEW l \in Launches, Turn(p, l, {}),
           UNCHANGED job, SameDisk, Fault \/ UNCHANGED faults, UNCHANGED box,
           records' \in [Models -> Nat], launch[p].pc \notin {"ready", "done"},
           l.pc # "ready", l.owed = launch[p].owed, l.elders = launch[p].elders,
           l.loose = launch[p].loose, l.answer = launch[p].answer,
           Agree(l, job[p]), Relies(l, job[p]),
           launch[p].pc \in AfterRun => l.pc \in AfterRun
    PROVE  EngineInv' /\ FleetStep
<1>1. CacheInv'
  BY DiskRests, FaultOrNot
<1>2. job[p] \in Jobs /\ job' = [job EXCEPT ![p] = job[p]]
  BY DEF EngineInv, CacheInv, CacheTypeOK
<1>. QED BY <1>1, <1>2, Quietly

(* A step on the records, after the container has run.                      *)
LEMMA OnRecords ==
    ASSUME EngineInv, NEW p \in Procs, NEW r \in [Models -> Nat], NEW pc \in AfterRun,
           Turn(p, [launch[p] EXCEPT !.pc = pc, !.recs = r], {}),
           UNCHANGED job, SameDisk, Fault \/ UNCHANGED faults, UNCHANGED box,
           records' \in [Models -> Nat], launch[p].pc \in AfterRun
    PROVE  EngineInv' /\ FleetStep
<1>. DEFINE l == [launch[p] EXCEPT !.pc = pc, !.recs = r]
<1>1. launch[p].pc \notin {"ready", "done"}
  BY DEF AfterRun
<1>2. /\ launch[p] \in Launches /\ Agree(launch[p], job[p]) /\ Relies(launch[p], job[p])
  BY <1>1, Here
<1>3. /\ l \in Launches /\ l.pc = pc /\ l.elders = launch[p].elders
      /\ l.owed = launch[p].owed /\ l.loose = launch[p].loose
      /\ l.answer = launch[p].answer /\ l.todo = launch[p].todo
      /\ l.name = launch[p].name /\ l.fails = launch[p].fails
  BY <1>2 DEF Launches, Deploying, AfterRun
<1>4. Turn(p, l, {})
  OBVIOUS
<1>. HIDE DEF l
<1>5. Agree(l, job[p])
  BY <1>2, <1>3 DEF Agree, AtDocker, AfterRun, Deploying, Stopping
<1>6. Relies(l, job[p])
  BY <1>2, <1>3 DEF Relies, AfterRun, Deploying, Stopping
<1>. QED BY <1>1, <1>3, <1>4, <1>5, <1>6, QuietlyHere DEF AfterRun

LEMMA TruncatedTyped ==
    ASSUME EngineInv, NEW p \in Procs, launch[p].pc \in AfterRun
    PROVE  /\ [launch[p].recs EXCEPT ![job[p].model] = p] \in [Models -> Nat]
           /\ launch[p].recs \in [Models -> Nat] /\ NoRecords \in [Models -> Nat]
           /\ records \in [Models -> Nat]
           /\ \A pc : [launch[p] EXCEPT !.pc = pc]
                         = [launch[p] EXCEPT !.pc = pc, !.recs = launch[p].recs]
<1>1. launch[p] \in Launches /\ job[p].model \in Models /\ records \in [Models -> Nat]
  BY Here DEF AfterRun
<1>2. launch[p].recs \in [Models -> Nat]
  BY <1>1 DEF Launches
<1>3. \A pc : [launch[p] EXCEPT !.pc = pc]
                 = [launch[p] EXCEPT !.pc = pc, !.recs = launch[p].recs]
  BY <1>1 DEF Launches
<1>. QED BY <1>1, <1>2, <1>3, EngineTypes DEF NoRecords, None

LEMMA RecordKeeps ==
    ASSUME EngineInv, NEW p \in Procs, Record(p) \/ BackgroundCheck(p)
    PROVE  EngineInv' /\ FleetStep
<1>1. PICK pc \in {"write", "rewrite"} : TruncateRecords(p, pc)
  BY DEF Record, BackgroundCheck
<1>2. launch[p].pc \in AfterRun /\ SameDisk /\ UNCHANGED job /\ UNCHANGED faults
      /\ UNCHANGED box
  BY DEF Record, BackgroundCheck, InEngine, AfterRun
<1>3. /\ Turn(p, [launch[p] EXCEPT !.pc = pc,
                     !.recs = [launch[p].recs EXCEPT ![job[p].model] = p]], {})
      /\ records' = NoRecords
  BY <1>1 DEF TruncateRecords
<1>4. pc \in AfterRun
  BY DEF AfterRun
<1>. QED BY <1>2, <1>3, <1>4, TruncatedTyped, OnRecords

LEMMA WriteRecordsKeeps ==
    ASSUME EngineInv, NEW p \in Procs, WriteRecords(p) \/ RecordFails(p)
    PROVE  EngineInv' /\ FleetStep
<1>1. /\ launch[p].pc \in AfterRun /\ SameDisk /\ UNCHANGED job
      /\ (Fault \/ UNCHANGED faults)
      /\ UNCHANGED box /\ Turn(p, [launch[p] EXCEPT !.pc = "linger"], {})
  BY DEF WriteRecords, RecordFails, InEngine, AfterRun, Stay, Go
<1>2. records' \in [Models -> Nat]
  BY <1>1, WrittenTyped DEF WriteRecords, RecordFails, EngineInv
<1>3. Turn(p, [launch[p] EXCEPT !.pc = "linger", !.recs = launch[p].recs], {})
  BY <1>1, TruncatedTyped
<1>4. "linger" \in AfterRun
  BY DEF AfterRun
<1>. QED BY <1>1, <1>2, <1>3, <1>4, TruncatedTyped, OnRecords

(* The cache's process moves with the engine's, and has no file in hand.    *)
LEMMA MovesAlong ==
    ASSUME EngineInv, NEW p \in Procs, launch[p].pc # "ready", NEW j \in Jobs,
           job' = [job EXCEPT ![p] = j], SameDisk, Fault \/ UNCHANGED faults,
           job[p].pc \notin InLoop, j.pc \notin InLoop \cup {"finish"},
           j.from = job[p].from, j.got = job[p].got, j.linked = job[p].linked,
           j.ranged = job[p].ranged, j.model = job[p].model
    PROVE  CacheInv'
<1>1. /\ UNCHANGED <<disk, present, mixed>> /\ dirs' \subseteq Models
      /\ index' \subseteq Models /\ faults' \in 0..MaxFaults
  BY FaultOrNot DEF SameDisk, EngineInv, CacheInv, CacheTypeOK
<1>2. TidyJob(job[p]) /\ job[p].model \in Models
  BY Here
<1>3. TidyJob(j)
  BY <1>2 DEF TidyJob, Touching, InLoop
<1>. QED BY <1>1, <1>2, <1>3, IdleKeeps DEF EngineInv

LEMMA BootKeeps ==
    ASSUME EngineInv, NEW p \in Procs, Boot(p) PROVE EngineInv' /\ FleetStep
<1>. DEFINE pc == CASE job[p].op = "deploy" -> "cache"
                    [] job[p].op = "stop" -> "query"
                    [] job[p].op = "stop all" -> "survey"
            l == [launch[p] EXCEPT !.pc = pc, !.recs = records]
            j == [job[p] EXCEPT !.pc = IF pc = "cache" THEN "load" ELSE @]
<1>1. /\ launch[p].pc = "boot" /\ Turn(p, l, {}) /\ job' = [job EXCEPT ![p] = j]
      /\ SameDisk /\ UNCHANGED faults /\ UNCHANGED box /\ UNCHANGED records
  BY DEF Boot, InEngine, Step
<1>2. /\ launch[p] \in Launches /\ job[p] \in Jobs /\ Agree(launch[p], job[p])
      /\ Relies(launch[p], job[p]) /\ records \in [Models -> Nat]
      /\ job[p].op \in {"deploy", "stop", "stop all"}
  BY <1>1, Here
<1>3. /\ pc \in {"cache", "query", "survey"}
      /\ pc = "cache" => job[p].op = "deploy"
      /\ pc = "query" => job[p].op = "stop"
      /\ pc = "survey" => job[p].op = "stop all"
  BY <1>2
<1>. HIDE DEF pc
<1>4. /\ l \in Launches /\ l.pc = pc /\ l.elders = launch[p].elders
      /\ l.owed = launch[p].owed /\ l.loose = launch[p].loose
      /\ l.answer = launch[p].answer /\ l.todo = launch[p].todo
      /\ l.name = launch[p].name /\ l.fails = launch[p].fails
  BY <1>2, <1>3 DEF Launches, Deploying, Stopping
<1>5. job[p].pc = "engine" /\ launch[p].answer = "none"
  BY <1>1, <1>2 DEF Agree, AtDocker
<1>6. /\ j \in Jobs /\ j.pc = (IF pc = "cache" THEN "load" ELSE "engine")
      /\ j.op = job[p].op /\ j.model = job[p].model /\ j.from = job[p].from
      /\ j.got = job[p].got /\ j.linked = job[p].linked /\ j.ranged = job[p].ranged
  BY <1>2, <1>5 DEF Jobs
<1>. HIDE DEF l, j
<1>7. CacheInv'
  BY <1>1, <1>5, <1>6, MovesAlong DEF InLoop
<1>8. Agree(l, j)
  BY <1>2, <1>3, <1>4, <1>5, <1>6 DEF Agree, AtDocker, AfterRun, Deploying, Stopping
<1>9. Relies(l, j)
  BY <1>1, <1>2, <1>3, <1>4, <1>6
     DEF Relies, AfterRun, Deploying, Stopping, Owing
<1>10. launch[p].pc \notin AfterRun /\ l.pc # "ready"
  BY <1>1, <1>3, <1>4 DEF AfterRun
<1>. QED BY <1>1, <1>2, <1>4, <1>6, <1>7, <1>8, <1>9, <1>10, Quietly

LEMMA ValidateKeeps ==
    ASSUME EngineInv, NEW p \in Procs, Validate(p) PROVE EngineInv' /\ FleetStep
<1>. DEFINE pull == NeedsPull(job[p].model)
            l == [launch[p] EXCEPT !.pc = IF pull THEN "pull" ELSE "plan"]
            j == [job[p] EXCEPT !.pc = IF pull THEN "lookup" ELSE "engine",
                                !.copy = IF pull THEN @ ELSE {}]
<1>1. /\ launch[p].pc = "cache" /\ Turn(p, l, {}) /\ job' = [job EXCEPT ![p] = j]
      /\ SameDisk /\ UNCHANGED faults /\ UNCHANGED box /\ UNCHANGED records
      /\ job[p].pc = "loaded"
  BY DEF Validate, InEngine, Step, Go
<1>2. /\ launch[p] \in Launches /\ job[p] \in Jobs /\ Agree(launch[p], job[p])
      /\ Relies(launch[p], job[p]) /\ records \in [Models -> Nat]
  BY <1>1, Here
<1>3. job[p].op = "deploy" /\ launch[p].answer = "none"
  BY <1>1, <1>2 DEF Agree, Deploying
<1>4. /\ l \in Launches /\ l.pc = (IF pull THEN "pull" ELSE "plan")
      /\ l.elders = launch[p].elders
      /\ l.owed = launch[p].owed /\ l.loose = launch[p].loose
      /\ l.answer = launch[p].answer
  BY <1>2 DEF Launches, Deploying
<1>6. /\ j \in Jobs /\ j.pc = (IF pull THEN "lookup" ELSE "engine")
      /\ j.op = job[p].op /\ j.model = job[p].model /\ j.from = job[p].from
      /\ j.got = job[p].got /\ j.linked = job[p].linked /\ j.ranged = job[p].ranged
  BY <1>2 DEF Jobs
<1>. HIDE DEF l, j, pull
<1>7. CacheInv'
  BY <1>1, <1>6, MovesAlong DEF InLoop
<1>8. Agree(l, j)
  BY <1>2, <1>3, <1>4, <1>6 DEF Agree, AtDocker, AfterRun, Deploying, Stopping, Fetching
<1>9. Relies(l, j)
  BY <1>1, <1>2, <1>3, <1>4, <1>6 DEF Relies, AfterRun, Deploying, Stopping
<1>10. launch[p].pc \notin AfterRun /\ l.pc # "ready"
  BY <1>1, <1>4 DEF AfterRun
<1>. QED BY <1>1, <1>2, <1>4, <1>6, <1>7, <1>8, <1>9, <1>10, Quietly

LEMMA PulledKeeps ==
    ASSUME EngineInv, NEW p \in Procs, Pulled(p) PROVE EngineInv' /\ FleetStep
<1>1. /\ launch[p].pc = "pull" /\ job[p].pc = "done" /\ SameDisk /\ UNCHANGED faults
      /\ UNCHANGED box /\ UNCHANGED records
  BY DEF Pulled, InEngine
<1>2. /\ launch[p] \in Launches /\ job[p] \in Jobs /\ Agree(launch[p], job[p])
      /\ Relies(launch[p], job[p]) /\ records \in [Models -> Nat]
  BY <1>1, Here
<1>3. job[p].op = "deploy" /\ launch[p].answer = "none"
      /\ launch[p].pc \notin AfterRun
  BY <1>1, <1>2 DEF Agree, Deploying, AfterRun
<1>4. CASE job[p].answer = "ok"
  <2>. DEFINE l == [launch[p] EXCEPT !.pc = "plan"]
              j == [job[p] EXCEPT !.pc = "engine", !.answer = "none"]
  <2>1. Turn(p, l, {}) /\ job' = [job EXCEPT ![p] = j]
    BY <1>4 DEF Pulled, Step, Go
  <2>4. /\ l \in Launches /\ l.pc = "plan" /\ l.elders = launch[p].elders
        /\ l.owed = launch[p].owed /\ l.loose = launch[p].loose
        /\ l.answer = launch[p].answer
    BY <1>2 DEF Launches, Deploying
  <2>6. /\ j \in Jobs /\ j.pc = "engine"
        /\ j.op = job[p].op /\ j.model = job[p].model /\ j.from = job[p].from
        /\ j.got = job[p].got /\ j.linked = job[p].linked /\ j.ranged = job[p].ranged
    BY <1>2 DEF Jobs
  <2>. HIDE DEF l, j
  <2>7. CacheInv'
    BY <1>1, <2>1, <2>6, MovesAlong DEF InLoop
  <2>8. Agree(l, j)
    BY <1>2, <1>3, <2>4, <2>6 DEF Agree, AtDocker, AfterRun, Deploying, Stopping, Fetching
  <2>9. Relies(l, j)
    BY <1>1, <1>2, <1>3, <2>4, <2>6 DEF Relies, AfterRun, Deploying, Stopping
  <2>. QED BY <1>1, <1>2, <1>3, <2>1, <2>4, <2>6, <2>7, <2>8, <2>9, Quietly
<1>5. CASE job[p].answer # "ok"
  <2>1. Exit(p, "failed")
    BY <1>5 DEF Pulled
  <2>. QED BY <1>1, <1>2, <1>3, <2>1, Exits DEF Answers
<1>. QED BY <1>4, <1>5

LEMMA PlanKeeps ==
    ASSUME EngineInv, NEW p \in Procs, Plan(p) PROVE EngineInv' /\ FleetStep
<1>1. /\ launch[p].pc = "plan" /\ SameDisk /\ UNCHANGED faults /\ UNCHANGED box
      /\ UNCHANGED records
      /\ Exit(p, "unfit") \/ Exit(p, "failed") \/ Stay("list", p)
  BY DEF Plan, InEngine
<1>2. /\ launch[p] \in Launches /\ job[p] \in Jobs /\ Agree(launch[p], job[p])
      /\ Relies(launch[p], job[p]) /\ records' \in [Models -> Nat]
  BY <1>1, Here
<1>3. job[p].op = "deploy" /\ launch[p].answer = "none"
      /\ launch[p].pc \notin AfterRun
  BY <1>1, <1>2 DEF Agree, Deploying, AfterRun
<1>4. CASE Exit(p, "unfit")
  BY <1>1, <1>2, <1>3, <1>4, Exits DEF Answers
<1>5. CASE Exit(p, "failed")
  BY <1>1, <1>2, <1>3, <1>5, Exits DEF Answers
<1>6. CASE Stay("list", p)
  <2>. DEFINE l == [launch[p] EXCEPT !.pc = "list"]
  <2>1. Turn(p, l, {}) /\ UNCHANGED job
    BY <1>6 DEF Stay, Go
  <2>4. /\ l \in Launches /\ l.pc = "list" /\ l.elders = launch[p].elders
        /\ l.owed = launch[p].owed /\ l.loose = launch[p].loose
        /\ l.answer = launch[p].answer
    BY <1>2 DEF Launches, Deploying
  <2>. HIDE DEF l
  <2>8. Agree(l, job[p])
    BY <1>1, <1>2, <1>3, <2>4 DEF Agree, AtDocker, AfterRun, Deploying, Stopping
  <2>9. Relies(l, job[p])
    BY <1>1, <1>2, <1>3, <2>4 DEF Relies, AfterRun, Deploying, Stopping
  <2>. QED BY <1>1, <1>2, <1>3, <2>1, <2>4, <2>8, <2>9, QuietlyHere
<1>. QED BY <1>1, <1>4, <1>5, <1>6

LEMMA ListKeeps ==
    ASSUME EngineInv, NEW p \in Procs, List(p) PROVE EngineInv' /\ FleetStep
<1>1. /\ launch[p].pc = "list" /\ SameDisk /\ (Fault \/ UNCHANGED faults) /\ UNCHANGED box
      /\ UNCHANGED records
  BY DEF List, InEngine
<1>2. /\ launch[p] \in Launches /\ job[p] \in Jobs /\ Agree(launch[p], job[p])
      /\ Relies(launch[p], job[p]) /\ records' \in [Models -> Nat]
      /\ launch[p].elders \subseteq Up
  BY <1>1, Here
<1>3. job[p].op = "deploy" /\ launch[p].answer = "none"
      /\ launch[p].pc \notin AfterRun
  BY <1>1, <1>2 DEF Agree, Deploying, AfterRun
<1>4. CASE Exit(p, "failed")
  BY <1>1, <1>2, <1>3, <1>4, Exits DEF Answers
<1>5. CASE ~AlreadyRuns(job[p].model) /\ Stay("clear", p)
  <2>. DEFINE l == [launch[p] EXCEPT !.pc = "clear"]
  <2>1. Turn(p, l, {}) /\ UNCHANGED job
    BY <1>5 DEF Stay, Go
  <2>4. /\ l \in Launches /\ l.pc = "clear" /\ l.elders = launch[p].elders
        /\ l.owed = launch[p].owed /\ l.loose = launch[p].loose
        /\ l.answer = launch[p].answer
    BY <1>2 DEF Launches, Deploying
  <2>. HIDE DEF l
  <2>5. ~launch[p].loose => Listed[job[p].model] \notin launch[p].elders
    BY <1>1, <1>2, <1>3, <1>5 DEF Relies, AlreadyRuns, Up, Deploying
  <2>8. Agree(l, job[p])
    BY <1>1, <1>2, <1>3, <2>4 DEF Agree, AtDocker, AfterRun, Deploying, Stopping
  <2>9. Relies(l, job[p])
    BY <1>1, <1>2, <1>3, <2>4, <2>5 DEF Relies, AfterRun, Deploying, Stopping
  <2>. QED BY <1>1, <1>2, <1>3, <2>1, <2>4, <2>8, <2>9, QuietlyHere
<1>6. CASE /\ Fault
           /\ Turn(p, [launch[p] EXCEPT !.pc = "clear", !.loose = TRUE], {})
           /\ UNCHANGED job
  <2>. DEFINE l == [launch[p] EXCEPT !.pc = "clear", !.loose = TRUE]
  <2>1. Turn(p, l, {}) /\ job' = [job EXCEPT ![p] = job[p]] /\ CacheInv'
    BY <1>1, <1>6, DiskRests, FaultOrNot DEF EngineInv, CacheInv, CacheTypeOK
  <2>4. /\ l \in Launches /\ l.pc = "clear" /\ l.elders = launch[p].elders
        /\ l.owed = launch[p].owed /\ l.loose = TRUE
        /\ l.answer = launch[p].answer
    BY <1>2 DEF Launches, Deploying
  <2>. HIDE DEF l
  <2>8. Agree(l, job[p])
    BY <1>1, <1>2, <1>3, <2>4 DEF Agree, AtDocker, AfterRun, Deploying, Stopping
  <2>9. Relies(l, job[p])
    BY <1>1, <1>2, <1>3, <2>4 DEF Relies, AfterRun, Deploying, Stopping
  <2>10. EngineInv'
    BY <1>1, <1>2, <1>3, <2>1, <2>4, <2>8, <2>9, GoesOn
  <2>11. FleetStep
    BY <1>1, <1>2, <1>3, <2>1, <2>4, LoosenMaps
  <2>. QED BY <2>10, <2>11
<1>. QED BY <1>4, <1>5, <1>6 DEF List

LEMMA FindForcedKeeps ==
    ASSUME EngineInv, NEW p \in Procs, FindForced(p) PROVE EngineInv' /\ FleetStep
<1>1. /\ launch[p].pc = "force" /\ SameDisk /\ (Fault \/ UNCHANGED faults)
      /\ UNCHANGED box /\ UNCHANGED records /\ UNCHANGED job
      /\ \/ \E n \in Names : Turn(p, [launch[p] EXCEPT !.pc = "force stop", !.name = n,
                                                       !.id = box[n].id], {})
         \/ Turn(p, [launch[p] EXCEPT !.pc = "boot"], {})
  BY DEF FindForced, InEngine, Go
<1>2. /\ launch[p] \in Launches /\ job[p] \in Jobs /\ Agree(launch[p], job[p])
      /\ Relies(launch[p], job[p]) /\ records' \in [Models -> Nat]
      /\ box \in [Names -> Boxes]
  BY <1>1, Here
<1>3. /\ job[p].op = "deploy" /\ launch[p].answer = "none" /\ launch[p].loose
      /\ launch[p].pc \notin AfterRun
  BY <1>1, <1>2 DEF Agree, Relies, Deploying, AfterRun
<1>4. ASSUME NEW l \in Launches, Turn(p, l, {}), l.pc \in {"force stop", "boot"},
             l.elders = launch[p].elders, l.owed = launch[p].owed,
             l.loose = launch[p].loose, l.answer = launch[p].answer,
             l.pc = "force stop" => l.name \in Names
      PROVE  EngineInv' /\ FleetStep
  <2>8. Agree(l, job[p])
    BY <1>1, <1>2, <1>3, <1>4 DEF Agree, AtDocker, AfterRun, Deploying, Stopping
  <2>9. Relies(l, job[p])
    BY <1>1, <1>2, <1>3, <1>4 DEF Relies, AfterRun, Deploying, Stopping
  <2>. QED BY <1>1, <1>2, <1>3, <1>4, <2>8, <2>9, QuietlyHere
<1>5. ASSUME NEW n \in Names,
             Turn(p, [launch[p] EXCEPT !.pc = "force stop", !.name = n,
                                       !.id = box[n].id], {})
      PROVE  EngineInv' /\ FleetStep
  <2>. DEFINE l == [launch[p] EXCEPT !.pc = "force stop", !.name = n, !.id = box[n].id]
  <2>1. box[n].id \in Nat
    BY <1>2 DEF Boxes
  <2>2. /\ l \in Launches /\ l.pc = "force stop" /\ l.elders = launch[p].elders
        /\ l.owed = launch[p].owed /\ l.loose = launch[p].loose
        /\ l.answer = launch[p].answer /\ l.name = n /\ Turn(p, l, {})
    BY <1>2, <1>5, <2>1 DEF Launches, Deploying
  <2>. HIDE DEF l
  <2>. QED BY <1>4, <2>2
<1>6. ASSUME Turn(p, [launch[p] EXCEPT !.pc = "boot"], {})
      PROVE  EngineInv' /\ FleetStep
  <2>. DEFINE l == [launch[p] EXCEPT !.pc = "boot"]
  <2>2. /\ l \in Launches /\ l.pc = "boot" /\ l.elders = launch[p].elders
        /\ l.owed = launch[p].owed /\ l.loose = launch[p].loose
        /\ l.answer = launch[p].answer /\ Turn(p, l, {})
    BY <1>2, <1>6 DEF Launches, Deploying
  <2>. HIDE DEF l
  <2>. QED BY <1>4, <2>2
<1>. QED BY <1>1, <1>5, <1>6

(* A name goes down, or is down and is given up.                            *)
LEMMA NameDown ==
    ASSUME EngineInv, NEW p \in Procs, NEW n \in Names, NEW l \in Launches,
           Turn(p, l, Down(n)), UNCHANGED job, SameDisk, Fault \/ UNCHANGED faults,
           UNCHANGED records, box' \in [Names -> Boxes],
           \A k \in Names \ {n} : box'[k] = box[k],
           box'[n].id \in {None, box[n].id}, ~Alive(box'[n]),
           launch[p].pc \notin AfterRun \cup {"ready", "done"},
           l.elders = launch[p].elders, Agree(l, job[p]), Relies(l, job[p])
    PROVE  /\ EngineInv'
           /\ Seen(box'[n]) = "down"
           /\ \A k \in Names \ {n} : Seen(box'[k]) = Seen(box[k])
           /\ job' = [job EXCEPT ![p] = job[p]]
<1>1. /\ job[p] \in Jobs /\ box \in [Names -> Boxes] /\ records' \in [Models -> Nat]
      /\ launch[p].elders \subseteq Up
      /\ \A k \in Names : box[k].id = p => Ran(launch[p], job[p], k, box[k])
  BY Here
<1>2. CacheInv'
  BY DiskRests, FaultOrNot
<1>3. job' = [job EXCEPT ![p] = job[p]]
  BY DEF EngineInv, CacheInv, CacheTypeOK
<1>4. Up \ Down(n) \subseteq Up'
  BY DEF Up, Running, Down
<1>5. \A k \in Names :
         \/ box'[k].id = None
         \/ box'[k].id = p
         \/ box'[k].id = box[k].id /\ (Alive(box'[k]) => Alive(box[k]))
  OBVIOUS
<1>6. \A k \in Names : box'[k].id # p
  <2>1. \A k \in Names : box[k].id # p
    BY <1>1 DEF Ran
  <2>2. p # None
    BY EngineTypes
  <2>. QED BY <2>1, <2>2
<1>7. EngineInv'
  <2>1. l.elders \subseteq Up
    BY <1>1
  <2>. QED BY <1>1, <1>2, <1>3, <1>4, <1>5, <1>6, <2>1, StepKeeps, ZenonT(30)
<1>8. Seen(box'[n]) = "down"
  BY SeenUp
<1>. QED BY <1>3, <1>7, <1>8

LEMMA StoppedBox ==
    ASSUME NEW n \in Names, box \in [Names -> Boxes]
    PROVE  /\ Stopped(n) \in [Names -> Boxes]
           /\ \A k \in Names \ {n} : Stopped(n)[k] = box[k]
           /\ Stopped(n)[n].id = box[n].id /\ ~Alive(Stopped(n)[n])
<1>. DEFINE s == IF box[n].state \in {"running", "restarting"} THEN "exited"
                                                               ELSE box[n].state
            c == [box[n] EXCEPT !.state = s]
<1>1. box[n] \in Boxes
  OBVIOUS
<1>2. c \in Boxes /\ c.id = box[n].id /\ ~Alive(c)
  BY <1>1 DEF Boxes, Alive
<1>3. Stopped(n) = [box EXCEPT ![n] = c]
  BY DEF Stopped
<1>. HIDE DEF c
<1>. QED BY <1>2, <1>3

LEMMA StopForcedKeeps ==
    ASSUME EngineInv, NEW p \in Procs, StopForced(p) PROVE EngineInv' /\ FleetStep
<1>. DEFINE n == launch[p].name
            l == [launch[p] EXCEPT !.pc = "boot", !.name = "none", !.id = None]
<1>1. /\ launch[p].pc = "force stop" /\ SameDisk /\ (Fault \/ UNCHANGED faults)
      /\ UNCHANGED records /\ UNCHANGED job
      /\ \/ box' = Stopped(n) /\ Turn(p, l, Down(n))
         \/ Turn(p, l, {}) /\ UNCHANGED box
  BY DEF StopForced, InEngine
<1>2. /\ launch[p] \in Launches /\ job[p] \in Jobs /\ Agree(launch[p], job[p])
      /\ Relies(launch[p], job[p]) /\ records' \in [Models -> Nat]
      /\ box \in [Names -> Boxes]
  BY <1>1, Here
<1>3. /\ job[p].op = "deploy" /\ launch[p].answer = "none" /\ launch[p].loose
      /\ launch[p].pc \notin AfterRun /\ n \in Names
  BY <1>1, <1>2 DEF Agree, Relies, Deploying, AfterRun
<1>4. /\ l \in Launches /\ l.pc = "boot" /\ l.elders = launch[p].elders
      /\ l.owed = launch[p].owed /\ l.loose = launch[p].loose
      /\ l.answer = launch[p].answer
  BY <1>2 DEF Launches, None
<1>. HIDE DEF l
<1>5. Agree(l, job[p])
  BY <1>1, <1>2, <1>3, <1>4 DEF Agree, AtDocker, AfterRun, Deploying, Stopping
<1>6. Relies(l, job[p])
  BY <1>1, <1>2, <1>3, <1>4 DEF Relies, AfterRun, Deploying, Stopping
<1>7. CASE box' = Stopped(n) /\ Turn(p, l, Down(n))
  <2>1. /\ box' \in [Names -> Boxes] /\ \A k \in Names \ {n} : box'[k] = box[k]
        /\ box'[n].id = box[n].id /\ ~Alive(box'[n])
    BY <1>2, <1>3, <1>7, StoppedBox
  <2>2. /\ EngineInv' /\ Seen(box'[n]) = "down"
        /\ \A k \in Names \ {n} : Seen(box'[k]) = Seen(box[k])
        /\ job' = [job EXCEPT ![p] = job[p]]
    BY <1>1, <1>2, <1>3, <1>4, <1>5, <1>6, <1>7, <2>1, NameDown
  <2>3. FleetStep
    BY <1>1, <1>2, <1>3, <1>4, <1>7, <2>2, DownMaps
  <2>. QED BY <2>2, <2>3
<1>8. CASE Turn(p, l, {}) /\ UNCHANGED box
  BY <1>1, <1>2, <1>3, <1>4, <1>5, <1>6, <1>8, QuietlyHere
<1>. QED BY <1>1, <1>7, <1>8

LEMMA ClearKeeps ==
    ASSUME EngineInv, NEW p \in Procs, Clear(p) PROVE EngineInv' /\ FleetStep
<1>. DEFINE n == Target(p)
            cleared == [box EXCEPT ![n] = NoBox]
            Ready(b) == [launch[p] EXCEPT !.pc = "run", !.port = FreePort(b)]
<1>1. /\ launch[p].pc = "clear" /\ SameDisk /\ (Fault \/ UNCHANGED faults)
      /\ UNCHANGED records /\ UNCHANGED job
      /\ \/ box' = cleared /\ Turn(p, Ready(cleared), Down(n))
         \/ Turn(p, Ready(box), {}) /\ UNCHANGED box
  BY DEF Clear, InEngine
<1>2. /\ launch[p] \in Launches /\ job[p] \in Jobs /\ Agree(launch[p], job[p])
      /\ Relies(launch[p], job[p]) /\ records' \in [Models -> Nat]
      /\ box \in [Names -> Boxes] /\ n \in Names
  BY <1>1, Here DEF Target
<1>3. /\ job[p].op = "deploy" /\ launch[p].answer = "none"
      /\ launch[p].loose \/ Listed[job[p].model] \notin launch[p].elders
      /\ launch[p].pc \notin AfterRun
  BY <1>1, <1>2 DEF Agree, Relies, Deploying, AfterRun
<1>4. \A b : /\ Ready(b) \in Launches /\ Ready(b).pc = "run"
             /\ Ready(b).elders = launch[p].elders
             /\ Ready(b).owed = launch[p].owed /\ Ready(b).loose = launch[p].loose
             /\ Ready(b).answer = launch[p].answer
  BY <1>2, FreePortIsPort DEF Launches, Deploying
<1>. HIDE DEF Ready
<1>5. \A b : Agree(Ready(b), job[p])
  BY <1>1, <1>2, <1>3, <1>4 DEF Agree, AtDocker, AfterRun, Deploying, Stopping
<1>6. \A b : Relies(Ready(b), job[p])
  BY <1>1, <1>2, <1>3, <1>4 DEF Relies, AfterRun, Deploying, Stopping
<1>7. CASE box' = cleared /\ Turn(p, Ready(cleared), Down(n))
  <2>. DEFINE l == Ready(cleared)
  <2>0. NoBox \in Boxes /\ NoBox.id = None /\ ~Alive(NoBox)
    BY DEF NoBox, Boxes, None, Alive
  <2>1. /\ box' \in [Names -> Boxes] /\ \A k \in Names \ {n} : box'[k] = box[k]
        /\ box'[n].id = None /\ ~Alive(box'[n])
    BY <1>2, <1>7, <2>0
  <2>4. /\ l \in Launches /\ l.pc = "run" /\ l.elders = launch[p].elders
        /\ l.owed = launch[p].owed /\ l.loose = launch[p].loose
        /\ l.answer = launch[p].answer /\ Agree(l, job[p]) /\ Relies(l, job[p])
        /\ Turn(p, l, Down(n)) /\ n = Listed[job[p].model]
    BY <1>4, <1>5, <1>6, <1>7 DEF Target
  <2>. HIDE DEF l, n, cleared
  <2>2. /\ EngineInv' /\ Seen(box'[n]) = "down"
        /\ \A k \in Names \ {n} : Seen(box'[k]) = Seen(box[k])
        /\ job' = [job EXCEPT ![p] = job[p]]
    BY <1>1, <1>2, <1>3, <2>1, <2>4, NameDown
  <2>3. FleetStep
    BY <1>1, <1>2, <1>3, <2>2, <2>4, DownMaps
  <2>. QED BY <2>2, <2>3
<1>8. CASE Turn(p, Ready(box), {}) /\ UNCHANGED box
  BY <1>1, <1>2, <1>3, <1>4, <1>5, <1>6, <1>8, QuietlyHere
<1>. QED BY <1>1, <1>7, <1>8

(* A deployment runs its container.                                         *)
LEMMA BringUpMaps ==
    ASSUME EngineInv, NEW p \in Procs, NEW l \in Launches, NEW n \in Names,
           Turn(p, l, {}), UNCHANGED job, launch[p].pc \notin {"ready", "done"},
           l.pc # "ready", job[p].op = "deploy", n = Listed[job[p].model],
           l.owed = {}, l.elders = launch[p].elders, l.loose = launch[p].loose,
           l.answer = launch[p].answer,
           Seen(box[n]) = "down", Seen(box'[n]) = "up",
           \A k \in Names \ {n} : Seen(box'[k]) = Seen(box[k])
    PROVE  FleetStep
<1>1. FleetState' = [FleetState EXCEPT ![n] = "up"] /\ FleetState[n] = "down"
  BY DEF FleetState
<1>2. /\ launch[p] \in Launches /\ job[p] \in Jobs /\ job[p].model \in Models
      /\ launch[p].answer = "none" /\ FleetAsk \in [Procs -> Asks]
      /\ job' = [job EXCEPT ![p] = job[p]]
  BY Here, AskTyped DEF Agree, EngineInv, CacheInv, CacheTypeOK
<1>3. /\ FleetAsk[p] \in Asks
      /\ FleetAsk[p].kind = job[p].op /\ FleetAsk[p].name = n
      /\ FleetAsk[p].answer = "none" /\ FleetAsk[p].elders = launch[p].elders
      /\ FleetAsk[p].loose = launch[p].loose
  BY <1>2, AskFields
<1>4. /\ Asked(l, job[p]) \in Asks
      /\ Asked(l, job[p]).kind = job[p].op /\ Asked(l, job[p]).name = n
      /\ Asked(l, job[p]).owed = {} /\ Asked(l, job[p]).elders = launch[p].elders
      /\ Asked(l, job[p]).loose = launch[p].loose
      /\ Asked(l, job[p]).answer = launch[p].answer
  BY <1>2, AskedTyped
<1>5. Asked(l, job[p]) = Owes(FleetAsk[p], {})
  <2>. DEFINE v == Asked(l, job[p])
              u == FleetAsk[p]
  <2>1. u \in Asks /\ v \in Asks /\ v.kind = u.kind /\ v.name = u.name /\ v.owed = {}
        /\ v.elders = u.elders /\ v.loose = u.loose /\ v.answer = u.answer
    BY <1>2, <1>3, <1>4
  <2>. HIDE DEF u, v
  <2>2. v = Owes(u, {})
    BY <2>1, IsOwing
  <2>. QED BY <2>2 DEF u, v
<1>6. [FleetAsk EXCEPT ![p] = Asked(l, job[p])] = [FleetAsk EXCEPT ![p].owed = {}]
  <2>1. [FleetAsk EXCEPT ![p].owed = {}] = [FleetAsk EXCEPT ![p] = Owes(FleetAsk[p], {})]
    BY DEF Owes
  <2>. QED BY <1>5, <2>1
<1>7. [FleetAsk EXCEPT ![p] = Asked(l, job[p])] \in [Procs -> Asks]
  BY <1>2, <1>4
<1>8. FleetAsk' = Promises!Sunk({}, [FleetAsk EXCEPT ![p] = Asked(l, job[p])])
  BY ZenonT(30), <1>2, AskTurns
<1>9. FleetAsk' = [FleetAsk EXCEPT ![p].owed = {}]
  BY <1>6, <1>7, <1>8, SunkNone
<1>10. Promises!BringUp(p)
  BY <1>1, <1>3, <1>9 DEF Promises!BringUp, Promises!Pending
<1>. QED BY <1>10 DEF FleetStep, Promises!Next

LEMMA RunKeeps ==
    ASSUME EngineInv, NEW p \in Procs, Run(p) PROVE EngineInv' /\ FleetStep
<1>. DEFINE n == Target(p)
            made(state) == [id |-> p, state |-> state, port |-> launch[p].port]
<1>1. /\ launch[p].pc = "run" /\ SameDisk /\ (Fault \/ UNCHANGED faults)
      /\ UNCHANGED records
      /\ \/ Exit(p, "failed") /\ UNCHANGED box
         \/ ~Exists(n) /\ box' = [box EXCEPT ![n] = made("created")] /\ Exit(p, "failed")
         \/ /\ ~Exists(n) /\ box' = [box EXCEPT ![n] = made("running")] /\ UNCHANGED job
            /\ Turn(p, [launch[p] EXCEPT !.pc = "health", !.port = 0, !.owed = {}], {})
  BY DEF Run, InEngine
<1>2. /\ launch[p] \in Launches /\ job[p] \in Jobs /\ Agree(launch[p], job[p])
      /\ Relies(launch[p], job[p]) /\ records' \in [Models -> Nat]
      /\ box \in [Names -> Boxes] /\ n \in Names /\ launch[p].elders \subseteq Up
      /\ \A k \in Names : box[k].id = p => Ran(launch[p], job[p], k, box[k])
  BY <1>1, Here DEF Target
<1>3. /\ job[p].op = "deploy" /\ launch[p].answer = "none"
      /\ launch[p].pc \notin AfterRun /\ n = Listed[job[p].model]
      /\ \A k \in Names : box[k].id # p
  BY <1>1, <1>2 DEF Agree, Relies, Deploying, AfterRun, Ran, Target
<1>4. /\ made("created") \in Boxes /\ made("running") \in Boxes
      /\ made("created").id = p /\ made("running").id = p
      /\ ~Alive(made("created")) /\ made("running").state = "running"
  <2>1. launch[p].port \in Ports \cup {0} /\ p \in Nat /\ p # None
    BY <1>2, EngineTypes DEF Launches
  <2>. QED BY <2>1 DEF Boxes, Alive
<1>. HIDE DEF made
<1>5. CASE Exit(p, "failed") /\ UNCHANGED box
  BY <1>1, <1>2, <1>3, <1>5, Exits DEF Answers
<1>6. ASSUME ~Exists(n)
      PROVE  box[n] \in Boxes /\ Seen(box[n]) = "down" /\ ~Running(n)
  BY <1>2, <1>6, SeenUp DEF Exists, Alive, Running
<1>7. CASE /\ ~Exists(n)
           /\ box' = [box EXCEPT ![n] = made("created")] /\ Exit(p, "failed")
  <2>. DEFINE l == Departed(p, "failed")
  <2>1. PICK b \in {"ok", "failed"} : Step(p, Done(job[p], b))
    BY <1>7 DEF Exit
  <2>. DEFINE j == Done(job[p], b)
  <2>2. /\ l \in Launches /\ l.pc = "done" /\ l.answer = "failed" /\ l.elders = {}
        /\ l.owed = launch[p].owed /\ l.loose = launch[p].loose
        /\ j \in Jobs /\ j.pc = "done" /\ TidyJob(j) /\ j.op = job[p].op
        /\ j.model = job[p].model
    BY <1>1, ExitForms DEF Answers
  <2>3. Turn(p, l, {}) /\ job' = [job EXCEPT ![p] = j]
    BY <1>7, <2>1 DEF Exit, Step, Departed
  <2>. HIDE DEF l, j
  <2>4. /\ box' \in [Names -> Boxes] /\ box'[n] = made("created")
        /\ \A k \in Names \ {n} : box'[k] = box[k]
    BY <1>2, <1>4, <1>7
  <2>5. \A k \in Names : Seen(box'[k]) = Seen(box[k])
    BY <1>4, <1>6, <1>7, <2>4, SeenUp
  <2>6. \A k \in Names : box'[k].id = p => Ran(l, j, k, box'[k])
    BY <1>3, <1>4, <2>2, <2>4 DEF Ran
  <2>7. \A k \in Names :
           \/ box'[k].id = None
           \/ box'[k].id = p
           \/ box'[k].id = box[k].id /\ (Alive(box'[k]) => Alive(box[k]))
    BY <1>4, <2>4
  <2>8. faults' \in 0..MaxFaults /\ l.answer \in Answers \ {"none"}
    BY <1>1, <2>2, FaultOrNot DEF Answers
  <2>. QED BY <1>1, <1>2, <2>2, <2>3, <2>4, <2>5, <2>6, <2>7, <2>8, Leaves
<1>8. CASE /\ ~Exists(n) /\ box' = [box EXCEPT ![n] = made("running")] /\ UNCHANGED job
           /\ Turn(p, [launch[p] EXCEPT !.pc = "health", !.port = 0, !.owed = {}], {})
  <2>. DEFINE l == [launch[p] EXCEPT !.pc = "health", !.port = 0, !.owed = {}]
  <2>1. /\ l \in Launches /\ l.pc = "health" /\ l.elders = launch[p].elders
        /\ l.owed = {} /\ l.loose = launch[p].loose
        /\ l.answer = launch[p].answer /\ Turn(p, l, {})
    BY <1>2, <1>8 DEF Launches, Deploying
  <2>. HIDE DEF l
  <2>2. Agree(l, job[p])
    BY <1>1, <1>2, <1>3, <2>1 DEF Agree, AtDocker, AfterRun, Deploying, Stopping
  <2>3. Relies(l, job[p])
    BY <1>1, <1>2, <1>3, <2>1 DEF Relies, AfterRun, Deploying, Stopping
  <2>4. /\ box' \in [Names -> Boxes] /\ box'[n] = made("running")
        /\ \A k \in Names \ {n} : box'[k] = box[k]
    BY <1>2, <1>4, <1>8
  <2>5. Up \ {} \subseteq Up'
    BY <1>6, <1>8, <2>4 DEF Up, Running
  <2>6. \A k \in Names : box'[k].id = p => Ran(l, job[p], k, box'[k])
    BY <1>3, <1>4, <2>1, <2>4 DEF Ran, AfterRun
  <2>7. \A k \in Names :
           \/ box'[k].id = None
           \/ box'[k].id = p
           \/ box'[k].id = box[k].id /\ (Alive(box'[k]) => Alive(box[k]))
    BY <1>4, <2>4
  <2>8. CacheInv' /\ job' = [job EXCEPT ![p] = job[p]]
    BY <1>1, <1>8, DiskRests, FaultOrNot DEF EngineInv, CacheInv, CacheTypeOK
  <2>9. EngineInv'
    BY <1>2, <2>1, <2>2, <2>3, <2>4, <2>5, <2>6, <2>7, <2>8, StepKeeps
  <2>10. Seen(box[n]) = "down" /\ Seen(box'[n]) = "up"
         /\ \A k \in Names \ {n} : Seen(box'[k]) = Seen(box[k])
    BY <1>4, <1>6, <1>8, <2>4, SeenUp
  <2>11. FleetStep
    BY <1>1, <1>2, <1>3, <1>8, <2>1, <2>10, BringUpMaps
  <2>. QED BY <2>9, <2>11
<1>. QED BY <1>1, <1>5, <1>7, <1>8

(* A stop of all looks: what it owes is what it found up, or remembers.     *)
LEMMA SurveyMaps ==
    ASSUME EngineInv, NEW p \in Procs, NEW l \in Launches,
           Turn(p, l, {}), UNCHANGED job, UNCHANGED box,
           launch[p].pc \notin {"ready", "done"},
           l.pc # "ready", job[p].op = "stop all",
           l.elders = launch[p].elders, l.answer = launch[p].answer,
           \/ l.owed = Up /\ l.loose = launch[p].loose
           \/ l.loose = TRUE
    PROVE  FleetStep
<1>1. FleetState' = FleetState
  BY StateSame
<1>2. /\ launch[p] \in Launches /\ job[p] \in Jobs /\ job[p].model \in Models
      /\ launch[p].answer = "none" /\ FleetAsk \in [Procs -> Asks]
      /\ job' = [job EXCEPT ![p] = job[p]] /\ box \in [Names -> Boxes]
      /\ l.owed \in SUBSET Names
  BY Here, AskTyped DEF Agree, EngineInv, CacheInv, CacheTypeOK, Launches
<1>. DEFINE v == Asked(l, job[p])
            u == FleetAsk[p]
<1>3. /\ u \in Asks /\ u.kind = "stop all" /\ u.answer = "none"
      /\ u.name = Listed[job[p].model] /\ u.elders = launch[p].elders
      /\ u.loose = launch[p].loose
  BY <1>2, AskFields
<1>4. /\ v \in Asks /\ v.kind = "stop all" /\ v.name = Listed[job[p].model]
      /\ v.owed = l.owed /\ v.elders = launch[p].elders /\ v.loose = l.loose
      /\ v.answer = "none"
  BY <1>2, AskedTyped
<1>5. [FleetAsk EXCEPT ![p] = v] \in [Procs -> Asks]
  BY <1>2, <1>4
<1>6. FleetAsk' = Promises!Sunk({}, [FleetAsk EXCEPT ![p] = v])
  BY <1>2, AskTurns
<1>7. FleetAsk' = [FleetAsk EXCEPT ![p] = v]
  BY <1>5, <1>6, SunkNone
<1>8. CASE l.owed = Up /\ l.loose = launch[p].loose
  <2>. HIDE DEF u, v
  <2>1. v = Owes(u, Up)
    BY ZenonT(30), <1>2, <1>3, <1>4, <1>8, IsOwing
  <2>2. FleetAsk' = [FleetAsk EXCEPT ![p].owed = Up]
    BY <1>7, <2>1 DEF Owes, u
  <2>3. Promises!Up = Up
    BY <1>2, UpIsUp
  <2>4. Promises!Survey(p)
    BY <1>1, <1>3, <2>2, <2>3 DEF Promises!Survey, Promises!Pending, u
  <2>. QED BY <2>4 DEF FleetStep, Promises!Next
<1>9. CASE l.loose = TRUE
  <2>. HIDE DEF u, v
  <2>1. v = Recalls(u, l.owed)
    BY ZenonT(30), <1>2, <1>3, <1>4, <1>9, IsRecall
  <2>2. FleetAsk' = [FleetAsk EXCEPT ![p].owed = l.owed, ![p].loose = TRUE]
    BY <1>7, <2>1 DEF Recalls, u
  <2>4. Promises!Survey(p)
    BY <1>1, <1>2, <1>3, <2>2 DEF Promises!Survey, Promises!Pending, u
  <2>. QED BY <2>4 DEF FleetStep, Promises!Next
<1>. QED BY <1>8, <1>9

LEMMA SurveyKeeps ==
    ASSUME EngineInv, NEW p \in Procs, Survey(p) PROVE EngineInv' /\ FleetStep
<1>. DEFINE recorded == {m \in Models : launch[p].recs[m] # None}
            names == {Listed[m] : m \in recorded}
            seen == [launch[p] EXCEPT !.pc = "query", !.todo = Up, !.owed = Up]
            recalled == [launch[p] EXCEPT !.pc = "query", !.todo = recorded,
                                          !.owed = names, !.loose = TRUE]
<1>1. /\ launch[p].pc = "survey" /\ SameDisk /\ (Fault \/ UNCHANGED faults)
      /\ UNCHANGED box /\ UNCHANGED records /\ UNCHANGED job
      /\ Turn(p, seen, {}) \/ Turn(p, recalled, {})
  BY DEF Survey, InEngine
<1>2. /\ launch[p] \in Launches /\ job[p] \in Jobs /\ Agree(launch[p], job[p])
      /\ records' \in [Models -> Nat] /\ job' = [job EXCEPT ![p] = job[p]]
      /\ CacheInv'
  BY <1>1, Here, DiskRests, FaultOrNot DEF EngineInv, CacheInv, CacheTypeOK
<1>3. /\ job[p].op = "stop all" /\ launch[p].answer = "none"
      /\ launch[p].pc \notin AfterRun
  BY <1>1, <1>2 DEF Agree, AfterRun
<1>4. ASSUME NEW l \in Launches, Turn(p, l, {}), l.pc = "query",
             l.elders = launch[p].elders, l.answer = launch[p].answer,
             l.owed \subseteq Owing(l),
             \/ l.owed = Up /\ l.loose = launch[p].loose
             \/ l.loose = TRUE
      PROVE  EngineInv' /\ FleetStep
  <2>1. Agree(l, job[p])
    BY <1>1, <1>2, <1>3, <1>4 DEF Agree, AtDocker, AfterRun, Deploying, Stopping
  <2>2. Relies(l, job[p])
    BY <1>3, <1>4 DEF Relies, AfterRun, Deploying, Stopping
  <2>3. EngineInv'
    BY <1>1, <1>2, <1>3, <1>4, <2>1, <2>2, GoesOn
  <2>4. FleetStep
    BY <1>1, <1>3, <1>4, SurveyMaps
  <2>. QED BY <2>3, <2>4
<1>5. CASE Turn(p, seen, {})
  <2>. DEFINE l == seen
  <2>1. Up \subseteq Names
    BY DEF Up
  <2>2. /\ l \in Launches /\ l.pc = "query" /\ l.elders = launch[p].elders
        /\ l.answer = launch[p].answer /\ l.owed = Up /\ l.todo = Up
        /\ l.loose = launch[p].loose
    BY <1>2, <2>1 DEF Launches, Stopping
  <2>3. Turn(p, l, {})
    BY <1>5
  <2>. HIDE DEF l
  <2>4. l.owed \subseteq Owing(l)
    <3>. SUFFICES ASSUME NEW n \in Up PROVE n \in Owing(l)
      BY <2>2
    <3>1. Called(n) = n
      BY <2>1, EngineTypes DEF Called
    <3>. QED BY <2>2, <3>1 DEF Owing
  <2>. QED BY <1>4, <2>2, <2>3, <2>4
<1>6. CASE Turn(p, recalled, {})
  <2>. DEFINE l == recalled
  <2>1. recorded \subseteq Models /\ names \subseteq Names
    BY EngineTypes
  <2>2. /\ l \in Launches /\ l.pc = "query" /\ l.elders = launch[p].elders
        /\ l.answer = launch[p].answer /\ l.owed = names /\ l.todo = recorded
        /\ l.loose = TRUE
    BY <1>2, <2>1 DEF Launches, Stopping
  <2>3. Turn(p, l, {})
    BY <1>6
  <2>. HIDE DEF l
  <2>4. l.owed \subseteq Owing(l)
    <3>. SUFFICES ASSUME NEW m \in recorded PROVE Listed[m] \in Owing(l)
      BY <2>2
    <3>1. Called(m) = Listed[m]
      BY <2>1 DEF Called
    <3>. QED BY <2>2, <3>1 DEF Owing
  <2>. QED BY <1>4, <2>2, <2>3, <2>4
<1>. QED BY <1>1, <1>5, <1>6

LEMMA QueryKeeps ==
    ASSUME EngineInv, NEW p \in Procs, Query(p) PROVE EngineInv' /\ FleetStep
<1>1. PICK n \in launch[p].todo :
         \/ /\ n \in Names
            /\ Turn(p, [launch[p] EXCEPT !.pc = "halt", !.name = n, !.id = box[n].id,
                                         !.todo = @ \ {n}], {})
         \/ Turn(p, [launch[p] EXCEPT !.todo = @ \ {n}, !.fails = TRUE], {})
  BY DEF Query
<1>2. /\ launch[p].pc = "query" /\ SameDisk /\ (Fault \/ UNCHANGED faults)
      /\ UNCHANGED box /\ UNCHANGED records /\ UNCHANGED job
  BY DEF Query, InEngine
<1>3. /\ launch[p] \in Launches /\ job[p] \in Jobs /\ Agree(launch[p], job[p])
      /\ Relies(launch[p], job[p]) /\ records' \in [Models -> Nat]
      /\ box \in [Names -> Boxes] /\ job[p].model \in Models
  BY <1>2, Here
<1>4. /\ job[p].op \in {"stop", "stop all"} /\ launch[p].answer = "none"
      /\ launch[p].pc \notin AfterRun
      /\ job[p].op = "stop" => launch[p].todo \subseteq {job[p].model}
      /\ ~launch[p].fails => launch[p].owed \subseteq Owing(launch[p])
  BY <1>2, <1>3 DEF Agree, Relies, Stopping, AfterRun
<1>5. CASE /\ n \in Names
           /\ Turn(p, [launch[p] EXCEPT !.pc = "halt", !.name = n, !.id = box[n].id,
                                        !.todo = @ \ {n}], {})
  <2>. DEFINE l == [launch[p] EXCEPT !.pc = "halt", !.name = n, !.id = box[n].id,
                                     !.todo = @ \ {n}]
  <2>1. box[n].id \in Nat
    BY <1>3, <1>5 DEF Boxes
  <2>2. /\ l \in Launches /\ l.pc = "halt" /\ l.name = n /\ l.todo = launch[p].todo \ {n}
        /\ l.elders = launch[p].elders /\ l.answer = launch[p].answer
        /\ l.owed = launch[p].owed /\ l.loose = launch[p].loose
        /\ l.fails = launch[p].fails /\ Turn(p, l, {})
    BY <1>3, <1>5, <2>1 DEF Launches, Stopping
  <2>. HIDE DEF l
  <2>3. Called(n) = n
    BY <1>5, EngineTypes DEF Called
  <2>4. Owing(launch[p]) \subseteq Owing(l) \cup {n}
    BY <2>2, <2>3 DEF Owing
  <2>5. job[p].op = "stop" => n = Listed[job[p].model]
    BY <1>3, <1>4, <1>5, EngineTypes
  <2>6. Agree(l, job[p])
    BY <1>2, <1>3, <1>4, <2>2 DEF Agree, AtDocker, AfterRun, Deploying, Stopping
  <2>7. Relies(l, job[p])
    BY <1>4, <1>5, <2>2, <2>4, <2>5 DEF Relies, AfterRun, Deploying, Stopping
  <2>. QED BY <1>2, <1>3, <1>4, <2>2, <2>6, <2>7, QuietlyHere
<1>6. CASE Turn(p, [launch[p] EXCEPT !.todo = @ \ {n}, !.fails = TRUE], {})
  <2>. DEFINE l == [launch[p] EXCEPT !.todo = @ \ {n}, !.fails = TRUE]
  <2>2. /\ l \in Launches /\ l.pc = "query" /\ l.todo = launch[p].todo \ {n}
        /\ l.elders = launch[p].elders /\ l.answer = launch[p].answer
        /\ l.owed = launch[p].owed /\ l.loose = launch[p].loose
        /\ l.fails = TRUE /\ Turn(p, l, {})
    BY <1>2, <1>3, <1>6 DEF Launches
  <2>. HIDE DEF l
  <2>6. Agree(l, job[p])
    BY <1>2, <1>3, <1>4, <2>2 DEF Agree, AtDocker, AfterRun, Deploying, Stopping
  <2>7. Relies(l, job[p])
    BY <1>4, <2>2 DEF Relies, AfterRun, Deploying, Stopping
  <2>. QED BY <1>2, <1>3, <1>4, <2>2, <2>6, <2>7, QuietlyHere
<1>. QED BY <1>1, <1>5, <1>6

LEMMA HaltKeeps ==
    ASSUME EngineInv, NEW p \in Procs, Halt(p) PROVE EngineInv' /\ FleetStep
<1>. DEFINE n == launch[p].name
            failed == [launch[p] EXCEPT !.pc = "query", !.fails = TRUE,
                                        !.name = "none", !.id = None]
            halted == [launch[p] EXCEPT !.pc = "erase", !.owed = @ \ {n}]
<1>1. /\ launch[p].pc = "halt" /\ SameDisk /\ (Fault \/ UNCHANGED faults)
      /\ UNCHANGED records /\ UNCHANGED job
      /\ \/ box' = Stopped(n) /\ Turn(p, halted, Down(n))
         \/ Turn(p, failed, {}) /\ UNCHANGED box
  BY DEF Halt, InEngine
<1>3. /\ launch[p] \in Launches /\ job[p] \in Jobs /\ Agree(launch[p], job[p])
      /\ Relies(launch[p], job[p]) /\ records' \in [Models -> Nat]
      /\ box \in [Names -> Boxes] /\ job[p].model \in Models
  BY <1>1, Here
<1>4. /\ job[p].op \in {"stop", "stop all"} /\ launch[p].answer = "none"
      /\ launch[p].pc \notin AfterRun /\ n \in Names
      /\ job[p].op = "stop" => launch[p].todo \subseteq {job[p].model}
                               /\ n = Listed[job[p].model]
      /\ ~launch[p].fails => launch[p].owed \subseteq Owing(launch[p]) \cup {n}
  BY <1>1, <1>3 DEF Agree, Relies, Stopping, AfterRun
<1>5. CASE box' = Stopped(n) /\ Turn(p, halted, Down(n))
  <2>. DEFINE l == halted
  <2>1. /\ box' \in [Names -> Boxes] /\ \A k \in Names \ {n} : box'[k] = box[k]
        /\ box'[n].id = box[n].id /\ ~Alive(box'[n])
    BY <1>3, <1>4, <1>5, StoppedBox
  <2>2. /\ l \in Launches /\ l.pc = "erase" /\ l.todo = launch[p].todo
        /\ l.elders = launch[p].elders /\ l.answer = launch[p].answer
        /\ l.owed = launch[p].owed \ {n} /\ l.loose = launch[p].loose
        /\ l.fails = launch[p].fails /\ l.name = n /\ Turn(p, l, Down(n))
    BY <1>3, <1>5 DEF Launches, Stopping
  <2>. HIDE DEF l
  <2>3. Agree(l, job[p])
    BY <1>1, <1>3, <1>4, <2>2 DEF Agree, AtDocker, AfterRun, Deploying, Stopping
  <2>4. Owing(l) = Owing(launch[p])
    BY <2>2 DEF Owing
  <2>5. Relies(l, job[p])
    BY <1>4, <2>2, <2>4 DEF Relies, AfterRun, Deploying, Stopping
  <2>6. /\ EngineInv' /\ Seen(box'[n]) = "down"
        /\ \A k \in Names \ {n} : Seen(box'[k]) = Seen(box[k])
        /\ job' = [job EXCEPT ![p] = job[p]]
    BY <1>1, <1>3, <1>4, <2>1, <2>2, <2>3, <2>5, NameDown
  <2>7. FleetStep
    BY <1>1, <1>3, <1>4, <2>2, <2>6, DownMaps
  <2>. QED BY <2>6, <2>7
<1>6. CASE Turn(p, failed, {}) /\ UNCHANGED box
  <2>. DEFINE l == failed
  <2>2. /\ l \in Launches /\ l.pc = "query" /\ l.todo = launch[p].todo
        /\ l.elders = launch[p].elders /\ l.answer = launch[p].answer
        /\ l.owed = launch[p].owed /\ l.loose = launch[p].loose
        /\ l.fails = TRUE /\ Turn(p, l, {})
    BY <1>3, <1>6 DEF Launches, Stopping, None
  <2>. HIDE DEF l
  <2>3. Agree(l, job[p])
    BY <1>1, <1>3, <1>4, <2>2 DEF Agree, AtDocker, AfterRun, Deploying, Stopping
  <2>4. Relies(l, job[p])
    BY <1>4, <2>2 DEF Relies, AfterRun, Deploying, Stopping
  <2>. QED BY <1>1, <1>3, <1>4, <1>6, <2>2, <2>3, <2>4, QuietlyHere
<1>. QED BY <1>1, <1>5, <1>6

LEMMA EraseKeeps ==
    ASSUME EngineInv, NEW p \in Procs, Erase(p) PROVE EngineInv' /\ FleetStep
<1>. DEFINE n == launch[p].name
            l == [launch[p] EXCEPT !.pc = "query", !.name = "none", !.id = None]
<1>1. /\ launch[p].pc = "erase" /\ SameDisk /\ (Fault \/ UNCHANGED faults)
      /\ UNCHANGED records /\ UNCHANGED job /\ Turn(p, l, {})
      /\ \/ ~Alive(box[n]) /\ box' = [box EXCEPT ![n] = NoBox]
         \/ UNCHANGED box
  BY DEF Erase, InEngine, Alive
<1>2. /\ launch[p] \in Launches /\ job[p] \in Jobs /\ Agree(launch[p], job[p])
      /\ Relies(launch[p], job[p]) /\ records' \in [Models -> Nat]
      /\ box \in [Names -> Boxes]
  BY <1>1, Here
<1>3. /\ job[p].op \in {"stop", "stop all"} /\ launch[p].answer = "none"
      /\ launch[p].pc \notin AfterRun /\ n \in Names
      /\ job[p].op = "stop" => launch[p].todo \subseteq {job[p].model}
      /\ ~launch[p].fails => launch[p].owed \subseteq Owing(launch[p])
  BY <1>1, <1>2 DEF Agree, Relies, Stopping, AfterRun
<1>4. /\ l \in Launches /\ l.pc = "query" /\ l.todo = launch[p].todo
      /\ l.elders = launch[p].elders /\ l.answer = launch[p].answer
      /\ l.owed = launch[p].owed /\ l.loose = launch[p].loose
      /\ l.fails = launch[p].fails
  BY <1>2 DEF Launches, Stopping, None
<1>. HIDE DEF l
<1>5. Agree(l, job[p])
  BY <1>1, <1>2, <1>3, <1>4 DEF Agree, AtDocker, AfterRun, Deploying, Stopping
<1>6. Relies(l, job[p])
  <2>1. Owing(l) = Owing(launch[p])
    BY <1>4 DEF Owing
  <2>. QED BY <1>3, <1>4, <2>1 DEF Relies, AfterRun, Deploying, Stopping
<1>7. CASE ~Alive(box[n]) /\ box' = [box EXCEPT ![n] = NoBox]
  <2>0. NoBox \in Boxes /\ NoBox.id = None /\ ~Alive(NoBox)
    BY DEF NoBox, Boxes, None, Alive
  <2>1. /\ box' \in [Names -> Boxes] /\ \A k \in Names \ {n} : box'[k] = box[k]
        /\ box'[n].id = None /\ ~Alive(box'[n])
    BY <1>2, <1>3, <1>7, <2>0
  <2>2. Down(n) = {}
    BY <1>7 DEF Down, Up, Running, Alive
  <2>3. Turn(p, l, Down(n))
    BY <1>1, <2>2
  <2>. HIDE DEF n
  <2>4. /\ EngineInv' /\ Seen(box'[n]) = "down"
        /\ \A k \in Names \ {n} : Seen(box'[k]) = Seen(box[k])
        /\ job' = [job EXCEPT ![p] = job[p]]
    BY <1>1, <1>2, <1>3, <1>4, <1>5, <1>6, <2>1, <2>3, NameDown
  <2>5. Seen(box[n]) = "down"
    BY <1>2, <1>3, <1>7, SeenUp
  <2>6. \A k \in Names : Seen(box'[k]) = Seen(box[k])
    BY <2>4, <2>5
  <2>7. launch[p].pc # "ready" /\ l.pc # "ready"
    BY <1>1, <1>4
  <2>8. FleetStep
    BY <1>1, <1>2, <1>4, <2>4, <2>6, <2>7, QuietMaps
  <2>. QED BY <2>4, <2>8
<1>8. CASE UNCHANGED box
  BY <1>1, <1>2, <1>3, <1>4, <1>5, <1>6, <1>8, QuietlyHere
<1>. QED BY <1>1, <1>7, <1>8

(* A model falls over by itself.                                            *)
LEMMA FalterKeeps ==
    ASSUME EngineInv, NEW n \in Names, Falter(n) PROVE EngineInv' /\ FleetStep
<1>. DEFINE c == [box[n] EXCEPT !.state = "restarting"]
<1>1. /\ Running(n) /\ Fault /\ box' = [box EXCEPT ![n] = c]
      /\ launch' = [q \in Procs |-> Less(launch[q], {n})]
      /\ SameDisk /\ UNCHANGED job /\ UNCHANGED records
  BY DEF Falter, Less
<1>2. /\ box \in [Names -> Boxes] /\ box[n] \in Boxes /\ box[n].state = "running"
      /\ job \in [Procs -> Jobs] /\ launch \in [Procs -> Launches]
      /\ records \in [Models -> Nat]
  BY <1>1 DEF EngineInv, CacheInv, CacheTypeOK, Running
<1>3. c \in Boxes /\ c.id = box[n].id /\ c.state = "restarting"
  BY <1>2 DEF Boxes
<1>. HIDE DEF c
<1>4. /\ box' \in [Names -> Boxes] /\ box'[n] = c
      /\ \A k \in Names \ {n} : box'[k] = box[k]
  BY <1>1, <1>2, <1>3
<1>5. CacheInv'
  BY <1>1, DiskRests, FaultOrNot
<1>6. Up \ {n} \subseteq Up'
  BY <1>4 DEF Up, Running
<1>7. launch' \in [Procs -> Launches]
  <2>1. \A l \in Launches : Less(l, {n}) \in Launches
    BY DEF Launches, Less
  <2>. QED BY <1>1, <1>2, <2>1
<1>8. ASSUME NEW q \in Procs
      PROVE  /\ Agree(launch'[q], job'[q]) /\ Relies(launch'[q], job'[q])
             /\ launch'[q].elders \subseteq Up'
             /\ \A k \in Names : box'[k].id = q => Ran(launch'[q], job'[q], k, box'[k])
  <2>1. /\ launch[q] \in Launches /\ Agree(launch[q], job[q]) /\ Relies(launch[q], job[q])
        /\ launch[q].elders \subseteq Up /\ launch'[q] = Less(launch[q], {n})
        /\ job'[q] = job[q]
    BY <1>1, <1>2 DEF EngineInv
  <2>2. /\ Agree(launch'[q], job[q]) /\ Relies(launch'[q], job[q])
        /\ launch'[q].elders = launch[q].elders \ {n}
        /\ \A k, b : Ran(launch[q], job[q], k, b) => Ran(launch'[q], job[q], k, b)
    BY ONLY <2>1, Fewer
  <2>3. launch'[q].elders \subseteq Up'
    BY <1>6, <2>1, <2>2
  <2>4. ASSUME NEW k \in Names, box'[k].id = q PROVE Ran(launch[q], job[q], k, box'[k])
    <3>1. box[k].id = q /\ (Alive(box'[k]) => Alive(box[k]))
      BY <1>2, <1>3, <1>4, <2>4 DEF Alive
    <3>2. Ran(launch[q], job[q], k, box[k])
      BY <3>1 DEF EngineInv
    <3>. QED BY <3>1, <3>2 DEF Ran
  <2>. QED BY <2>1, <2>2, <2>3, <2>4
<1>9. EngineInv'
  <2>1. records' \in [Models -> Nat]
    BY <1>1, <1>2
  <2>. QED BY <1>4, <1>5, <1>7, <1>8, <2>1 DEF EngineInv
<1>10. FleetState' = [FleetState EXCEPT ![n] = "faltering"] /\ FleetState[n] = "up"
  <2>1. Seen(box[n]) = "up" /\ Seen(box'[n]) = "faltering"
    BY <1>2, <1>3, <1>4, SeenUp
  <2>2. FleetState[n] = "up"
    BY <2>1 DEF FleetState
  <2>3. FleetState' = [FleetState EXCEPT ![n] = "faltering"]
    <3>1. \A k \in Names \ {n} : Seen(box'[k]) = Seen(box[k])
      BY <1>4
    <3>. QED BY <2>1, <3>1 DEF FleetState
  <2>. QED BY <2>2, <2>3
<1>11. FleetAsk' = Promises!Sunk({n}, FleetAsk)
  <2>1. ASSUME NEW q \in Procs
        PROVE  Asked(launch'[q], job'[q]) = [FleetAsk[q] EXCEPT !.elders = @ \ {n}]
    <3>1. launch[q] \in Launches /\ job'[q] = job[q] /\ launch'[q] = Less(launch[q], {n})
          /\ FleetAsk[q] = Asked(launch[q], job[q])
      BY <1>1, <1>2 DEF FleetAsk
    <3>2. CASE launch[q].pc = "ready"
      <4>1. Less(launch[q], {n}).pc = "ready"
        BY <3>1, <3>2, Fewer
      <4>2. /\ Asked(Less(launch[q], {n}), job[q]) = Unasked
            /\ Asked(launch[q], job[q]) = Unasked
        BY <3>2, <4>1 DEF Asked, Unasked
      <4>3. [Unasked EXCEPT !.elders = @ \ {n}] = Unasked
        BY DEF Unasked
      <4>. QED BY <3>1, <4>2, <4>3
    <3>3. CASE launch[q].pc # "ready"
      <4>1. Asked(Less(launch[q], {n}), job[q])
               = [Asked(launch[q], job[q]) EXCEPT !.elders = @ \ {n}]
        BY <3>1, <3>3, AskedLess
      <4>. QED BY <3>1, <4>1
    <3>. QED BY <3>2, <3>3
  <2>. QED BY <2>1 DEF FleetAsk, Promises!Sunk
<1>12. Promises!Falter(n)
  BY <1>10, <1>11 DEF Promises!Falter
<1>. QED BY <1>9, <1>12 DEF FleetStep, Promises!Next

LEMMA RecoverKeeps ==
    ASSUME EngineInv, NEW n \in Names, Recover(n) PROVE EngineInv' /\ FleetStep
<1>. DEFINE c == [box[n] EXCEPT !.state = "running"]
<1>1. /\ box[n].state = "restarting" /\ box' = [box EXCEPT ![n] = c]
      /\ UNCHANGED <<cacheVars, records, launch>> /\ UNCHANGED job
      /\ UNCHANGED records /\ UNCHANGED launch
  BY DEF Recover, cacheVars
<1>2. /\ box \in [Names -> Boxes] /\ box[n] \in Boxes
      /\ records \in [Models -> Nat] /\ launch \in [Procs -> Launches]
  BY DEF EngineInv
<1>3. c \in Boxes /\ c.id = box[n].id /\ c.state = "running"
  BY <1>1, <1>2 DEF Boxes
<1>. HIDE DEF c
<1>4. /\ box' \in [Names -> Boxes] /\ box'[n] = c
      /\ \A k \in Names \ {n} : box'[k] = box[k]
  BY <1>1, <1>2, <1>3
<1>5. CacheInv'
  BY <1>1, CacheStutter DEF EngineInv
<1>6. Up \subseteq Up'
  BY <1>3, <1>4 DEF Up, Running
<1>7. \A k \in Names : box'[k].id = box[k].id /\ (Alive(box'[k]) => Alive(box[k]))
  BY <1>1, <1>3, <1>4 DEF Alive
<1>8. \A q \in Procs, k \in Names :
         box'[k].id = q => Ran(launch[q], job[q], k, box'[k])
  BY <1>7 DEF EngineInv, Ran
<1>9. EngineInv'
  <2>1. \A q \in Procs : launch'[q].elders \subseteq Up'
    BY <1>1, <1>6 DEF EngineInv
  <2>2. \A q \in Procs : Agree(launch'[q], job'[q]) /\ Relies(launch'[q], job'[q])
    BY <1>1 DEF EngineInv
  <2>3. \A q \in Procs, k \in Names :
           box'[k].id = q => Ran(launch'[q], job'[q], k, box'[k])
    BY <1>1, <1>8
  <2>4. launch' \in [Procs -> Launches] /\ records' \in [Models -> Nat]
    BY <1>1, <1>2
  <2>. QED BY <1>4, <1>5, <2>1, <2>2, <2>3, <2>4 DEF EngineInv
<1>10. FleetState' = [FleetState EXCEPT ![n] = "up"] /\ FleetState[n] = "faltering"
  <2>1. Seen(box[n]) = "faltering" /\ Seen(box'[n]) = "up"
    BY <1>1, <1>2, <1>3, <1>4, SeenUp
  <2>2. FleetState[n] = "faltering"
    BY <2>1 DEF FleetState
  <2>3. FleetState' = [FleetState EXCEPT ![n] = "up"]
    <3>1. \A k \in Names \ {n} : Seen(box'[k]) = Seen(box[k])
      BY <1>4
    <3>. QED BY <2>1, <3>1 DEF FleetState
  <2>. QED BY <2>2, <2>3
<1>11. UNCHANGED FleetAsk
  BY <1>1 DEF FleetAsk
<1>12. Promises!Recover(n)
  BY <1>10, <1>11 DEF Promises!Recover
<1>. QED BY <1>9, <1>12 DEF FleetStep, Promises!Next

(* What a step of the cache makes of the process j.                         *)
Moves(j, k) ==
    /\ k.op = j.op /\ k.model = j.model
    /\ j.pc \notin {"ready", "engine", "loaded", "done"}
    /\ k.pc \notin {"ready", "engine"}
    /\ k.pc = "loaded" => j.op = "deploy"
    /\ j.pc = "load" /\ j.op = "deploy" => k.pc = "loaded"
    /\ j.pc \in Fetching => k.pc \in Fetching

Bystands(j, k) == k.op = j.op /\ k.model = j.model /\ k.pc = j.pc

LEMMA CacheMoves ==
    ASSUME CacheInv, NEW p \in Procs, CacheStep(p)
    PROVE  /\ Moves(job[p], job'[p])
           /\ \A q \in Procs \ {p} : Bystands(job[q], job'[q])
<1>. USE DEF Bystands, Fetching, InLoop
<1>1. job \in [Procs -> Jobs] /\ job[p] \in Jobs
  BY DEF CacheInv, CacheTypeOK
<1>2. ASSUME NEW k, job' = [job EXCEPT ![p] = k], Moves(job[p], k)
      PROVE  /\ Moves(job[p], job'[p])
             /\ \A q \in Procs \ {p} : Bystands(job[q], job'[q])
  <2>1. job'[p] = k /\ \A q \in Procs \ {p} : job'[q] = job[q]
    BY <1>1, <1>2
  <2>. QED BY <1>2, <2>1 DEF Bystands
<1>3. ASSUME NEW j \in Jobs, NEW a,
             j.pc \notin {"ready", "engine", "loaded", "done"}, ~(j.pc = "load" /\ j.op = "deploy")
      PROVE  Moves(j, Done(j, a))
  <2>1. Done(j, a).op = j.op /\ Done(j, a).model = j.model /\ Done(j, a).pc = "done"
    BY DEF Done, Idle
  <2>. QED BY <1>3, <2>1 DEF Moves
<1>5. CASE LoadIndex(p)
  <2>. DEFINE j == [job[p] EXCEPT !.copy = index]
              purge == [j EXCEPT !.pc = "purge"]
              lookup == [j EXCEPT !.pc = "lookup"]
              loaded == [j EXCEPT !.pc = "loaded"]
  <2>1. /\ j.op = job[p].op /\ j.model = job[p].model /\ j.pc = job[p].pc
        /\ purge.op = job[p].op /\ purge.model = job[p].model /\ purge.pc = "purge"
        /\ lookup.op = job[p].op /\ lookup.model = job[p].model /\ lookup.pc = "lookup"
        /\ loaded.op = job[p].op /\ loaded.model = job[p].model /\ loaded.pc = "loaded"
    BY <1>1 DEF Jobs
  <2>2. /\ Done(j, "failed").op = j.op /\ Done(j, "failed").model = j.model
        /\ Done(j, "failed").pc = "done"
    BY DEF Done, Idle
  <2>3. /\ j.pc = "load"
        /\ \/ (j.op = "remove" \/ j.op = "pull") /\ job' = [job EXCEPT ![p] = purge]
           \/ j.op = "pull" /\ job' = [job EXCEPT ![p] = lookup]
           \/ j.op = "remove" /\ job' = [job EXCEPT ![p] = Done(j, "failed")]
           \/ j.op = "deploy" /\ job' = [job EXCEPT ![p] = loaded]
    BY <1>5 DEF LoadIndex, Step
  <2>. HIDE DEF j, purge, lookup, loaded
  <2>. QED BY <1>2, <2>1, <2>2, <2>3 DEF Moves
<1>6. CASE Purge(p)
  <2>1. job[p].pc = "purge" /\ job'[p].pc = "truncate" /\ job'[p].op = job[p].op
        /\ job'[p].model = job[p].model
    BY <1>1, <1>6 DEF Purge, Jobs
  <2>2. ASSUME NEW q \in Procs \ {p} PROVE Bystands(job[q], job'[q])
    BY <1>1, <1>6 DEF Purge, Jobs
  <2>. QED BY <2>1, <2>2 DEF Moves
<1>7. CASE TruncateIndex(p)
  <2>1. job[p].pc = "truncate" /\ job' = [job EXCEPT ![p] = [job[p] EXCEPT !.pc = "write"]]
    BY <1>7 DEF TruncateIndex, Step
  <2>2. Moves(job[p], [job[p] EXCEPT !.pc = "write"])
    BY <1>1, <2>1 DEF Jobs, Moves
  <2>. QED BY <1>2, <2>1, <2>2
<1>8. ASSUME NEW j \in Jobs, j.pc \in {"truncate", "write"}
      PROVE  Moves(j, Saved(j)) /\ Moves(j, SaveFailed(j))
  <2>1. Moves(j, [j EXCEPT !.pc = "lookup"])
    BY <1>8 DEF Jobs, Moves
  <2>2. Moves(j, Done(j, "ok")) /\ Moves(j, Done(j, "failed"))
    BY <1>3, <1>8
  <2>. QED BY <2>1, <2>2 DEF Saved, SaveFailed
<1>9. CASE WriteIndex(p)
  BY <1>1, <1>2, <1>8, <1>9 DEF WriteIndex, Step
<1>10. CASE SaveFails(p)
  BY <1>1, <1>2, <1>8, <1>10 DEF SaveFails, Step
<1>11. CASE Lookup(p)
  <2>1. job[p].pc = "lookup"
    BY <1>11 DEF Lookup
  <2>2. Moves(job[p], [job[p] EXCEPT !.pc = "discover"])
    BY <1>1, <2>1 DEF Jobs, Moves
  <2>3. Moves(job[p], Done(job[p], "ok"))
    BY <1>1, <1>3, <2>1
  <2>. QED BY <1>2, <1>11, <2>2, <2>3 DEF Lookup, Step
<1>12. CASE Discover(p)
  <2>1. job[p].pc = "discover" /\ job[p].pc \in InLoop \cup {"discover"}
    BY <1>12 DEF Discover
  <2>2. ASSUME NEW k
        PROVE  /\ Moves(job[p], Begun(job[p], k))
               /\ Moves(job[p], [Begun(job[p], k) EXCEPT !.trouble = TRUE])
    <3>. DEFINE j == job[p]
                c == IF k <= Len(FilesOf[j.model]) THEN "head" ELSE "finish"
                n == IF k <= Len(FilesOf[j.model]) THEN k ELSE 0
    <3>1. c \in {"head", "finish"}
      OBVIOUS
    <3>2. /\ Begun(j, k) = [j EXCEPT !.pc = c, !.nth = n]
          /\ [Begun(j, k) EXCEPT !.trouble = TRUE]
                = [j EXCEPT !.pc = c, !.nth = n, !.trouble = TRUE]
      BY DEF Begun
    <3>. HIDE DEF c, n
    <3>. QED BY <1>1, <2>1, <3>1, <3>2 DEF Jobs, Moves
  <2>. QED BY <1>2, <1>12, <2>2 DEF Discover, Step
<1>20. ASSUME NEW j \in Jobs, j.pc \in InLoop
       PROVE  Moves(j, Onward(j)) /\ Moves(j, Skip(j))
  <2>. DEFINE c == IF j.nth < Len(FilesOf[j.model]) THEN "head" ELSE "finish"
              n == IF j.nth < Len(FilesOf[j.model]) THEN j.nth + 1 ELSE 0
  <2>1. c \in {"head", "finish"}
    OBVIOUS
  <2>2. /\ Onward(j) = [j EXCEPT !.pc = c, !.nth = n, !.from = 0, !.got = 0,
                                 !.linked = FALSE, !.ranged = FALSE]
        /\ Skip(j) = [j EXCEPT !.pc = c, !.nth = n, !.from = 0, !.got = 0,
                               !.linked = FALSE, !.ranged = FALSE, !.trouble = TRUE]
    BY DEF Onward, Skip
  <2>. HIDE DEF c, n
  <2>. QED BY <1>20, <2>1, <2>2 DEF Jobs, Moves
<1>13. CASE Examine(p)
  <2>. DEFINE f == FileOf(job[p])
              k == IF f \in present THEN Len(disk[f]) ELSE 0
              crowd == Others(p, f)
              seen == [job[p] EXCEPT !.found = TRUE, !.trouble = @ \/ crowd # {}]
              check == [seen EXCEPT !.pc = "check"]
              open == [seen EXCEPT !.pc = "open", !.from = IF k < Size[f] THEN k ELSE 0]
  <2>0. job[p].pc = "head"
    BY <1>13 DEF Examine
  <2>1. Moves(job[p], check) /\ Moves(job[p], open)
    BY <1>1, <2>0 DEF Jobs, Moves
  <2>2. CASE job' = [job EXCEPT ![p] = Skip(job[p])]
    BY <1>1, <1>2, <1>20, <2>0, <2>2
  <2>3. CASE job' = [q \in Procs |->
                       IF q = p THEN IF Already(f) THEN check ELSE open
                       ELSE IF q \in crowd THEN [job[q] EXCEPT !.trouble = TRUE]
                       ELSE job[q]]
    <3>1. job'[p] = check \/ job'[p] = open
      BY <2>3
    <3>2. ASSUME NEW q \in Procs \ {p} PROVE Bystands(job[q], job'[q])
      <4>1. job[q] \in Jobs /\ (job'[q] = job[q] \/ job'[q] = [job[q] EXCEPT !.trouble = TRUE])
        BY <1>1, <2>3
      <4>. QED BY <4>1 DEF Jobs
    <3>. HIDE DEF check, open
    <3>. QED BY <2>1, <3>1, <3>2
  <2>4. \/ job' = [job EXCEPT ![p] = Skip(job[p])]
        \/ job' = [q \in Procs |->
                     IF q = p THEN IF Already(f) THEN check ELSE open
                     ELSE IF q \in crowd THEN [job[q] EXCEPT !.trouble = TRUE]
                     ELSE job[q]]
    <3>1. FileOf([job[p] EXCEPT !.found = TRUE]) = f
      BY <1>1 DEF FileOf, Jobs
    <3>2. [[job[p] EXCEPT !.found = TRUE] EXCEPT !.trouble = @ \/ crowd # {}] = seen
      BY <1>1 DEF Jobs
    <3>. HIDE DEF crowd, seen, f, k
    <3>. QED BY <1>13, <3>1, <3>2 DEF Examine, Step, crowd, f, k
  <2>. QED BY <2>2, <2>3, <2>4
<1>14. CASE OpenFile(p)
  <2>. DEFINE opened == [job[p] EXCEPT !.pc = "receive", !.linked = TRUE]
  <2>0. job[p].pc = "open"
    BY <1>14 DEF OpenFile
  <2>1. /\ Moves(job[p], opened) /\ Moves(job[p], [opened EXCEPT !.ranged = TRUE])
        /\ Moves(job[p], [opened EXCEPT !.trouble = TRUE])
    BY <1>1, <2>0 DEF Jobs, Moves
  <2>3. Moves(job[p], Skip(job[p]))
    BY <1>1, <1>20, <2>0
  <2>2. \/ job' = [job EXCEPT ![p] = Skip(job[p])]
        \/ job' = [job EXCEPT ![p] = opened]
        \/ job' = [job EXCEPT ![p] = [opened EXCEPT !.ranged = TRUE]]
        \/ job' = [job EXCEPT ![p] = [opened EXCEPT !.trouble = TRUE]]
    BY <1>14 DEF OpenFile, Step
  <2>. HIDE DEF opened
  <2>. QED BY <1>2, <2>1, <2>2, <2>3
<1>15. CASE Receive(p)
  <2>. DEFINE more == [job[p] EXCEPT !.got = @ + 1]
              over == [job[p] EXCEPT !.pc = "close"]
  <2>1. /\ job[p].pc = "receive"
        /\ job' = [job EXCEPT ![p] = more] \/ job' = [job EXCEPT ![p] = over]
    BY <1>15 DEF Receive, Step
  <2>2. Moves(job[p], more) /\ Moves(job[p], over)
    BY <1>1, <2>1 DEF Jobs, Moves
  <2>. HIDE DEF more, over
  <2>. QED BY <1>2, <2>1, <2>2
<1>16. CASE Interrupt(p)
  <2>1. job[p].pc \in InLoop /\ job' = [job EXCEPT ![p] = Skip(job[p])]
    BY <1>16 DEF Interrupt, Step
  <2>. QED BY <1>1, <1>2, <1>20, <2>1
<1>17. CASE Complete(p)
  <2>0. job[p].pc = "close"
    BY <1>17 DEF Complete
  <2>. DEFINE whole == [job[p] EXCEPT !.pc = "check", !.from = 0, !.got = 0,
                                      !.linked = FALSE, !.ranged = FALSE]
  <2>1. Moves(job[p], whole)
    BY <1>1, <2>0 DEF Jobs, Moves
  <2>3. Moves(job[p], Skip(job[p]))
    BY <1>1, <1>20, <2>0
  <2>2. job' = [job EXCEPT ![p] = Skip(job[p])] \/ job' = [job EXCEPT ![p] = whole]
    BY <1>17 DEF Complete, Step
  <2>. HIDE DEF whole
  <2>. QED BY <1>2, <2>1, <2>2, <2>3
<1>18. CASE Check(p)
  <2>. DEFINE j == job[p]
              f == FileOf(j)
  <2>0. job[p].pc = "check"
    BY <1>18 DEF Check
  <2>1. Moves(job[p], Onward(job[p])) /\ Moves(job[p], Skip(job[p]))
    BY <1>1, <1>20, <2>0
  <2>2. CASE job' = [job EXCEPT ![p] = Onward(job[p])]
    BY <1>2, <2>1, <2>2
  <2>3. CASE job' = [q \in Procs |->
                       IF q = p THEN Skip(j)
                       ELSE IF Live(q) /\ job[q].model = j.model
                       THEN [job[q] EXCEPT !.trouble = TRUE,
                                           !.linked = @ /\ ~Holds(q, f)]
                       ELSE job[q]]
    <3>1. job'[p] = Skip(job[p])
      BY <2>3
    <3>2. ASSUME NEW q \in Procs \ {p} PROVE Bystands(job[q], job'[q])
      <4>1. job[q] \in Jobs
            /\ (job'[q] = job[q]
                \/ job'[q] = [job[q] EXCEPT !.trouble = TRUE, !.linked = @ /\ ~Holds(q, f)])
        BY <1>1, <2>3
      <4>. QED BY <4>1 DEF Jobs
    <3>. QED BY <2>1, <3>1, <3>2
  <2>4. \/ job' = [job EXCEPT ![p] = Onward(job[p])]
        \/ job' = [q \in Procs |->
                     IF q = p THEN Skip(j)
                     ELSE IF Live(q) /\ job[q].model = j.model
                     THEN [job[q] EXCEPT !.trouble = TRUE,
                                         !.linked = @ /\ ~Holds(q, f)]
                     ELSE job[q]]
    BY <1>18, Zenon DEF Check, Step
  <2>. QED BY <2>2, <2>3, <2>4
<1>19. CASE Finish(p)
  <2>0. job[p].pc = "finish"
    BY <1>19 DEF Finish
  <2>. DEFINE over == [job[p] EXCEPT !.pc = "truncate", !.fetched = TRUE,
                                     !.copy = @ \cup {job[p].model}]
  <2>1. Moves(job[p], over)
    BY <1>1, <2>0 DEF Jobs, Moves
  <2>3. Moves(job[p], Done(job[p], "failed"))
    BY <1>1, <1>3, <2>0
  <2>2. job' = [job EXCEPT ![p] = Done(job[p], "failed")] \/ job' = [job EXCEPT ![p] = over]
    BY <1>19 DEF Finish, Step
  <2>. HIDE DEF over
  <2>. QED BY <1>2, <2>1, <2>2, <2>3
<1>. QED BY <1>5, <1>6, <1>7, <1>9, <1>10, <1>11, <1>12, <1>13, <1>14, <1>15, <1>16,
            <1>17, <1>18, <1>19 DEF CacheStep

(* The engine's own state is as it was, and the processes of the cache move.*)
LEMMA CacheAlone ==
    ASSUME EngineInv, CacheInv', UNCHANGED engineVars,
           \A q \in Procs : /\ Agree(launch[q], job'[q])
                            /\ launch[q].pc # "ready" =>
                                  job'[q].op = job[q].op /\ job'[q].model = job[q].model
    PROVE  EngineInv' /\ FleetStep
<1>1. UNCHANGED box /\ UNCHANGED records /\ UNCHANGED launch
  BY DEF engineVars
<1>2. ASSUME NEW q \in Procs
      PROVE  /\ Relies(launch[q], job'[q])
             /\ \A n \in Names : box[n].id = q => Ran(launch[q], job'[q], n, box[n])
  <2>1. Relies(launch[q], job[q])
        /\ \A n \in Names : box[n].id = q => Ran(launch[q], job[q], n, box[n])
    BY DEF EngineInv
  <2>2. CASE launch[q].pc = "ready"
    <3>1. Relies(launch[q], job'[q])
      BY <2>2 DEF Relies, AfterRun, Deploying, Stopping
    <3>2. \A n \in Names : box[n].id # q
      BY <2>1, <2>2 DEF Ran, AfterRun
    <3>. QED BY <3>1, <3>2
  <2>3. CASE launch[q].pc # "ready"
    <3>1. job'[q].op = job[q].op /\ job'[q].model = job[q].model
      BY <2>3
    <3>2. Relies(launch[q], job'[q])
      BY <2>1, <3>1 DEF Relies
    <3>3. \A n \in Names : box[n].id = q => Ran(launch[q], job'[q], n, box[n])
      BY <2>1, <3>1 DEF Ran
    <3>. QED BY <3>2, <3>3
  <2>. QED BY <2>2, <2>3
<1>3. EngineInv'
  <2>1. /\ box' \in [Names -> Boxes] /\ records' \in [Models -> Nat]
        /\ launch' \in [Procs -> Launches]
    BY <1>1 DEF EngineInv
  <2>2. \A q \in Procs : launch'[q].elders \subseteq Up'
    BY <1>1 DEF EngineInv, Up, Running
  <2>3. \A q \in Procs : Agree(launch'[q], job'[q]) /\ Relies(launch'[q], job'[q])
    BY <1>1, <1>2
  <2>4. \A q \in Procs, n \in Names :
           box'[n].id = q => Ran(launch'[q], job'[q], n, box'[n])
    BY <1>1, <1>2
  <2>. QED BY <2>1, <2>2, <2>3, <2>4 DEF EngineInv
<1>4. \A q \in Procs : Asked(launch[q], job'[q]) = Asked(launch[q], job[q])
  BY DEF Asked
<1>5. UNCHANGED FleetAsk /\ UNCHANGED FleetState
  BY <1>1, <1>4 DEF FleetAsk, FleetState
<1>. QED BY <1>3, <1>5 DEF FleetStep

LEMMA CacheStepHere ==
    ASSUME EngineInv, NEW p \in Procs, CacheStep(p), UNCHANGED engineVars
    PROVE  EngineInv' /\ FleetStep
<1>1. CacheInv /\ CacheInv'
  BY CacheStepKeeps DEF EngineInv
<1>2. /\ Moves(job[p], job'[p])
      /\ \A q \in Procs \ {p} : Bystands(job[q], job'[q])
  BY <1>1, CacheMoves
<1>3. \A q \in Procs : Agree(launch[q], job[q]) /\ launch[q] \in Launches
  BY DEF EngineInv
<1>4. Agree(launch[p], job'[p])
  <2>1. Agree(launch[p], job[p]) /\ launch[p] \in Launches
    BY <1>3
  <2>2. launch[p].pc \in {"ready", "cache", "pull"}
    <3>1. launch[p].pc \notin AtDocker \cup {"done"}
      BY <1>2, <2>1 DEF Agree, Moves
    <3>2. launch[p].pc \in {"ready", "boot", "done"} \cup Deploying \cup Stopping
      BY <2>1 DEF Launches
    <3>. QED BY <3>1, <3>2 DEF AtDocker, AfterRun, Deploying, Stopping
  <2>3. CASE launch[p].pc = "ready"
    BY <1>2, <2>1, <2>3 DEF Agree, Moves, AtDocker, AfterRun, Deploying, Stopping
  <2>4. CASE launch[p].pc = "cache"
    BY <1>2, <2>1, <2>4 DEF Agree, Moves, AtDocker, AfterRun, Deploying, Stopping
  <2>5. CASE launch[p].pc = "pull"
    BY <1>2, <2>1, <2>5 DEF Agree, Moves, AtDocker, AfterRun, Deploying, Stopping
  <2>. QED BY <2>2, <2>3, <2>4, <2>5
<1>5. \A q \in Procs \ {p} : Agree(launch[q], job'[q])
  BY <1>2, <1>3 DEF Bystands, Agree
<1>6. \A q \in Procs : job'[q].op = job[q].op /\ job'[q].model = job[q].model
  BY <1>2 DEF Bystands, Moves
<1>. QED BY <1>1, <1>4, <1>5, <1>6, CacheAlone

LEMMA CacheCrashHere ==
    ASSUME EngineInv, NEW p \in Procs, launch[p].pc = "ready", CacheCrash(p),
           UNCHANGED engineVars
    PROVE  EngineInv' /\ FleetStep
<1>1. CacheInv /\ CacheInv'
  BY CacheStepKeeps DEF EngineInv
<1>2. job' = [job EXCEPT ![p] = Done(job[p], "killed")] /\ job \in [Procs -> Jobs]
  BY <1>1 DEF CacheCrash, Step, CacheInv, CacheTypeOK
<1>3. /\ job'[p] = Done(job[p], "killed")
      /\ \A q \in Procs \ {p} : job'[q] = job[q]
  BY <1>2
<1>4. /\ job'[p].pc = "done" /\ job'[p].op = job[p].op /\ job'[p].model = job[p].model
  BY <1>3 DEF Done, Idle
<1>5. \A q \in Procs : Agree(launch[q], job[q])
  BY DEF EngineInv
<1>6. Agree(launch[p], job'[p])
  BY <1>4, <1>5 DEF Agree, AtDocker, AfterRun, Deploying, Stopping
<1>7. \A q \in Procs : Agree(launch[q], job'[q])
  BY <1>3, <1>5, <1>6
<1>. QED BY <1>1, <1>3, <1>4, <1>7, CacheAlone

(* A command is typed.                                                      *)
LEMMA OrderKeeps ==
    ASSUME EngineInv, NEW p \in Procs, NEW r \in Requests, Order(p, r)
    PROVE  EngineInv' /\ FleetStep
<1>. DEFINE pc == IF r.op \in {"pull", "remove"} THEN "load" ELSE "engine"
            j == [job[p] EXCEPT !.pc = pc, !.op = r.op, !.model = r.model,
                                !.force = r.force]
<1>1. /\ r.op \in {"pull", "remove", "deploy", "stop", "stop all"}
      /\ r.model \in Models /\ r.force \in BOOLEAN /\ Listed[r.model] \in Names
  BY ModelCacheAssumption, EngineTypes
<1>2. /\ Begin(p, r) /\ job' = [job EXCEPT ![p] = j] /\ job[p].pc = "ready"
      /\ UNCHANGED box /\ UNCHANGED records
  BY DEF Order, Begin, Step
<1>3. CacheInv' /\ CacheInv
  BY <1>2, BeginKeeps DEF EngineInv
<1>4. /\ job \in [Procs -> Jobs] /\ launch \in [Procs -> Launches]
      /\ job[p] \in Jobs /\ launch[p] \in Launches /\ Agree(launch[p], job[p])
      /\ box \in [Names -> Boxes] /\ records \in [Models -> Nat]
  BY <1>3 DEF EngineInv, CacheInv, CacheTypeOK
<1>5. launch[p].pc = "ready"
  <2>1. launch[p].pc \in {"ready", "boot", "done"} \cup Deploying \cup Stopping
    BY <1>4 DEF Launches
  <2>. QED BY <1>2, <1>4, <2>1
       DEF Agree, AtDocker, AfterRun, Deploying, Stopping, Fetching, InLoop
<1>6. /\ j \in Jobs /\ j.pc = pc /\ j.op = r.op /\ j.model = r.model
  BY ZenonT(30), <1>1, <1>4 DEF Jobs
<1>7. job'[p] = j /\ \A q \in Procs \ {p} : job'[q] = job[q]
  BY <1>2, <1>4
<1>. HIDE DEF j
<1>8. CASE r.op \in {"pull", "remove"}
  <2>1. UNCHANGED engineVars
    BY <1>8 DEF Order, engineVars
  <2>2. Agree(launch[p], job'[p])
    BY <1>4, <1>5, <1>6, <1>7, <1>8 DEF Agree, AtDocker, AfterRun, Deploying, Stopping
  <2>3. \A q \in Procs : Agree(launch[q], job'[q])
    BY <1>7, <2>2 DEF EngineInv
  <2>. QED BY <1>3, <1>5, <1>7, <2>1, <2>3, CacheAlone
<1>9. CASE r.op \in {"deploy", "stop", "stop all"}
  <2>. DEFINE deploy == [Unbegun EXCEPT !.pc = IF r.force THEN "force" ELSE "boot",
                                        !.owed = {Listed[r.model]}, !.elders = Up,
                                        !.loose = r.force \/ ~Plain(r.model)]
              stop == [Unbegun EXCEPT !.pc = "boot", !.todo = {r.model},
                                      !.owed = {Listed[r.model]}]
              all == [Unbegun EXCEPT !.pc = "boot", !.owed = Names]
              l == IF r.op = "deploy" THEN deploy ELSE IF r.op = "stop" THEN stop ELSE all
  <2>1. Up \subseteq Names
    BY DEF Up
  <2>2. launch' = [launch EXCEPT ![p] = l]
    BY <1>9 DEF Order
  <2>3. /\ deploy \in Launches /\ stop \in Launches /\ all \in Launches
    BY <1>1, <2>1 DEF Launches, Unbegun, NoRecords, None, Deploying
  <2>4. /\ deploy.pc \in {"force", "boot"} /\ deploy.owed = {Listed[r.model]}
        /\ deploy.elders = Up /\ deploy.answer = "none"
        /\ deploy.loose \in BOOLEAN
        /\ (deploy.pc = "force" => deploy.loose)
        /\ (~deploy.loose => Plain(r.model))
        /\ stop.pc = "boot" /\ stop.owed = {Listed[r.model]} /\ stop.elders = {}
        /\ stop.answer = "none" /\ stop.todo = {r.model} /\ stop.loose = FALSE
        /\ all.pc = "boot" /\ all.owed = Names /\ all.elders = {}
        /\ all.answer = "none" /\ all.loose = FALSE
    BY <1>1 DEF Unbegun
  <2>. HIDE DEF deploy, stop, all
  <2>5. /\ l \in Launches /\ l.pc \in {"force", "boot"} /\ l.answer = "none"
        /\ l.elders = (IF r.op = "deploy" THEN Up ELSE {})
        /\ l.owed = (IF r.op = "stop all" THEN Names ELSE {Listed[r.model]})
        /\ l.loose \in BOOLEAN
        /\ l.pc = "force" => r.op = "deploy" /\ l.loose
        /\ r.op = "deploy" /\ ~l.loose => Plain(r.model)
        /\ r.op = "stop" => l.todo = {r.model}
    BY <1>9, <2>3, <2>4
  <2>. HIDE DEF l
  <2>6. Agree(l, j)
    BY <1>6, <1>9, <2>5 DEF Agree, AtDocker, AfterRun, Deploying, Stopping
  <2>7. Relies(l, j)
    <3>1. r.op = "stop" => l.owed \subseteq Owing(l)
      <4>. SUFFICES ASSUME r.op = "stop" PROVE Listed[r.model] \in Owing(l)
        BY <2>5
      <4>1. Called(r.model) = Listed[r.model]
        BY <1>1 DEF Called
      <4>. QED BY <2>5, <4>1 DEF Owing
    <3>. QED BY <1>6, <1>9, <2>5, <3>1 DEF Relies, AfterRun, Deploying, Stopping
  <2>8. launch'[p] = l /\ \A q \in Procs \ {p} : launch'[q] = launch[q]
    BY <1>4, <2>2
  <2>9. EngineInv'
    <3>1. \A q \in Procs : /\ Agree(launch[q], job[q]) /\ Relies(launch[q], job[q])
                           /\ launch[q].elders \subseteq Up
      BY DEF EngineInv
    <3>2. \A q \in Procs, n \in Names : box[n].id = q => Ran(launch[q], job[q], n, box[n])
      BY DEF EngineInv
    <3>3. Up' = Up
      BY <1>2 DEF Up, Running
    <3>4. \A q \in Procs : /\ Agree(launch'[q], job'[q]) /\ Relies(launch'[q], job'[q])
                           /\ launch'[q].elders \subseteq Up'
      BY <1>7, <2>5, <2>6, <2>7, <2>8, <3>1, <3>3
    <3>5. \A n \in Names : box[n].id # p
      BY <1>5, <3>2 DEF Ran, AfterRun
    <3>6. \A q \in Procs, n \in Names :
             box'[n].id = q => Ran(launch'[q], job'[q], n, box'[n])
      BY <1>2, <1>7, <2>8, <3>2, <3>5
    <3>7. /\ box' \in [Names -> Boxes] /\ records' \in [Models -> Nat]
          /\ launch' \in [Procs -> Launches]
      BY <1>2, <1>4, <2>2, <2>5
    <3>. QED BY <1>3, <3>4, <3>6, <3>7 DEF EngineInv
  <2>10. UNCHANGED FleetState
    BY <1>2, StateSame
  <2>11. FleetAsk' = [FleetAsk EXCEPT ![p] = Asked(l, j)]
    BY <1>7, <2>8 DEF FleetAsk
  <2>12. FleetAsk[p].kind = "none"
    BY <1>5 DEF FleetAsk, Asked
  <2>15. PICK s \in BOOLEAN : s = l.loose
    BY <2>5
  <2>. DEFINE o == IF r.op = "stop all" THEN Names ELSE {Listed[r.model]}
              e == IF r.op = "deploy" THEN Promises!Up ELSE {}
              a == [kind |-> r.op, name |-> Listed[r.model], loose |-> s,
                    answer |-> "none", owed |-> o, elders |-> e]
  <2>13. Asked(l, j) = a
    <3>1. Promises!Up = Up
      BY <1>4, UpIsUp
    <3>2. l.owed = o /\ l.elders = e
      BY <2>5, <3>1
    <3>. HIDE DEF o, e
    <3>. QED BY <1>6, <2>5, <2>15, <3>2 DEF Asked
  <2>14. Promises!Ask(p)
    <3>1. FleetAsk' = [FleetAsk EXCEPT ![p] = a]
      BY <2>11, <2>13
    <3>. QED BY <1>1, <1>9, <2>10, <2>12, <3>1 DEF Promises!Ask
  <2>. QED BY <2>9, <2>14 DEF FleetStep, Promises!Next
<1>. QED BY <1>1, <1>8, <1>9

LEMMA EngineStepKeeps ==
    ASSUME EngineInv, NEW p \in Procs, EngineStep(p) PROVE EngineInv' /\ FleetStep
<1>1. CASE FindForced(p) \/ StopForced(p) \/ Boot(p)
  BY <1>1, FindForcedKeeps, StopForcedKeeps, BootKeeps
<1>2. CASE Validate(p) \/ Pulled(p) \/ Plan(p) \/ List(p)
  BY <1>2, ValidateKeeps, PulledKeeps, PlanKeeps, ListKeeps
<1>3. CASE NoImage(p) \/ Clear(p) \/ Run(p) \/ Health(p)
  BY <1>3, NoImageKeeps, ClearKeeps, RunKeeps, HealthKeeps
<1>4. CASE Record(p) \/ BackgroundCheck(p) \/ WriteRecords(p) \/ RecordFails(p)
  BY <1>4, RecordKeeps, WriteRecordsKeeps
<1>5. CASE Return(p) \/ BackgroundSave(p) \/ StopReturns(p)
  BY <1>5, ReturnKeeps, BackgroundSaveKeeps, StopReturnsKeeps
<1>6. CASE Survey(p) \/ Query(p) \/ Halt(p) \/ Erase(p)
  BY <1>6, SurveyKeeps, QueryKeeps, HaltKeeps, EraseKeeps
<1>. QED BY <1>1, <1>2, <1>3, <1>4, <1>5, <1>6 DEF EngineStep

LEMMA EngineRests == EngineInv /\ UNCHANGED vars => EngineInv' /\ FleetStep
<1>. SUFFICES ASSUME EngineInv, UNCHANGED vars PROVE EngineInv' /\ FleetStep
  OBVIOUS
<1>1. UNCHANGED cacheVars /\ UNCHANGED engineVars
  BY DEF vars
<1>2. CacheInv' /\ job' = job
  BY <1>1, CacheStutter DEF EngineInv, cacheVars
<1>3. \A q \in Procs : Agree(launch[q], job[q])
  BY DEF EngineInv
<1>. QED BY <1>1, <1>2, <1>3, CacheAlone

(* Every step keeps the invariant, and is one that Fleet allows.            *)
LEMMA EngineInvNext == EngineInv /\ [Next]_vars => EngineInv' /\ FleetStep
<1>. SUFFICES ASSUME EngineInv, [Next]_vars PROVE EngineInv' /\ FleetStep
  OBVIOUS
<1>1. ASSUME NEW p \in Procs, NEW r \in Requests, Order(p, r)
      PROVE  EngineInv' /\ FleetStep
  BY <1>1, OrderKeeps
<1>2. ASSUME NEW p \in Procs, CacheStep(p), UNCHANGED engineVars
      PROVE  EngineInv' /\ FleetStep
  BY <1>2, CacheStepHere
<1>3. ASSUME NEW p \in Procs, EngineStep(p)
      PROVE  EngineInv' /\ FleetStep
  BY <1>3, EngineStepKeeps
<1>4. ASSUME NEW p \in Procs, Crash(p)
      PROVE  EngineInv' /\ FleetStep
  BY <1>4, CrashKeeps
<1>5. ASSUME NEW p \in Procs, launch[p].pc = "ready", CacheCrash(p), UNCHANGED engineVars
      PROVE  EngineInv' /\ FleetStep
  BY <1>5, CacheCrashHere
<1>6. ASSUME NEW n \in Names, Falter(n) \/ Recover(n)
      PROVE  EngineInv' /\ FleetStep
  BY <1>6, FalterKeeps, RecoverKeeps
<1>7. CASE UNCHANGED vars
  BY <1>7, EngineRests
<1>. QED BY <1>1, <1>2, <1>3, <1>4, <1>5, <1>6, <1>7 DEF Next

----
(* What a command of the engine room leaves of its copy of the index.        *)

(* Docker's side of a command ends the process, or leaves it to the cache.   *)
LEMMA DockerLeavesTheCopy ==
    ASSUME EngineInv, NEW p \in Procs,
           EngineStep(p) \/ Crash(p), ~Boot(p), ~Validate(p), ~Pulled(p)
    PROVE  /\ UNCHANGED <<index, basis>>
           /\ UNCHANGED job \/ \E x : Step(p, Done(job[p], x))
           /\ launch[p].pc \in AtDocker \/ UNCHANGED job \/ Fault
<1>1. CASE FindForced(p) \/ StopForced(p) \/ Survey(p) \/ Query(p) \/ Halt(p) \/ Erase(p)
  <2>1. SameDisk /\ UNCHANGED job
    BY <1>1, Zenon DEF FindForced, StopForced, Survey, Query, Halt, Erase
  <2>. QED BY <2>1 DEF SameDisk
<1>2. CASE Plan(p) \/ List(p) \/ NoImage(p) \/ Clear(p) \/ Run(p)
  <2>1. SameDisk /\ launch[p].pc \in {"plan", "list", "clear", "run"}
    BY <1>2, Zenon DEF Plan, List, NoImage, Clear, Run, InEngine
  <2>2. UNCHANGED job \/ \E x : Step(p, Done(job[p], x))
    BY <1>2, Zenon DEF Plan, List, NoImage, Clear, Run, Exit, Stay
  <2>. QED BY <2>1, <2>2 DEF SameDisk, AtDocker
<1>3. CASE Health(p) \/ Record(p) \/ WriteRecords(p) \/ RecordFails(p) \/ Return(p)
  <2>1. SameDisk /\ launch[p].pc \in AfterRun
    BY <1>3 DEF Health, Record, WriteRecords, RecordFails, Return, InEngine, AfterRun
  <2>2. UNCHANGED job \/ \E x : Step(p, Done(job[p], x))
    BY <1>3, Zenon DEF Health, Record, WriteRecords, RecordFails, Return, Exit, Stay
  <2>. QED BY <2>1, <2>2 DEF SameDisk, AtDocker
<1>4. CASE BackgroundCheck(p) \/ BackgroundSave(p) \/ StopReturns(p)
  <2>1. SameDisk /\ launch[p].pc \in AfterRun \cup {"query"}
    BY <1>4 DEF BackgroundCheck, BackgroundSave, StopReturns, InEngine, AfterRun
  <2>2. UNCHANGED job \/ \E x : Step(p, Done(job[p], x))
    BY <1>4, Zenon DEF BackgroundCheck, BackgroundSave, StopReturns, Exit
  <2>. QED BY <2>1, <2>2 DEF SameDisk, AtDocker, Stopping
<1>5. CASE Crash(p)
  BY <1>5, Zenon DEF Crash, SameDisk, Exit
<1>. QED BY <1>1, <1>2, <1>3, <1>4, <1>5 DEF EngineStep

LEMMA BootKeepsBasis ==
    ASSUME EngineInv, BasisInv, NEW p \in Procs, Boot(p) \/ Validate(p) \/ Pulled(p)
    PROVE  BasisInv' /\ OneEntryStep
<1>1. /\ CacheInv /\ job \in [Procs -> Jobs] /\ BasisOK(job[p], basis[p])
      /\ Agree(launch[p], job[p]) /\ SameDisk
  BY DEF EngineInv, CacheInv, CacheTypeOK, BasisInv, Boot, Validate, Pulled
<1>2. job[p].pc \in {"engine", "loaded", "done"}
  BY <1>1 DEF Boot, Validate, Pulled, InEngine, Agree, AtDocker
<1>3. job[p].fetched = FALSE
  <2>1. job[p].fetched \in BOOLEAN
    BY <1>1 DEF Jobs
  <2>. QED BY <1>1, <1>2, <2>1 DEF BasisOK
<1>4. /\ \A q \in Procs \ {p} : job'[q] = job[q]
      /\ \/ \E x : job'[p] = Done(job[p], x)
         \/ job'[p].pc \in {"load", "engine"} /\ job'[p].fetched = FALSE
         \/ /\ job'[p].pc = "lookup" /\ job[p].pc = "loaded" /\ job'[p].fetched = FALSE
            /\ job'[p].model = job[p].model /\ job'[p].copy = job[p].copy
  <2>0. job[p] \in Jobs
    BY <1>1
  <2>1. CASE Boot(p)
    <3>. DEFINE b == [job[p] EXCEPT !.pc = "load"]
                c == [job[p] EXCEPT !.pc = @]
    <3>1. job' = [job EXCEPT ![p] = b] \/ job' = [job EXCEPT ![p] = c]
      BY <2>1 DEF Boot, Step
    <3>2. job[p].pc = "engine"
      BY <1>1, <2>1 DEF Boot, InEngine, Agree, AtDocker
    <3>3. b.pc = "load" /\ b.fetched = FALSE /\ c.pc = "engine" /\ c.fetched = FALSE
      BY <1>3, <2>0, <3>2 DEF Jobs
    <3>. HIDE DEF b, c
    <3>. QED BY <1>1, <3>1, <3>3
  <2>2. CASE Validate(p)
    <3>. DEFINE b == [job[p] EXCEPT !.pc = "lookup", !.copy = @]
                c == [job[p] EXCEPT !.pc = "engine", !.copy = {}]
    <3>1. job' = [job EXCEPT ![p] = b] \/ job' = [job EXCEPT ![p] = c]
      BY <2>2 DEF Validate, Step
    <3>2. job[p].pc = "loaded"
      BY <2>2 DEF Validate
    <3>3. /\ b.pc = "lookup" /\ b.fetched = FALSE /\ b.model = job[p].model
          /\ b.copy = job[p].copy
      BY <1>3, <2>0 DEF Jobs
    <3>4. c.pc = "engine" /\ c.fetched = FALSE
      BY <1>3, <2>0 DEF Jobs
    <3>. HIDE DEF b, c
    <3>. QED BY <1>1, <3>1, <3>2, <3>3, <3>4
  <2>3. CASE Pulled(p)
    <3>. DEFINE b == [job[p] EXCEPT !.pc = "engine", !.answer = "none"]
    <3>1. job' = [job EXCEPT ![p] = b] \/ \E x : job' = [job EXCEPT ![p] = Done(job[p], x)]
      BY <2>3, Zenon DEF Pulled, Exit, Step
    <3>2. b.pc = "engine" /\ b.fetched = FALSE
      BY <1>3, <2>0 DEF Jobs
    <3>. HIDE DEF b
    <3>. QED BY <1>1, <3>1, <3>2
  <2>. QED BY <2>1, <2>2, <2>3
<1>5. Follows(job[p], job'[p])
  BY <1>4, DoneFollows DEF Follows, Keeping, InLoop
<1>6. NoSave
  BY <1>2, <1>4 DEF NoSave
<1>7. UNCHANGED <<index, basis>> /\ \A q \in Procs : job'[q] = job[q] \/ Follows(job[q], job'[q])
  BY <1>1, <1>4, <1>5 DEF SameDisk
<1>. QED BY <1>6, <1>7, FollowingKeeps

LEMMA EngineKeepsBasis ==
    ASSUME EngineInv, BasisInv, NEW p \in Procs, EngineStep(p) \/ Crash(p)
    PROVE  BasisInv' /\ OneEntryStep
<1>1. CASE Boot(p) \/ Validate(p) \/ Pulled(p)
  BY <1>1, BootKeepsBasis
<1>2. CASE ~Boot(p) /\ ~Validate(p) /\ ~Pulled(p)
  <2>1. /\ UNCHANGED <<index, basis>>
        /\ UNCHANGED job \/ \E x : Step(p, Done(job[p], x))
        /\ launch[p].pc \in AtDocker \/ UNCHANGED job \/ Fault
    BY <1>2, DockerLeavesTheCopy
  <2>2. CacheInv /\ Agree(launch[p], job[p])
    BY DEF EngineInv
  <2>3. CASE UNCHANGED job
    <3>1. NoSave
      BY <2>3 DEF NoSave
    <3>. QED BY <2>1, <2>3, <3>1, FollowingKeeps
  <2>4. CASE ~UNCHANGED job
    <3>1. PICK x : Step(p, Done(job[p], x))
      BY <2>1, <2>4
    <3>2. job[p].pc # "write" \/ faults' # faults
      BY <2>1, <2>2, <2>4, FaultCounts DEF Agree
    <3>3. Follows(job[p], Done(job[p], x))
      BY DoneFollows
    <3>. QED BY <2>1, <2>2, <3>1, <3>2, <3>3, StepFollows
  <2>. QED BY <2>3, <2>4
<1>. QED BY <1>1, <1>2

LEMMA EngineBasisNext ==
    ASSUME EngineInv, BasisInv, [Next]_vars
    PROVE  BasisInv' /\ [OneEntryStep]_cacheVars
<1>0. CacheInv
  BY DEF EngineInv
<1>1. ASSUME NEW p \in Procs, NEW r \in Requests, Order(p, r)
      PROVE  BasisInv' /\ OneEntryStep
  BY <1>0, <1>1, BeginKeepsBasis DEF Order
<1>2. ASSUME NEW p \in Procs, CacheStep(p) \/ CacheCrash(p)
      PROVE  BasisInv' /\ OneEntryStep
  BY <1>0, <1>2, CacheStepKeepsBasis
<1>3. ASSUME NEW p \in Procs, EngineStep(p) \/ Crash(p)
      PROVE  BasisInv' /\ OneEntryStep
  BY <1>3, EngineKeepsBasis
<1>4. ASSUME \/ \E n \in Names : Falter(n) \/ Recover(n)
             \/ UNCHANGED vars
      PROVE  BasisInv' /\ OneEntryStep
  <2>1. UNCHANGED <<index, basis, job>>
    BY <1>4 DEF Falter, Recover, SameDisk, cacheVars, vars
  <2>2. NoSave
    BY <2>1 DEF NoSave
  <2>. QED BY <2>1, <2>2, FollowingKeeps
<1>. QED BY <1>1, <1>2, <1>3, <1>4 DEF Next

----
(* What the command line says of models, whatever files it reads.           *)

RegistryFiles(E) == [readable : BOOLEAN, entries : Seq(E)]

LayersOf(E) == [bundled : Seq(RegistryFiles(E)), default : RegistryFiles(E),
                system : RegistryFiles(E), user : RegistryFiles(E), local : RegistryFiles(E)]

KnownTargets(models) == \A name \in DOMAIN models : models[name].target \in Targets

LEMMA LeastOfNaturals ==
    ASSUME NEW S, S \subseteq Nat, S # {}
    PROVE  \E i \in S : \A k \in S : i <= k
<1>1. PICK i \in S : \A k \in S : ~(<<k, i>> \in OpToRel(<, Nat))
  BY WFMin, NatLessThanWellFounded
<1>2. \A k \in S : i <= k
  <2>. SUFFICES ASSUME NEW k \in S, k < i
                PROVE  FALSE
    OBVIOUS
  <2>1. <<k, i>> \in Nat \X Nat /\ <<k, i>>[1] < <<k, i>>[2]
    OBVIOUS
  <2>2. <<k, i>> \in OpToRel(<, Nat)
    BY <2>1, Zenon DEF OpToRel
  <2>. QED BY <1>1, <2>2
<1>. QED BY <1>2

LEMMA LastIndex ==
    ASSUME NEW n \in Nat, NEW S, S \subseteq 1 .. n, S # {}
    PROVE  \E i \in S : \A k \in S : k <= i
<1>. DEFINE left == {n - k : k \in S}
<1>1. \A k \in S : k \in Nat /\ k <= n
  OBVIOUS
<1>2. \A k \in S : n - k \in Nat
  <2>. SUFFICES ASSUME NEW k \in S PROVE n - k \in Nat
    OBVIOUS
  <2>1. k \in Nat /\ k <= n
    BY <1>1
  <2>. QED BY <2>1
<1>3. left \subseteq Nat /\ left # {}
  BY <1>2, Zenon
<1>4. PICK m \in left : \A r \in left : m <= r
  <2>. HIDE DEF left
  <2>. QED BY <1>3, LeastOfNaturals
<1>5. PICK i \in S : m = n - i
  BY Zenon
<1>6. \A k \in S : n - i <= n - k
  BY <1>4, <1>5, Zenon
<1>7. \A k \in S : k <= i
  <2>. SUFFICES ASSUME NEW k \in S PROVE k <= i
    OBVIOUS
  <2>1. k \in Nat /\ i \in Nat /\ n - i <= n - k
    BY <1>1, <1>6
  <2>. QED BY <2>1
<1>. QED BY <1>7

(* A file that loads says of every model a target that is known.            *)
LEMMA LoadedTargets ==
    ASSUME NEW E, NEW file \in RegistryFiles(E), Loads(file)
    PROVE  KnownTargets(Entries(file))
<1>. DEFINE es == file.entries
            n == Len(es)
            At(name) == {i \in 1 .. n : es[i].name = name}
            Final(name) == CHOOSE i \in At(name) : \A k \in At(name) : k <= i
            names == {es[i].name : i \in 1 .. n}
<1>1. n \in Nat
  BY DEF RegistryFiles
<1>2. \A i \in 1 .. n : es[i].target \in Targets
  BY Zenon DEF Loads
<1>3. Entries(file) = [name \in names |-> Metadata(es[Final(name)])]
  BY Zenon DEF Entries
<1>4. ASSUME NEW name \in names
      PROVE  Final(name) \in 1 .. n
  <2>1. At(name) # {} /\ At(name) \subseteq 1 .. n
    BY <1>4, Zenon
  <2>2. \E i \in At(name) : \A k \in At(name) : k <= i
    <3>. HIDE DEF At, n
    <3>. QED BY <1>1, <2>1, LastIndex
  <2>3. Final(name) \in At(name)
    BY <2>2, Zenon
  <2>. QED BY <2>1, <2>3, Zenon
<1>. HIDE DEF Final
<1>5. \A e : Metadata(e).target = e.target
  BY DEF Metadata
<1>. DEFINE found == Entries(file)
<1>6. DOMAIN found = names /\ \A name \in names : found[name] = Metadata(es[Final(name)])
  <2>. HIDE DEF names
  <2>1. Entries(file) = [name \in names |-> Metadata(es[Final(name)])]
    BY <1>3
  <2>. QED BY <2>1
<1>. HIDE DEF n, es, found, names
<1>7. \A name \in DOMAIN found : found[name].target \in Targets
  BY <1>2, <1>4, <1>5, <1>6, Zenon
<1>. QED BY <1>7, Zenon DEF KnownTargets, found

LEMMA OverKeepsTargets ==
    ASSUME NEW E, NEW file \in RegistryFiles(E), NEW models, KnownTargets(models)
    PROVE  KnownTargets(Over(models, file))
<1>1. CASE ~Loads(file)
  BY <1>1 DEF Over
<1>2. CASE Loads(file)
  <2>. DEFINE top == Entries(file)
  <2>1. KnownTargets(top)
    BY <1>2, LoadedTargets
  <2>2. Over(models, file) = MergeRegistries(models, top)
    BY <1>2 DEF Over
  <2>. HIDE DEF top
  <2>. QED BY <2>1, <2>2, Zenon DEF MergeRegistries, KnownTargets
<1>. QED BY <1>1, <1>2

(* Whatever the files of the registry hold, and whichever of them load, what *)
(* "models list" shows for a machine (remote_registry.go:203-234) is what a  *)
(* deployment would accept (manager.go:241-273), and without a GPU all of it.*)
THEOREM ListedIsDeployable ==
    ASSUME NEW E, NEW l \in LayersOf(E), Loads(l.default), NEW machine
    PROVE  LET known == LoadAllModels(l)
           IN  /\ FilterByHardware(known, machine) \subseteq GetSuitableModels(known, machine)
               /\ ~machine.gpu => FilterByHardware(known, machine)
                                    = GetSuitableModels(known, machine)
<1>. DEFINE bundle == Bundled(l.bundled, l.default)
            known == LoadAllModels(l)
            good == {i \in 1 .. Len(l.bundled) : Loads(l.bundled[i])}
<1>1. KnownTargets(bundle)
  <2>1. CASE good = {}
    <3>1. bundle = Entries(l.default)
      BY <2>1, Zenon DEF Bundled
    <3>. QED BY <3>1, LoadedTargets DEF LayersOf
  <2>2. CASE good # {}
    <3>. DEFINE first == CHOOSE i \in good : \A k \in good : i <= k
    <3>1. l.bundled \in Seq(RegistryFiles(E)) /\ Len(l.bundled) \in Nat
      BY DEF LayersOf
    <3>2. good \subseteq Nat
      <4>. DEFINE n == Len(l.bundled)
      <4>1. n \in Nat
        BY <3>1
      <4>. HIDE DEF n
      <4>2. 1 .. n \subseteq Nat
        BY <4>1
      <4>. QED BY <4>2, Zenon DEF n
    <3>3. \E i \in good : \A k \in good : i <= k
      <4>. HIDE DEF good
      <4>. QED BY <2>2, <3>2, LeastOfNaturals
    <3>4. first \in good
      BY <3>3, Zenon
    <3>5. bundle = Entries(l.bundled[first])
      BY <2>2, Zenon DEF Bundled
    <3>. HIDE DEF first
    <3>6. Loads(l.bundled[first]) /\ first \in 1 .. Len(l.bundled)
      BY <3>4, Zenon
    <3>7. l.bundled[first] \in RegistryFiles(E)
      BY <3>1, <3>6
    <3>. QED BY <3>5, <3>6, <3>7, LoadedTargets
  <2>. QED BY <2>1, <2>2
<1>2. KnownTargets(known)
  <2>1. l.system \in RegistryFiles(E) /\ l.user \in RegistryFiles(E) /\ l.local \in RegistryFiles(E)
    BY DEF LayersOf
  <2>. HIDE DEF bundle
  <2>2. KnownTargets(Over(bundle, l.system))
    BY <1>1, <2>1, OverKeepsTargets
  <2>3. KnownTargets(Over(Over(bundle, l.system), l.user))
    BY <2>1, <2>2, OverKeepsTargets
  <2>4. KnownTargets(Over(Over(Over(bundle, l.system), l.user), l.local))
    BY <2>1, <2>3, OverKeepsTargets
  <2>. QED BY <2>4, Zenon DEF LoadAllModels, bundle
<1>. HIDE DEF known
<1>3. \A name \in DOMAIN known :
        known[name].target # "gpu" => known[name].target \in {"cpu", "both"}
  BY <1>2 DEF KnownTargets, Targets
<1>4. "gpu" \notin {"cpu", "both"}
  OBVIOUS
<1>5. FilterByHardware(known, machine) \subseteq GetSuitableModels(known, machine)
  BY <1>3, Zenon DEF FilterByHardware, GetSuitableModels
<1>6. ~machine.gpu => FilterByHardware(known, machine) = GetSuitableModels(known, machine)
  BY <1>3, <1>4, Zenon DEF FilterByHardware, GetSuitableModels
<1>. QED BY <1>5, <1>6, Zenon DEF known

(* Whatever the cached file and the network hold, models are had if either   *)
(* has them, old ones only when the network has none, and what the network   *)
(* gave is what a cache that can be written holds (remote_registry.go:56-91).*)
THEOREM CacheCoversTheNetwork ==
    ASSUME NEW cache, cache.there \in BOOLEAN, cache.readable \in BOOLEAN, cache.age \in Nat,
           NEW api, api.readable \in BOOLEAN, NEW writable \in BOOLEAN
    PROVE  LET got == FetchAndCache(cache, api, writable)
           IN  /\ got.ok <=> Loads(api) \/ LoadCache(cache)
               /\ got.ok => \/ got.models = Entries(api) /\ Loads(api)
                            \/ got.models = cache.models /\ LoadCache(cache)
                                 /\ (IsCacheValid(cache) \/ ~Loads(api))
               /\ Loads(api) /\ writable => LoadCache(got.cache) /\ IsCacheValid(got.cache)
               /\ got.cache # cache => got.ok /\ got.cache.models = got.models
<1>. DEFINE got == FetchAndCache(cache, api, writable)
<1>1. LoadCache(cache) \in BOOLEAN /\ IsCacheValid(cache) \in BOOLEAN /\ Loads(api) \in BOOLEAN
  BY DEF LoadCache, IsCacheValid, Loads
<1>2. CASE LoadCache(cache) /\ (IsCacheValid(cache) \/ ~Loads(api))
  <2>1. got = [ok |-> TRUE, models |-> cache.models, cache |-> cache]
    BY <1>2, Zenon DEF FetchAndCache, Answer
  <2>2. got.ok /\ got.models = cache.models /\ got.cache = cache
    BY <2>1
  <2>. HIDE DEF got
  <2>. QED BY <1>2, <2>2, Zenon DEF got
<1>3. CASE ~(LoadCache(cache) /\ (IsCacheValid(cache) \/ ~Loads(api))) /\ Loads(api)
  <2>. DEFINE kept == SaveCache(cache, Entries(api), writable)
  <2>1. got = [ok |-> TRUE, models |-> Entries(api), cache |-> kept]
    BY <1>3, Zenon DEF FetchAndCache, FetchOnly, Answer
  <2>. HIDE DEF kept
  <2>2. got.ok /\ got.models = Entries(api) /\ got.cache = kept
    BY <2>1
  <2>3. CASE writable
    <3>1. kept = [there |-> TRUE, readable |-> TRUE, age |-> 0, models |-> Entries(api)]
      BY <2>3, Zenon DEF SaveCache, kept
    <3>2. kept.there /\ kept.readable /\ kept.age < CacheTTL /\ kept.models = Entries(api)
      BY <3>1 DEF CacheTTL
    <3>. HIDE DEF got
    <3>. QED BY <1>3, <2>2, <3>2, Zenon DEF LoadCache, IsCacheValid, got
  <2>4. CASE ~writable
    <3>1. kept = cache
      BY <2>4, Zenon DEF SaveCache, kept
    <3>. HIDE DEF got
    <3>. QED BY <1>3, <2>2, <2>4, <3>1, Zenon DEF got
  <2>. QED BY <2>3, <2>4
<1>4. CASE ~LoadCache(cache) /\ ~Loads(api)
  <2>1. got = [ok |-> FALSE, models |-> << >>, cache |-> cache]
    BY <1>4, Zenon DEF FetchAndCache, FetchOnly, Failure
  <2>2. ~got.ok /\ got.cache = cache
    BY <2>1
  <2>. HIDE DEF got
  <2>. QED BY <1>4, <2>2, Zenon DEF got
<1>. QED BY <1>1, <1>2, <1>3, <1>4

(* Whatever its size and the memory there is, a model is said to need none   *)
(* in the form that is suggested first: 4 bits are divided by 8 before they  *)
(* are multiplied (quantization.go:57-96, 111-117).                          *)
THEOREM FormIsAlwaysAWQ ==
    ASSUME NEW params \in Nat, NEW vram \in Nat
    PROVE  AnalyzeModelFit(params, vram) =
             [fitting |-> Fitting(params, vram), recommended |-> "awq", required |-> 0]
<1>1. VRAMRequired(params, "awq") = 0
  <2>1. Bits["awq"] = 4
    BY DEF Bits
  <2>2. 4 \div 8 = 0 /\ params * 0 = 0 /\ (0 * 15) \div 100 = 0
    OBVIOUS
  <2>. QED BY <2>1, <2>2 DEF VRAMRequired, CalculateVRAM
<1>2. "awq" \in Fitting(params, vram)
  BY <1>1 DEF Fitting, Forms
<1>3. Priority[1] = "awq" /\ 1 \in 1 .. 4 /\ 1 .. (1 - 1) = {}
  BY DEF Priority
<1>. DEFINE Chosen(i) == /\ Priority[i] \in Fitting(params, vram)
                         /\ \A k \in 1 .. (i - 1) : Priority[k] \notin Fitting(params, vram)
            first == CHOOSE i \in 1 .. 4 : Chosen(i)
<1>4. Chosen(1)
  BY <1>2, <1>3
<1>5. first \in 1 .. 4 /\ Chosen(first)
  BY <1>3, <1>4, Zenon
<1>6. first = 1
  <2>. HIDE DEF first
  <2>1. first # 1 => 1 \in 1 .. (first - 1)
    BY <1>5
  <2>. QED BY <1>2, <1>3, <1>5, <2>1, Zenon
<1>7. SuggestQuantization(params, vram) = "awq"
  <2>1. SuggestQuantization(params, vram) = Priority[first]
    BY <1>2, <1>3, Zenon DEF SuggestQuantization
  <2>. QED BY <1>3, <1>6, <2>1, Zenon
<1>. QED BY <1>1, <1>7, Zenon DEF AnalyzeModelFit

----
(* The theorems                                                             *)

(* The engine room and the cache agree at every moment on what a command is *)
(* doing, whatever commands are typed and whatever fails.                   *)
THEOREM EngineInvAlways == Spec => []EngineInv
<1>1. EngineInv /\ [Next]_vars => EngineInv'
  BY EngineInvNext
<1>. QED BY <1>1, EngineInvInit, PTL DEF Spec

(* Variables have their types, a command never waits for the cache and for  *)
(* docker at once, and what it takes to have been up all along is up.       *)
THEOREM EngineTypeCorrect == Spec => []TypeOK
<1>1. Init => EngineInv /\ BasisInv
  BY EngineInvInit, BasisInvInit DEF Init
<1>2. EngineInv /\ BasisInv /\ [Next]_vars => (EngineInv /\ BasisInv)'
  BY EngineInvNext, EngineBasisNext
<1>3. EngineInv /\ BasisInv => TypeOK
  BY InvIsTypeOK
<1>. QED BY <1>1, <1>2, <1>3, PTL DEF Spec

(* A download resumed by a deployment makes no wrong file                   *)
(* (huggingface.go:215-263), though commands of the engine room look into   *)
(* the directory and removals empty it meanwhile.                           *)
THEOREM DeployedFilesAreSound == Spec => []ResumeIsSound
<1>1. EngineInv => ResumeIsSound
  BY DEF EngineInv, CacheInv
<1>. QED BY <1>1, EngineInvAlways, PTL

(* A download a deployment made untroubled leaves its model whole           *)
(* (huggingface.go:102-149).                                                *)
THEOREM DeployedPullsAreWhole == Spec => PullIsWhole
<1>1. EngineInv /\ [Next]_vars =>
        [\A p \in Procs :
            job[p].pc = "finish" /\ job'[p].pc = "truncate" /\ ~job[p].trouble
            => \A f \in FilesIn(job[p].model) \ mixed : disk[f] = Original(f)]_job
  BY PullIsWholeNext DEF EngineInv
<1>. QED BY <1>1, EngineInvAlways, PTL DEF Spec, PullIsWhole

(* A deployment that failed left no container of its own running, unless    *)
(* docker did not answer it (vllm.go:145, cpu_inference.go:366): whether it *)
(* failed before the container was run, at docker run, or at the health     *)
(* check, and whatever other commands did with the name in between.         *)
THEOREM FailuresLeaveNothing == Spec => []FailureLeavesNothing
<1>1. EngineInv => FailureLeavesNothing
  <2>. SUFFICES ASSUME EngineInv, NEW p \in Procs, NEW n \in Names,
                       launch[p].answer = "failed", Running(n), box[n].id = p
                PROVE  launch[p].loose
    BY DEF FailureLeavesNothing
  <2>1. Ran(launch[p], job[p], n, box[n])
    BY DEF EngineInv
  <2>. QED BY <2>1 DEF Ran, Running, Alive
<1>. QED BY <1>1, EngineInvAlways, PTL

(* The commands deploy and stop implement Fleet: what a command owes is     *)
(* done when it answers that it succeeded, and no deployment takes down     *)
(* what had been up since before it was asked for (orchestrator.go:153-161).*)
THEOREM EngineImplementsFleet == Spec => KeepsPromises
<1>1. Init => Promises!Init
  BY InitMaps, EngineInvInit
<1>2. EngineInv /\ [Next]_vars => [Promises!Next]_<<FleetState, FleetAsk>>
  BY EngineInvNext DEF FleetStep
<1>. QED BY <1>1, <1>2, EngineInvAlways, PTL DEF Spec, KeepsPromises, Promises!FleetSpec

(* What a command writes of the index is what it read but for its own       *)
(* model, unless overtaken (cache.go:64-97), also when a deployment reads    *)
(* the index and fetches its model long after.                               *)
THEOREM DeployedEntriesPassThrough == Spec => OneEntryAtATime
<1>1. Init => EngineInv /\ BasisInv
  BY EngineInvInit, BasisInvInit DEF Init
<1>2. EngineInv /\ BasisInv /\ [Next]_vars =>
        (EngineInv /\ BasisInv)' /\ [OneEntryStep]_cacheVars
  BY EngineInvNext, EngineBasisNext
<1>. QED BY <1>1, <1>2, PTL DEF Spec, OneEntryAtATime, OneEntryStep

=============================================================================
