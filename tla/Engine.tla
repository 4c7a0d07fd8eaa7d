------------------------------- MODULE Engine -------------------------------
(***************************************************************************)
(* The engine room: core/engine/orchestrator.go and persistence.go, as the *)
(* commands deploy and stop (cmd/deploy.go, cmd/stop.go) run them, on the  *)
(* containers that internal/docker names, starts, lists and inspects, and  *)
(* on the directory of models of ModelCache.  Each command is a process of *)
(* its own; what processes share is docker, the model directory and        *)
(* running_models.json, none of which they lock.                           *)
(*                                                                         *)
(* Docker gives a name to one container at a time.  It may fail a call; a  *)
(* model may fall over, and docker restarts it (--restart unless-stopped)  *)
(* unless it was stopped.  A container's number is the process that ran it.*)
(***************************************************************************)
EXTENDS ModelCache, Registry

CONSTANTS
    Names,      \* what containers may be listed as
    Listed,     \* the name each model's container is listed under
    Contains,   \* pairs of a listed name and a model's name that it contains
    Ports,
    Layers,     \* the registry files
    Machine

None == 0

NoBox == [id |-> None, state |-> "none", port |-> 0]

\* A name without a container has no number.
Boxes ==
    {b \in [id : Nat, port : Ports \cup {0},
            state : {"none", "created", "running", "restarting", "exited"}] :
        b.state = "none" <=> b.id = None}

\* stop compares the name it is given with the listed one.
Plain(m) == Listed[m] = m

ASSUME EngineAssumption ==
    /\ None \notin Procs
    /\ Listed \in [Models -> Names]
    /\ \A m \in Models \cap Names : Plain(m)
    /\ "none" \notin Names
    /\ Contains \subseteq Names \X Models
    /\ Ports \subseteq Nat \ {0} /\ Ports # {}
    /\ \A s \in Sessions :
          /\ s.box \in [Names -> Boxes]
          /\ \A n \in Names : s.box[n].id \notin Procs
          /\ s.records \in [Models -> Nat]

VARIABLES
    box,       \* the container each name has, if any
    records,   \* running_models.json: the container of each model it names
    launch     \* each deploy or stop: where it is, and what it has read

engineVars == <<box, records, launch>>

vars == <<cacheVars, engineVars>>

Known == LoadAllModels(Layers)

NoRecords == [m \in Models |-> None]

\* What the listing of docker says of a name: "Restarting" is neither.
Running(n) == box[n].state = "running"

Up == {n \in Names : Running(n)}

Exists(n) == box[n].state # "none"

\* elders, owed and loose are history: see Fleet.
Unbegun == [pc |-> "ready", recs |-> NoRecords, id |-> None, name |-> "none",
            port |-> 0, todo |-> {}, fails |-> FALSE, answer |-> "none",
            elders |-> {}, owed |-> {}, loose |-> FALSE]

Target(p) == Listed[job[p].model]

InEngine(p, pc) == launch[p].pc = pc

-----------------------------------------------------------------------------

Init ==
    /\ \E s \in Sessions :
        /\ CacheInit(s)
        /\ box = s.box
        /\ records = s.records
    /\ launch = [p \in Procs |-> Unbegun]

\* The process goes on as l, and names that went down with this step are no
\* longer anyone's elders.
Turn(p, l, down) ==
    launch' = [q \in Procs |->
                 [IF q = p THEN l ELSE launch[q] EXCEPT !.elders = @ \ down]]

Go(p, pc) == Turn(p, [launch[p] EXCEPT !.pc = pc], {})

\* The command answers, and its process is gone.
Exit(p, answer) ==
    /\ Turn(p, [Unbegun EXCEPT !.pc = "done", !.answer = answer,
                               !.owed = launch[p].owed,
                               !.loose = launch[p].loose], {})
    /\ Step(p, Done(job[p], IF answer = "ok" THEN "ok" ELSE "failed"))

Stay(pc, p) == Go(p, pc) /\ UNCHANGED job

\* What docker is left with if a name's container stops.
Stopped(n) ==
    [box EXCEPT ![n].state = IF @ \in {"running", "restarting"} THEN "exited"
                                                                ELSE @]

Down(n) == {n} \cap Up

SameDisk == UNCHANGED <<disk, present, dirs, index, mixed, basis>>

-----------------------------------------------------------------------------
(* A command is typed.                                                     *)

Order(p, r) ==
    /\ Begin(p, r)
    /\ launch' =
         CASE r.op = "deploy" ->
                [launch EXCEPT ![p] =
                   [Unbegun EXCEPT !.pc = IF r.force THEN "force" ELSE "boot",
                                   !.owed = {Listed[r.model]}, !.elders = Up,
                                   !.loose = r.force \/ ~Plain(r.model)]]
           [] r.op = "stop" ->
                [launch EXCEPT ![p] = [Unbegun EXCEPT
                                         !.pc = "boot", !.todo = {r.model},
                                         !.owed = {Listed[r.model]}]]
           [] r.op = "stop all" ->
                [launch EXCEPT ![p] = [Unbegun EXCEPT !.pc = "boot",
                                                      !.owed = Names]]
           [] OTHER -> launch
    /\ UNCHANGED <<box, records>>

\* deploy --force: the newest container whose listed name contains the name.
FindForced(p) ==
    LET found == {n \in Names : Exists(n) /\ <<n, job[p].model>> \in Contains}
    IN  /\ InEngine(p, "force")
        /\ \/ /\ found # {}
              /\ \E n \in found :
                    /\ \A k \in found : box[k].id <= box[n].id
                    /\ Turn(p, [launch[p] EXCEPT !.pc = "force stop",
                                  !.name = n, !.id = box[n].id], {})
              /\ UNCHANGED faults
           \/ found = {} /\ Go(p, "boot") /\ UNCHANGED faults
           \/ Fault /\ Go(p, "boot")
        /\ SameDisk /\ UNCHANGED <<job, box, records>>

\* A failure to stop it is only a warning.
StopForced(p) ==
    LET n == launch[p].name
        l == [launch[p] EXCEPT !.pc = "boot", !.name = "none", !.id = None]
    IN  /\ InEngine(p, "force stop")
        /\ \/ /\ box[n].id = launch[p].id
              /\ box' = Stopped(n)
              /\ Turn(p, l, Down(n))
              /\ UNCHANGED faults
           \/ /\ box[n].id # launch[p].id
              /\ Turn(p, l, {})
              /\ UNCHANGED <<box, faults>>
           \/ Fault /\ Turn(p, l, {}) /\ UNCHANGED box
        /\ SameDisk /\ UNCHANGED <<job, records>>

\* NewEngineRoom: the records are read once.
Boot(p) ==
    LET pc == CASE job[p].op = "deploy" -> "cache"
                [] job[p].op = "stop" -> "query"
                [] job[p].op = "stop all" -> "survey"
    IN  /\ InEngine(p, "boot")
        /\ Turn(p, [launch[p] EXCEPT !.pc = pc, !.recs = records], {})
        /\ Step(p, [job[p] EXCEPT !.pc = IF pc = "cache" THEN "load" ELSE @])
        /\ SameDisk /\ UNCHANGED <<faults, box, records>>

-----------------------------------------------------------------------------
(* deploy: the model is fetched if it is not there.                        *)

\* ValidateModel.
Valid(m) ==
    /\ m \in DOMAIN Known
    /\ HasWeights(m)
    /\ \A f \in FilesIn(m) \cap Safetensors \cap present : HeaderValid(f)

\* A model that is there but corrupt is not fetched again: only the first
\* three complaints of ValidateModel are a reason to.
NeedsPull(m) == m \notin DOMAIN Known \/ ~HasWeights(m)

Validate(p) ==
    LET pull == NeedsPull(job[p].model)
    IN  /\ InEngine(p, "cache") /\ job[p].pc = "loaded"
        /\ Go(p, IF pull THEN "pull" ELSE "plan")
        /\ Step(p, [job[p] EXCEPT !.pc = IF pull THEN "lookup" ELSE "engine",
                                  !.copy = IF pull THEN @ ELSE {}])
        /\ SameDisk /\ UNCHANGED <<faults, box, records>>

Pulled(p) ==
    /\ InEngine(p, "pull") /\ job[p].pc = "done"
    /\ IF job[p].answer = "ok"
       THEN /\ Go(p, "plan")
            /\ Step(p, [job[p] EXCEPT !.pc = "engine", !.answer = "none"])
       ELSE Exit(p, "failed")
    /\ SameDisk /\ UNCHANGED <<faults, box, records>>

\* From the question of hardware to that of the model's path.
Plan(p) ==
    LET m == job[p].model
        suits == m \in GetSuitableModels(Known, Machine)
        fits == AnalyzeModelFit(Known[m].params, Machine.vram).fitting # {}
    IN  /\ InEngine(p, "plan")
        /\ \/ ~suits /\ Exit(p, "unfit")
           \/ suits /\ ~(fits /\ Valid(m)) /\ Exit(p, "failed")
           \/ suits /\ fits /\ Valid(m) /\ Stay("list", p)
        /\ SameDisk /\ UNCHANGED <<faults, box, records>>

-----------------------------------------------------------------------------
(* deploy: the container.                                                  *)

\* Faulty variant: it is not looked whether the model runs.
NotAsked(m) == FALSE

\* The listed name is compared with the model's, which it differs from if that
\* has a slash.
AlreadyRuns(m) == Plain(m) /\ Running(Listed[m])

\* An error of docker's is no reason to stop here.
List(p) ==
    LET already == AlreadyRuns(job[p].model)
    IN  /\ InEngine(p, "list")
        /\ \/ already /\ Exit(p, "failed") /\ UNCHANGED faults
           \/ ~already /\ Stay("clear", p) /\ UNCHANGED faults
           \/ /\ Fault
              /\ Turn(p, [launch[p] EXCEPT !.pc = "clear", !.loose = TRUE], {})
              /\ UNCHANGED job
        /\ SameDisk /\ UNCHANGED <<box, records>>

\* findFreePort: the first port nobody listens at, the requested one if all
\* are taken.
Taken(b) == {b[n].port : n \in {k \in Names : b[k].state = "running"}}

FreePort(b) ==
    LET free == Ports \ Taken(b)
        from == IF free = {} THEN Ports ELSE free
    IN  CHOOSE i \in from : \A k \in from : i <= k

\* Start: the image is not there, and can be neither pulled nor built.
NoImage(p) ==
    /\ InEngine(p, "clear")
    /\ Fault
    /\ Exit(p, "failed")
    /\ SameDisk /\ UNCHANGED <<box, records>>

\* Start, from there to the docker run: a container of the name is removed,
\* whatever its state, unless docker fails, and a port is looked for.
Clear(p) ==
    LET n == Target(p)
        cleared == [box EXCEPT ![n] = NoBox]
        Ready(b) == [launch[p] EXCEPT !.pc = "run", !.port = FreePort(b)]
    IN  /\ InEngine(p, "clear")
        /\ \/ /\ box' = cleared
              /\ Turn(p, Ready(cleared), Down(n))
              /\ UNCHANGED <<job, faults>>
           \/ /\ Fault /\ Exists(n)
              /\ Turn(p, Ready(box), {})
              /\ UNCHANGED <<job, box>>
        /\ SameDisk /\ UNCHANGED records

\* docker run: the name must be free; a container whose port is taken is left
\* behind as created.
Run(p) ==
    LET n == Target(p)
        made(state) == [box EXCEPT ![n] = [id |-> p, state |-> state,
                                           port |-> launch[p].port]]
        clash == launch[p].port \in Taken(box)
    IN  /\ InEngine(p, "run")
        /\ \/ Exists(n) /\ Exit(p, "failed") /\ UNCHANGED <<box, faults>>
           \/ /\ ~Exists(n) /\ clash
              /\ box' = made("created")
              /\ Exit(p, "failed")
              /\ UNCHANGED faults
           \/ /\ ~Exists(n) /\ ~clash
              /\ box' = made("running")
              /\ Turn(p, [launch[p] EXCEPT !.pc = "health", !.port = 0,
                                           !.owed = {}], {})
              /\ UNCHANGED <<job, faults>>
           \/ Fault /\ Exit(p, "failed") /\ UNCHANGED box
        /\ SameDisk /\ UNCHANGED records

\* Faulty variant: a container that is being restarted is not healthy.
HealthyNow(p) == box[Target(p)].id = p /\ Running(Target(p))

\* HealthCheck asks docker whether the container it ran is running, which is
\* what docker also says of one it is restarting.
Healthy(p) ==
    box[Target(p)].id = p /\ box[Target(p)].state \in {"running", "restarting"}

\* The last of thirty tries decides.
Health(p) ==
    /\ InEngine(p, "health")
    /\ \/ Healthy(p) /\ Stay("record", p) /\ UNCHANGED faults
       \/ ~Healthy(p) /\ Exit(p, "failed") /\ UNCHANGED faults
       \/ /\ Fault
          /\ Turn(p, [Unbegun EXCEPT !.pc = "done", !.answer = "failed",
                                     !.loose = TRUE], {})
          /\ Step(p, Done(job[p], "failed"))
    /\ SameDisk /\ UNCHANGED <<box, records>>

\* The copy of the records gets the new one, and replaces the file, which is
\* truncated and then written.  Another process may have written in between.
TruncateRecords(p, pc) ==
    /\ records' = NoRecords
    /\ Turn(p, [launch[p] EXCEPT !.pc = pc, !.recs[job[p].model] = p], {})

Written(p) ==
    records' \in {launch[p].recs} \cup
                 (IF records = NoRecords THEN {} ELSE {NoRecords})

Record(p) ==
    /\ InEngine(p, "record")
    /\ TruncateRecords(p, "write")
    /\ SameDisk /\ UNCHANGED <<job, faults, box>>

WriteRecords(p) ==
    /\ InEngine(p, "write")
    /\ Written(p)
    /\ Stay("linger", p)
    /\ SameDisk /\ UNCHANGED <<faults, box>>

\* A failure to save is ignored.
RecordFails(p) ==
    /\ InEngine(p, "record") \/ InEngine(p, "write")
    /\ Fault
    /\ Stay("linger", p)
    /\ SameDisk /\ UNCHANGED <<box, records>>

\* Deploy has returned, and the command with it; backgroundHealthCheck runs
\* as long as the process still does, which may be not at all, or until it is
\* in the middle of its own save.
Return(p) ==
    /\ InEngine(p, "linger") \/ InEngine(p, "rewrite")
    /\ Exit(p, "ok")
    /\ SameDisk /\ UNCHANGED <<faults, box, records>>

BackgroundCheck(p) ==
    /\ InEngine(p, "linger")
    /\ Healthy(p)
    /\ TruncateRecords(p, "rewrite")
    /\ SameDisk /\ UNCHANGED <<job, faults, box>>

BackgroundSave(p) ==
    /\ InEngine(p, "rewrite")
    /\ Written(p)
    /\ Exit(p, "ok")
    /\ SameDisk /\ UNCHANGED <<faults, box>>

-----------------------------------------------------------------------------
(* stop.                                                                   *)

\* GetRunningModels: the names that run or, if docker does not answer, those
\* the records have.
Survey(p) ==
    LET recorded == {m \in Models : launch[p].recs[m] # None}
    IN  /\ InEngine(p, "survey")
        /\ \/ /\ Turn(p, [launch[p] EXCEPT !.pc = "query", !.todo = Up,
                                           !.owed = Up], {})
              /\ UNCHANGED faults
           \/ /\ Fault
              /\ Turn(p, [launch[p] EXCEPT !.pc = "query", !.todo = recorded,
                            !.owed = {Listed[m] : m \in recorded},
                            !.loose = TRUE], {})
        /\ SameDisk /\ UNCHANGED <<job, box, records>>

\* StopModel looks for the name, whatever the container's state.
Query(p) ==
    LET l == launch[p]
    IN  /\ InEngine(p, "query")
        /\ \E n \in l.todo :
              \/ /\ n \in Names /\ Exists(n)
                 /\ Turn(p, [l EXCEPT !.pc = "halt", !.name = n,
                              !.id = box[n].id, !.todo = @ \ {n}], {})
                 /\ UNCHANGED faults
              \/ /\ ~(n \in Names /\ Exists(n))
                 /\ Turn(p, [l EXCEPT !.todo = @ \ {n}, !.fails = TRUE], {})
                 /\ UNCHANGED faults
              \/ /\ Fault
                 /\ Turn(p, [l EXCEPT !.todo = @ \ {n}, !.fails = TRUE], {})
        /\ SameDisk /\ UNCHANGED <<job, box, records>>

\* docker stop, of the container that had the name when it was looked for.
Halt(p) ==
    LET n == launch[p].name
        there == box[n].id = launch[p].id
        failed == [launch[p] EXCEPT !.pc = "query", !.fails = TRUE,
                                    !.name = "none", !.id = None]
    IN  /\ InEngine(p, "halt")
        /\ \/ /\ there
              /\ box' = Stopped(n)
              /\ Turn(p, [launch[p] EXCEPT !.pc = "erase",
                                           !.owed = @ \ {n}], Down(n))
              /\ UNCHANGED faults
           \/ ~there /\ Turn(p, failed, {}) /\ UNCHANGED <<box, faults>>
           \/ Fault /\ Turn(p, failed, {}) /\ UNCHANGED box
        /\ SameDisk /\ UNCHANGED <<job, records>>

\* docker rm, whose failure is ignored; the records are left as they are.
Erase(p) ==
    LET n == launch[p].name
        there == /\ box[n].id = launch[p].id
                 /\ box[n].state \notin {"running", "restarting"}
    IN  /\ InEngine(p, "erase")
        /\ Turn(p, [launch[p] EXCEPT !.pc = "query", !.name = "none",
                                     !.id = None], {})
        /\ \/ there /\ box' = [box EXCEPT ![n] = NoBox] /\ UNCHANGED faults
           \/ ~there /\ UNCHANGED <<box, faults>>
           \/ Fault /\ UNCHANGED box
        /\ SameDisk /\ UNCHANGED <<job, records>>

StopReturns(p) ==
    /\ InEngine(p, "query")
    /\ launch[p].todo = {}
    /\ Exit(p, IF launch[p].fails THEN "failed" ELSE "ok")
    /\ SameDisk /\ UNCHANGED <<faults, box, records>>

-----------------------------------------------------------------------------
(* What happens to processes and containers by themselves.                 *)

Crash(p) ==
    /\ launch[p].pc \notin {"ready", "done"}
    /\ Fault
    /\ Exit(p, "killed")
    /\ SameDisk /\ UNCHANGED <<box, records>>

Falter(n) ==
    /\ Running(n)
    /\ Fault
    /\ box' = [box EXCEPT ![n].state = "restarting"]
    /\ launch' = [q \in Procs |-> [launch[q] EXCEPT !.elders = @ \ {n}]]
    /\ SameDisk /\ UNCHANGED <<job, records>>

Recover(n) ==
    /\ box[n].state = "restarting"
    /\ box[n].port \notin Taken(box)
    /\ box' = [box EXCEPT ![n].state = "running"]
    /\ UNCHANGED <<cacheVars, records, launch>>

EngineStep(p) ==
    \/ FindForced(p)
    \/ StopForced(p)
    \/ Boot(p)
    \/ Validate(p)
    \/ Pulled(p)
    \/ Plan(p)
    \/ List(p)
    \/ NoImage(p)
    \/ Clear(p)
    \/ Run(p)
    \/ Health(p)
    \/ Record(p)
    \/ WriteRecords(p)
    \/ RecordFails(p)
    \/ Return(p)
    \/ BackgroundCheck(p)
    \/ BackgroundSave(p)
    \/ Survey(p)
    \/ Query(p)
    \/ Halt(p)
    \/ Erase(p)
    \/ StopReturns(p)

Next ==
    \/ \E p \in Procs :
          \/ \E r \in Requests : Order(p, r)
          \/ CacheStep(p) /\ UNCHANGED engineVars
          \/ EngineStep(p)
          \/ Crash(p)
          \/ launch[p].pc = "ready" /\ CacheCrash(p) /\ UNCHANGED engineVars
    \/ \E n \in Names : Falter(n) \/ Recover(n)

Spec == Init /\ [][Next]_vars

-----------------------------------------------------------------------------

Deploying == {"force", "force stop", "cache", "pull", "plan", "list", "clear",
              "run", "health", "record", "write", "linger", "rewrite"}

Stopping == {"survey", "query", "halt", "erase"}

Launches ==
    [pc : {"ready", "boot", "done"} \cup Deploying \cup Stopping,
     recs : [Models -> Nat], id : Nat, name : Names \cup {"none"}, port : Ports \cup {0},
     todo : SUBSET (Names \cup Models), fails : BOOLEAN,
     answer : {"none", "ok", "failed", "unfit", "killed"},
     elders : SUBSET Names, owed : SUBSET Names, loose : BOOLEAN]

\* The engine room and the cache agree on what a process is doing; an elder
\* is up.
TypeOK ==
    /\ CacheTypeOK
    /\ BasisTypeOK
    /\ box \in [Names -> Boxes]
    /\ records \in [Models -> Nat]
    /\ launch \in [Procs -> Launches]
    /\ \A p \in Procs :
        /\ launch[p].pc \in Deploying => job[p].op = "deploy"
        /\ launch[p].pc \in Stopping => job[p].op \in {"stop", "stop all"}
        /\ launch[p].elders \subseteq Up
        /\ launch[p].pc = "ready" => job[p].op \in {"none", "pull", "remove"}
        /\ launch[p].answer = "none" <=> launch[p].pc # "done"
        /\ job[p].pc = "engine" =>
              launch[p].pc \notin {"ready", "cache", "pull", "done"}

\* What docker says, and what a command was asked and owes, as Fleet sees it.
Seen(b) ==
    CASE b.state = "running" -> "up"
      [] b.state = "restarting" -> "faltering"
      [] OTHER -> "down"

Asked(l, j) ==
    IF l.pc = "ready"
    THEN [kind |-> "none", name |-> "none", owed |-> {}, elders |-> {},
          loose |-> FALSE, answer |-> "none"]
    ELSE [kind |-> j.op, name |-> Listed[j.model], owed |-> l.owed,
          elders |-> l.elders, loose |-> l.loose, answer |-> l.answer]

FleetState == [n \in Names |-> Seen(box[n])]

FleetAsk == [p \in Procs |-> Asked(launch[p], job[p])]

Promises == INSTANCE Fleet WITH state <- FleetState, ask <- FleetAsk

\* The commands keep what Fleet promises: a deploy that answers it succeeded
\* brought its model up and did not take down one that had been up all along
\* (orchestrator.go:153-161, which looks long before the container is run), a
\* stop that succeeded saw it down, and a stop of all everything that ran.
KeepsPromises == Promises!FleetSpec

\* A deployment that failed leaves no container of its own running, although
\* Start returns without removing it (vllm.go:145, cpu_inference.go:366),
\* unless docker did not answer it.
FailureLeavesNothing ==
    \A p \in Procs, n \in Names :
        /\ launch[p].answer = "failed"
        /\ job[p].op = "deploy"
        /\ Running(n) /\ box[n].id = p
        => launch[p].loose
=============================================================================
