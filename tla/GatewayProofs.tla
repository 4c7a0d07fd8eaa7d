--------------------------- MODULE GatewayProofs ----------------------------
(***************************************************************************)
(* What the request pipeline keeps for any number of requests, users and   *)
(* models, in any interleaving with refreshes and deployments.             *)
(***************************************************************************)
EXTENDS Gateway, Wire, RateLimiterProofs, FiniteSetTheorems, SequenceTheorems,
        WellFoundedInduction

----
(* The registry: one that no deployment has outrun is exactly what runs.    *)

\* A model of the draft: stopped, still to be asked, or asked.
Asked == [port : Ports, endpoints : SUBSET Endpoints]
Drafted == {Absent} \cup [port : Ports] \cup Asked

\* No two models listen on one port.
OneModelPerPort ==
    \A m, n \in Models : running[m] = running[n] => m = n \/ running[m] = NoPort

\* The draft of a refresh that no deployment came between is what runs, and
\* what it holds of a model's endpoints it has from that model.
DraftIsCurrent ==
    draft # NoDraft /\ ~staleDraft => \A m \in Models :
      /\ draft[m].port = running[m]
      /\ draft[m] \in Asked => draft[m].endpoints \in {{}, Serves[m]}

RouterInv ==
    /\ running \in [Models -> Ports \cup {NoPort}]
    /\ OneModelPerPort
    /\ registry \in [Models -> {Absent} \cup Asked]
    /\ draft \in [Models -> Drafted] \cup {NoDraft}
    /\ stale \in BOOLEAN /\ staleDraft \in BOOLEAN
    /\ DraftIsCurrent
    /\ RegistryCurrent

----
LEMMA AbsentFacts ==
    /\ Absent.port = NoPort /\ Absent.endpoints = {}
    /\ "endpoints" \in DOMAIN Absent
    /\ Absent \notin Asked
  BY RouterAssumption DEF Absent, Asked

\* What is still to be asked is told by its shape.
LEMMA UnaskedShape ==
    ASSUME NEW d \in Drafted
    PROVE  /\ "endpoints" \notin DOMAIN d => d \in [port : Ports]
           /\ "endpoints" \in DOMAIN d => d \in {Absent} \cup Asked
  <1>1. \A x \in [port : Ports] : DOMAIN x = {"port"}
    OBVIOUS
  <1>2. \A x \in Asked : DOMAIN x = {"port", "endpoints"}
    BY DEF Asked
  <1>3. DOMAIN Absent = {"port", "endpoints"}
    BY DEF Absent
  <1> QED
    BY <1>1, <1>2, <1>3 DEF Drafted

LEMMA RouterInitInv == RouterInit => RouterInv
  <1> SUFFICES ASSUME RouterInit
               PROVE  RouterInv
    OBVIOUS
  <1>1. running \in [Models -> Ports \cup {NoPort}] /\ OneModelPerPort
    BY DEF RouterInit, OneModelPerPort
  <1>2. registry \in [Models -> {Absent} \cup Asked]
    BY DEF RouterInit
  <1> QED
    BY <1>1, <1>2 DEF RouterInit, RouterInv, DraftIsCurrent, RegistryCurrent

LEMMA RedeployKeeps ==
    ASSUME RouterInv, NEW m \in Models, Redeploy(m)
    PROVE  RouterInv'
  <1>1. PICK p \in (Ports \ Taken) \cup {NoPort} : running' = [running EXCEPT ![m] = p]
    BY DEF Redeploy
  <1>2. registry' = registry /\ draft' = draft /\ stale' = TRUE
        /\ staleDraft' = (draft # NoDraft)
    BY DEF Redeploy
  <1>3. running' \in [Models -> Ports \cup {NoPort}]
    BY <1>1 DEF RouterInv
  <1>4. OneModelPerPort'
    BY <1>1 DEF RouterInv, OneModelPerPort, Taken
  <1>5. DraftIsCurrent'
    BY <1>2 DEF DraftIsCurrent
  <1>6. RegistryCurrent'
    BY <1>2 DEF RegistryCurrent
  <1>7. (stale \in BOOLEAN /\ staleDraft \in BOOLEAN)'
    BY <1>2, Zenon
  <1> QED
    BY <1>2, <1>3, <1>4, <1>5, <1>6, <1>7 DEF RouterInv

LEMMA ListKeeps ==
    ASSUME RouterInv, List
    PROVE  RouterInv'
  <1>1. UNCHANGED <<running, registry, stale>>
    BY DEF List
  <1>2. draft' = [m \in Models |-> IF running[m] = NoPort THEN Absent
                                   ELSE [port |-> running[m]]]
    BY DEF List
  <1>3. draft' \in [Models -> Drafted]
    BY <1>2 DEF RouterInv, Drafted
  <1>4. DraftIsCurrent'
    <2> SUFFICES ASSUME NEW m \in Models
                 PROVE  /\ draft'[m].port = running[m]
                        /\ draft'[m] \in Asked => draft'[m].endpoints \in {{}, Serves[m]}
      BY <1>1 DEF DraftIsCurrent
    <2>1. CASE running[m] = NoPort
      BY <1>2, <2>1, AbsentFacts
    <2>2. CASE running[m] # NoPort
      <3>1. draft'[m] = [port |-> running[m]]
        BY <1>2, <2>2
      <3>2. DOMAIN draft'[m] = {"port"}
        BY <3>1
      <3>3. draft'[m] \notin Asked
        BY <3>2 DEF Asked
      <3> QED
        BY <3>1, <3>3
    <2> QED
      BY <2>1, <2>2
  <1>5. (stale \in BOOLEAN /\ staleDraft \in BOOLEAN)'
    BY DEF List, RouterInv
  <1> QED
    BY <1>1, <1>3, <1>4, <1>5 DEF RouterInv, OneModelPerPort, RegistryCurrent

LEMMA FetchKeeps ==
    ASSUME RouterInv, NEW m \in Models, FetchCapability(m)
    PROVE  RouterInv'
  <1>1. UNCHANGED <<running, registry, stale, staleDraft>>
    BY DEF FetchCapability
  <1>2. draft # NoDraft /\ draft \in [Models -> Drafted]
    <2>1. m \in DOMAIN draft
      BY DEF FetchCapability, Unasked
    <2>2. draft # NoDraft
      BY <2>1 DEF NoDraft
    <2> QED
      BY <2>2 DEF RouterInv
  <1>3. draft[m] \in [port : Ports]
    BY <1>2, UnaskedShape DEF FetchCapability, Unasked
  <1>4. PICK e \in {{}} \cup {Serves[n] : n \in Listening(draft[m].port)} :
          draft' = [draft EXCEPT ![m] = [port |-> draft[m].port, endpoints |-> e]]
    BY DEF FetchCapability
  <1>5. e \in SUBSET Endpoints
    BY <1>4 DEF Listening, Endpoints
  <1>6. draft'[m] = [port |-> draft[m].port, endpoints |-> e] /\ draft'[m] \in Asked
    BY <1>2, <1>3, <1>4, <1>5 DEF Asked
  <1>7. draft' \in [Models -> Drafted]
    BY <1>2, <1>4, <1>6 DEF Drafted
  <1>8. DraftIsCurrent'
    <2> SUFFICES ASSUME ~staleDraft, NEW n \in Models
                 PROVE  /\ draft'[n].port = running[n]
                        /\ draft'[n] \in Asked => draft'[n].endpoints \in {{}, Serves[n]}
      BY <1>1 DEF DraftIsCurrent
    <2>1. /\ draft[n].port = running[n]
          /\ draft[n] \in Asked => draft[n].endpoints \in {{}, Serves[n]}
      BY <1>2 DEF RouterInv, DraftIsCurrent
    <2>2. CASE n # m
      BY <1>2, <1>4, <2>1, <2>2
    <2>3. CASE n = m
      <3>1. draft[m].port = running[m]
        BY <2>1, <2>3
      <3>2. Listening(draft[m].port) \subseteq {m}
        BY <3>1 DEF RouterInv, OneModelPerPort, Listening
      <3>3. e \in {{}, Serves[m]}
        BY <1>4, <3>2
      <3> QED
        BY <1>6, <2>3, <3>1, <3>3
    <2> QED
      BY <2>2, <2>3
  <1> QED
    BY <1>1, <1>7, <1>8 DEF RouterInv, OneModelPerPort, RegistryCurrent

LEMMA SwapKeeps ==
    ASSUME RouterInv, Swap
    PROVE  RouterInv'
  <1>1. draft # NoDraft /\ draft \in [Models -> Drafted] /\ Unasked = {}
    BY DEF Swap, RouterInv
  <1>2. /\ running' = running /\ registry' = draft /\ draft' = NoDraft
        /\ stale' = staleDraft
    BY DEF Swap
  <1>3. \A m \in Models : draft[m] \in {Absent} \cup Asked
    BY <1>1, UnaskedShape DEF Unasked
  <1>4. registry' \in [Models -> {Absent} \cup Asked]
    BY <1>1, <1>2, <1>3
  <1>5. RegistryCurrent'
    <2> SUFFICES ASSUME ~staleDraft, NEW m \in Models
                 PROVE  draft[m].port = running[m] /\ draft[m].endpoints \in {{}, Serves[m]}
      BY <1>2 DEF RegistryCurrent
    <2>1. /\ draft[m].port = running[m]
          /\ draft[m] \in Asked => draft[m].endpoints \in {{}, Serves[m]}
      BY <1>1 DEF RouterInv, DraftIsCurrent
    <2> QED
      BY <1>3, <2>1, AbsentFacts
  <1>6. (stale \in BOOLEAN /\ staleDraft \in BOOLEAN)'
    BY DEF Swap, RouterInv
  <1> QED
    BY <1>2, <1>4, <1>5, <1>6 DEF RouterInv, OneModelPerPort, DraftIsCurrent

LEMMA RouterStepInv == RouterInv /\ [RouterNext]_routerVars => RouterInv'
  <1> SUFFICES ASSUME RouterInv, [RouterNext]_routerVars
               PROVE  RouterInv'
    OBVIOUS
  <1>1. ASSUME NEW m \in Models, Redeploy(m) \/ FetchCapability(m)
        PROVE  RouterInv'
    BY <1>1, RedeployKeeps, FetchKeeps
  <1>2. CASE List
    BY <1>2, ListKeeps
  <1>3. CASE Swap
    BY <1>3, SwapKeeps
  <1>4. CASE UNCHANGED routerVars
    BY <1>4 DEF routerVars, RouterInv, OneModelPerPort, DraftIsCurrent, RegistryCurrent
  <1> QED
    BY <1>1, <1>2, <1>3, <1>4 DEF RouterNext

----
\* The ports of the registry and of the draft are those of one answer each.
PortsOf(f) == [m \in Models |-> f[m].port]

Listed == IF draft = NoDraft THEN {} ELSE {PortsOf(draft)}

LEMMA FetchKeepsPorts ==
    ASSUME RouterInv, NEW m \in Models, FetchCapability(m)
    PROVE  /\ draft # NoDraft /\ draft' # NoDraft
           /\ PortsOf(draft') = PortsOf(draft)
  <1>1. draft # NoDraft /\ draft \in [Models -> Drafted]
    <2>1. m \in DOMAIN draft
      BY DEF FetchCapability, Unasked
    <2>2. draft # NoDraft
      BY <2>1 DEF NoDraft
    <2> QED
      BY <2>2 DEF RouterInv
  <1>2. PICK e : draft' = [draft EXCEPT ![m] = [port |-> draft[m].port, endpoints |-> e]]
    BY DEF FetchCapability
  <1>3. \A n \in Models : draft'[n].port = draft[n].port
    BY <1>1, <1>2
  <1>4. DOMAIN draft' = Models /\ m \in DOMAIN draft'
    BY <1>1, <1>2
  <1> QED
    BY <1>1, <1>3, <1>4 DEF PortsOf, NoDraft

LEMMA ListTakesRunning ==
    ASSUME RouterInv, List
    PROVE  PortsOf(draft') = running
  <1>1. draft' = [m \in Models |-> IF running[m] = NoPort THEN Absent
                                   ELSE [port |-> running[m]]]
    BY DEF List
  <1>2. \A m \in Models : draft'[m].port = running[m]
    BY <1>1, AbsentFacts
  <1> QED
    BY <1>2 DEF PortsOf, RouterInv

LEMMA RouterStepMaps ==
    ASSUME RouterInv, [RouterNext]_routerVars
    PROVE  Snapshot!Next \/ UNCHANGED <<running, PortsOf(registry), Listed>>
  <1>1. ASSUME NEW m \in Models, Redeploy(m)
        PROVE  Snapshot!Next
    <2>1. PICK p \in (Ports \ Taken) \cup {NoPort} : running' = [running EXCEPT ![m] = p]
      BY <1>1 DEF Redeploy
    <2>2. p = NoPort \/ \A n \in Models : running[n] # p
      BY <2>1 DEF Taken
    <2>3. Snapshot!Redeploy(m)
      BY <1>1, <2>1, <2>2 DEF Redeploy, Snapshot!Redeploy
    <2> QED
      BY <2>3 DEF Snapshot!Next
  <1>2. CASE List
    <2>1. Listed = {} /\ UNCHANGED <<running, PortsOf(registry)>>
      BY <1>2 DEF List, Listed, PortsOf
    <2>2. Listed' = {running} \/ Listed' = {}
      BY <1>2, ListTakesRunning DEF Listed, PortsOf
    <2>3. CASE Listed' = {running}
      BY <2>1, <2>3 DEF Snapshot!Next, Snapshot!List, Listed, PortsOf
    <2>4. CASE Listed' = {}
      BY <2>1, <2>4
    <2> QED
      BY <2>2, <2>3, <2>4
  <1>3. ASSUME NEW m \in Models, FetchCapability(m)
        PROVE  UNCHANGED <<running, PortsOf(registry), Listed>>
    <2>1. UNCHANGED <<running, registry>>
      BY <1>3 DEF FetchCapability
    <2>2. Listed' = Listed
      BY <1>3, FetchKeepsPorts DEF Listed, PortsOf
    <2> QED
      BY <2>1, <2>2 DEF PortsOf
  <1>4. CASE Swap
    <2>1. draft # NoDraft /\ registry' = draft /\ draft' = NoDraft /\ running' = running
      BY <1>4 DEF Swap
    <2>2. PortsOf(registry)' \in Listed /\ Listed' = {}
      BY <2>1 DEF Listed, PortsOf
    <2> QED
      BY <2>1, <2>2 DEF Snapshot!Next, Snapshot!Install, Listed, PortsOf
  <1>5. CASE UNCHANGED routerVars
    BY <1>5 DEF routerVars, PortsOf, Listed
  <1> QED
    BY <1>1, <1>2, <1>3, <1>4, <1>5 DEF RouterNext

\* The router, whose refresh asks every model what it serves while others come
\* and go, implements a directory that installs one answer at a time.
THEOREM RouterImplementsDirectory == RouterSpec => RegistryIsSnapshot
  <1>1. RouterInit => Snapshot!Init
    <2> SUFFICES ASSUME RouterInit
                 PROVE  Snapshot!Init
      OBVIOUS
    <2>1. Snapshot!Apart(running)
      BY DEF RouterInit, Snapshot!Apart
    <2>2. PortsOf(registry) = [m \in Models |-> NoPort] /\ Listed = {}
      BY AbsentFacts DEF RouterInit, PortsOf, Listed
    <2> QED
      BY <2>1, <2>2 DEF RouterInit, Snapshot!Init, PortsOf, Listed
  <1>2. RouterInv /\ [RouterNext]_routerVars => [Snapshot!Next]_(Snapshot!directoryVars)
    BY RouterStepMaps DEF Snapshot!directoryVars, PortsOf, Listed
  <1> QED
    BY <1>1, <1>2, RouterInitInv, RouterStepInv, PTL
    DEF RouterSpec, RegistryIsSnapshot, Snapshot!DirectorySpec

\* In the directory it is plain that ports are never shared: what is known and
\* what is listed are answers of one instant each.
ApartInv ==
    /\ Snapshot!Apart(running)
    /\ Snapshot!Apart(PortsOf(registry))
    /\ \A f \in Listed : Snapshot!Apart(f)

LEMMA ApartStep ==
    ASSUME ApartInv, RouterInv,
           Snapshot!Next \/ UNCHANGED <<running, PortsOf(registry), Listed>>
    PROVE  ApartInv'
  <1>1. ASSUME NEW m \in Models, Snapshot!Redeploy(m)
        PROVE  ApartInv'
    <2>1. PICK p \in Ports \cup {NoPort} :
            /\ p = NoPort \/ \A n \in Models : running[n] # p
            /\ running' = [running EXCEPT ![m] = p]
      BY <1>1 DEF Snapshot!Redeploy
    <2>2. Snapshot!Apart(running')
      BY <2>1 DEF ApartInv, Snapshot!Apart, RouterInv
    <2>3. UNCHANGED <<PortsOf(registry), Listed>>
      BY <1>1 DEF Snapshot!Redeploy, PortsOf, Listed
    <2> QED
      BY <2>2, <2>3 DEF ApartInv, Snapshot!Apart
  <1>2. CASE Snapshot!List
    <2>1. Listed' = {running} /\ UNCHANGED <<running, PortsOf(registry)>>
      BY <1>2 DEF Snapshot!List, PortsOf, Listed
    <2> QED
      BY <2>1 DEF ApartInv, Snapshot!Apart
  <1>3. CASE Snapshot!Install
    <2>1. PortsOf(registry)' \in Listed /\ Listed' = {} /\ running' = running
      BY <1>3 DEF Snapshot!Install, PortsOf, Listed
    <2> QED
      BY <2>1 DEF ApartInv, Snapshot!Apart
  <1>4. CASE UNCHANGED <<running, PortsOf(registry), Listed>>
    BY <1>4 DEF ApartInv, Snapshot!Apart
  <1> QED
    BY <1>1, <1>2, <1>3, <1>4 DEF Snapshot!Next

\* Two models' requests never go to one port, whatever was deployed since.
THEOREM NamesHavePorts == RouterSpec => []OneNamePerPort
  <1>1. RouterInit => ApartInv
    BY AbsentFacts DEF RouterInit, ApartInv, Snapshot!Apart, PortsOf, Listed
  <1>2. RouterInv /\ ApartInv /\ [RouterNext]_routerVars => ApartInv'
    BY RouterStepMaps, ApartStep
  <1>3. ApartInv => OneNamePerPort
    BY DEF ApartInv, Snapshot!Apart, PortsOf, OneNamePerPort
  <1> QED
    BY <1>1, <1>2, <1>3, RouterInitInv, RouterStepInv, PTL DEF RouterSpec

----
(* The pipeline.                                                            *)

\* A request in the pipeline, as the inductive invariant knows it.
Flight == [stage : Stages, user : Callers, path : Paths,
           audit : {<< >>, <<"request">>},
           served : Models \cup {Nowhere, Default},
           swapped : BOOLEAN, late : BOOLEAN]

LogOf(end) ==
    CASE end = "listed" -> {<< >>}
      [] end = "unauthorized" -> {<<"auth_failure">>}
      [] end = "aborted" -> {<<"request">>}
      [] end = "answered" -> {<<"request", "response">>, <<"request", "error">>}
      [] OTHER -> {ErrorEntry}

Finished == {r \in [stage : {"done"}, end : Ending, audit : UNION {LogOf(e) : e \in Ending}] :
               r.audit \in LogOf(r.end)}

Named(r) == r.path.model # Unnamed

\* What has been established of a request by the time it is at its stage.
LoggedSoFar(r) == r.audit = IF r.stage = "backend" THEN <<"request">> ELSE << >>

Granted(r) ==
    r.stage # "checks" /\ r.user # Anonymous /\ Named(r) => r.path.model \in Access[r.user]

Capably(r) == r.stage = "body" /\ Named(r) => r.swapped \/ Deployed(r.path.model)

Delivered(r) ==
    r.stage = "backend" /\ Named(r) /\ r.served # r.path.model => r.late \/ r.swapped

Established(r) == LoggedSoFar(r) /\ Granted(r) /\ Capably(r) /\ Delivered(r)

RequestOK(r) ==
    \/ r \in {Free} \cup Finished
    \/ r \in Flight /\ Established(r)

PipelineInv ==
    /\ DOMAIN reqs = Slots
    /\ reqs = [s \in Slots |-> reqs[s]]
    /\ \A s \in Slots : RequestOK(reqs[s])

GaugeInv == active \in Int /\ GaugeCoversInProgress

GatewayInv == RouterInv /\ PipelineInv /\ GaugeInv

----
\* The stage tells what a request is.
LEMMA StageTells ==
    ASSUME NEW r, RequestOK(r)
    PROVE  /\ r.stage \in Stages => r \in Flight /\ Established(r)
           /\ r.stage = "free" => r = Free
           /\ r.stage = "done" => r \in Finished
           /\ r.stage \in Stages \cup {"free", "done"}
  <1>1. Free.stage = "free" /\ \A x \in Finished : x.stage = "done"
    BY DEF Free, Finished
  <1>2. \A x \in Flight : x.stage \in Stages
    BY DEF Flight
  <1> QED
    BY <1>1, <1>2 DEF RequestOK, Stages

LEMMA TwoEntries ==
    ASSUME NEW S, NEW x \in S, NEW y \in S
    PROVE  <<x>> \o <<y>> = <<x, y>>
  <1> DEFINE log == <<x>> \o <<y>>
  <1>1. /\ <<x>> \in Seq(S) /\ <<y>> \in Seq(S)
        /\ <<x, y>> \in Seq(S)
    OBVIOUS
  <1>2. /\ log \in Seq(S) /\ Len(log) = 2
        /\ \A i \in 1 .. 2 : log[i] = IF i <= 1 THEN x ELSE y
    BY <1>1, ConcatProperties
  <1>3. log[1] = x /\ log[2] = y
    BY <1>2
  <1> HIDE DEF log
  <1>4. log = <<x, y>>
    BY <1>1, <1>2, <1>3, SeqEqual
  <1> QED
    BY <1>4 DEF log

\* The logs that the ends of a request append up to.
LEMMA LogsAppended ==
    /\ << >> \o << >> \in LogOf("listed")
    /\ << >> \o <<"auth_failure">> \in LogOf("unauthorized")
    /\ <<"request">> \o << >> \in LogOf("aborted")
    /\ <<"request">> \o <<"response">> \in LogOf("answered")
    /\ <<"request">> \o ErrorEntry \in LogOf("answered")
    /\ \A end \in {"refused", "unsupported", "not_deployed", "bad_body"} :
         << >> \o ErrorEntry \in LogOf(end)
  <1>1. \A x : << >> \o <<x>> = <<x>>
    OBVIOUS
  <1>2. \A x : <<x>> \o << >> = <<x>>
    OBVIOUS
  <1>3. << >> \o << >> = << >>
    OBVIOUS
  <1>4. /\ <<"request">> \o <<"response">> = <<"request", "response">>
        /\ <<"request">> \o <<"error">> = <<"request", "error">>
    <2> DEFINE Entries == {"request", "response", "error"}
    <2>1. "request" \in Entries /\ "response" \in Entries /\ "error" \in Entries
      OBVIOUS
    <2> HIDE DEF Entries
    <2> QED
      BY <2>1, TwoEntries
  <1> QED
    BY <1>1, <1>2, <1>3, <1>4 DEF LogOf, ErrorEntry

\* A step that makes of one request one that is in order, with the registry as
\* it was, keeps the pipeline in order.
LEMMA OneMoves ==
    ASSUME PipelineInv, NEW s \in Slots, NEW r,
           RequestOK(r), reqs' = [reqs EXCEPT ![s] = r], registry' = registry
    PROVE  PipelineInv'
  <1>1. \A x : RequestOK(x)' <=> RequestOK(x)
    BY DEF RequestOK, Established, LoggedSoFar, Granted, Capably, Delivered, Deployed
  <1>2. DOMAIN reqs' = Slots /\ reqs'[s] = r /\ \A t \in Slots \ {s} : reqs'[t] = reqs[t]
    BY DEF PipelineInv
  <1>3. reqs' = [t \in Slots |-> reqs'[t]]
    BY DEF PipelineInv
  <1>4. \A t \in Slots : RequestOK(reqs'[t])
    BY <1>2 DEF PipelineInv
  <1>5. \A t \in Slots : RequestOK(reqs[t])'
    BY <1>1, <1>4
  <1> QED
    BY <1>2, <1>3, <1>5 DEF PipelineInv

\* A handler that returns leaves a request with the log its end calls for.
LEMMA EndsKeeps ==
    ASSUME PipelineInv, NEW s \in Slots, NEW entry, NEW end \in Ending,
           Ends(s, entry, end), reqs[s].audit \o entry \in LogOf(end),
           registry' = registry
    PROVE  PipelineInv'
  <1> DEFINE r == [stage |-> "done", end |-> end, audit |-> reqs[s].audit \o entry]
  <1>1. r \in Finished
    BY DEF Finished
  <1>2. RequestOK(r)
    BY <1>1 DEF RequestOK
  <1>3. reqs' = [reqs EXCEPT ![s] = r]
    BY DEF Ends
  <1> HIDE DEF r
  <1> QED
    BY <1>2, <1>3, OneMoves

\* A request that goes on before it is forwarded keeps what it carries.
LEMMA GoesKeeps ==
    ASSUME PipelineInv, NEW s \in Slots, NEW stage \in {"rate", "admission", "body"},
           reqs[s].stage \in {"checks", "rate", "admission"}, Goes(s, stage),
           Allowed(s) \/ reqs[s].stage # "checks",
           stage = "body" /\ Named(reqs[s]) => Deployed(reqs[s].path.model),
           registry' = registry
    PROVE  PipelineInv'
  <1> DEFINE r == [reqs[s] EXCEPT !.stage = stage]
  <1>1. reqs[s] \in Flight /\ Established(reqs[s])
    BY StageTells DEF PipelineInv, Stages
  <1>2. /\ r \in Flight /\ r.stage = stage /\ r.user = reqs[s].user
        /\ r.path = reqs[s].path /\ r.audit = reqs[s].audit
    BY <1>1 DEF Flight, Stages
  <1>3. Established(r)
    BY <1>1, <1>2 DEF Established, LoggedSoFar, Granted, Capably, Delivered, Named, Allowed
  <1>4. RequestOK(r)
    BY <1>2, <1>3 DEF RequestOK
  <1>5. reqs' = [reqs EXCEPT ![s] = r]
    BY DEF Goes
  <1> HIDE DEF r
  <1> QED
    BY <1>4, <1>5, OneMoves

LEMMA ReceiveKeeps ==
    ASSUME PipelineInv, NEW s \in Slots, NEW u \in Callers, NEW p \in Paths,
           Receive(s, u, p)
    PROVE  PipelineInv'
  <1> DEFINE r == [stage |-> "checks", user |-> u, path |-> p,
                   audit |-> << >>, served |-> Nowhere,
                   swapped |-> FALSE, late |-> FALSE]
  <1>1. r \in Flight
    BY DEF Flight, Stages
  <1>2. Established(r)
    BY DEF Established, LoggedSoFar, Granted, Capably, Delivered
  <1>3. RequestOK(r)
    BY <1>1, <1>2 DEF RequestOK
  <1>4. reqs' = [reqs EXCEPT ![s] = r] /\ registry' = registry
    BY DEF Receive, routerVars
  <1> HIDE DEF r
  <1> QED
    BY <1>3, <1>4, OneMoves

\* With a current registry, whoever listens where a deployed model is looked
\* for is that model.
LEMMA CurrentReaches ==
    ASSUME RouterInv, ~stale, NEW m \in Models, Deployed(m)
    PROVE  Listening(registry[m].port) = {m}
  <1>1. registry[m].port = running[m]
    BY DEF RouterInv, RegistryCurrent
  <1>2. registry[m] \in Asked
    BY DEF RouterInv, Deployed
  <1>3. running[m] # NoPort
    BY <1>1, <1>2, RouterAssumption DEF Asked
  <1> QED
    BY <1>1, <1>3 DEF RouterInv, OneModelPerPort, Listening

LEMMA ForwardKeeps ==
    ASSUME RouterInv, PipelineInv, NEW s \in Slots, Forward(s)
    PROVE  PipelineInv'
  <1>1. reqs[s] \in Flight /\ Established(reqs[s]) /\ reqs[s].stage = "body"
    BY StageTells DEF PipelineInv, Stages, Forward
  <1>2. PICK b \in Reaches(s) :
          reqs' = [reqs EXCEPT ![s].stage = "backend", ![s].served = b,
                               ![s].audit = reqs[s].audit \o <<"request">>, ![s].late = stale]
    BY DEF Forward
  <1>3. << >> \o <<"request">> = <<"request">>
    OBVIOUS
  <1> DEFINE r == [reqs[s] EXCEPT !.stage = "backend", !.served = b,
                                  !.audit = <<"request">>, !.late = stale]
  <1>4. b \in Models \cup {Nowhere, Default}
    BY <1>2 DEF Reaches, Listening
  <1>5. /\ r \in Flight /\ r.stage = "backend" /\ r.user = reqs[s].user
        /\ r.path = reqs[s].path /\ r.served = b /\ r.audit = <<"request">>
    <2>1. stale \in BOOLEAN
      BY DEF RouterInv
    <2> QED
      BY <1>1, <1>4, <2>1 DEF Flight, Stages
  <1>6. r.late = stale /\ r.swapped = reqs[s].swapped
    BY <1>1 DEF Flight
  <1>7. Delivered(r)
    <2> SUFFICES ASSUME Named(reqs[s]), b # reqs[s].path.model, ~stale, ~reqs[s].swapped
                 PROVE  FALSE
      BY <1>5, <1>6 DEF Delivered, Named
    <2>1. Deployed(reqs[s].path.model)
      BY <1>1 DEF Established, Capably
    <2>2. reqs[s].path.model \in Models
      BY <1>1, GatewayAssumption DEF Flight, Named
    <2>3. Listening(registry[reqs[s].path.model].port) = {reqs[s].path.model}
      BY <2>1, <2>2, CurrentReaches
    <2> QED
      BY <1>2, <2>1, <2>3 DEF Reaches, Named
  <1>8. Established(r)
    BY <1>1, <1>5, <1>7 DEF Established, LoggedSoFar, Granted, Capably, Named
  <1>9. reqs' = [reqs EXCEPT ![s] = r]
    BY <1>1, <1>2, <1>3 DEF Established, LoggedSoFar
  <1>10. RequestOK(r) /\ registry' = registry
    BY <1>5, <1>8 DEF RequestOK, Forward, Quiet, routerVars
  <1> HIDE DEF r
  <1> QED
    BY <1>9, <1>10, OneMoves

\* Each early return, and each return after the proxy, logs what its end calls
\* for.
LEMMA ReturnKeeps ==
    ASSUME PipelineInv, NEW s \in Slots,
           \/ Unauthorized(s) \/ AnswerOnTheSpot(s) \/ CheckRefuses(s)
           \/ RateRefuses(s) \/ Shed(s) \/ CapabilityRefuses(s)
           \/ BadBody(s) \/ Respond(s) \/ Abort(s)
    PROVE  PipelineInv'
  <1>1. registry' = registry
    BY DEF Unauthorized, AnswerOnTheSpot, CheckRefuses, RateRefuses, Shed,
           CapabilityRefuses, BadBody, Respond, Abort, Quiet, routerVars
  <1>2. /\ reqs[s].stage \in Stages => LoggedSoFar(reqs[s])
        /\ reqs[s].stage \in Stages \ {"backend"} => reqs[s].audit = << >>
        /\ reqs[s].stage = "backend" => reqs[s].audit = <<"request">>
    BY StageTells DEF PipelineInv, Established, LoggedSoFar, Stages
  <1>3. {"listed", "unauthorized", "aborted", "answered", "refused", "unsupported",
         "not_deployed", "bad_body"} \subseteq Ending
    BY DEF Ending
  <1>4. CASE Unauthorized(s)
    BY <1>1, <1>2, <1>3, <1>4, LogsAppended, EndsKeeps DEF Unauthorized, Stages
  <1>5. CASE AnswerOnTheSpot(s)
    BY <1>1, <1>2, <1>3, <1>5, LogsAppended, EndsKeeps DEF AnswerOnTheSpot, Stages
  <1>6. CASE CheckRefuses(s)
    BY <1>1, <1>2, <1>3, <1>6, LogsAppended, EndsKeeps DEF CheckRefuses, Stages
  <1>7. CASE RateRefuses(s)
    BY <1>1, <1>2, <1>3, <1>7, LogsAppended, EndsKeeps DEF RateRefuses, Stages
  <1>8. CASE Shed(s)
    BY <1>1, <1>2, <1>3, <1>8, LogsAppended, EndsKeeps DEF Shed, Stages
  <1>9. CASE CapabilityRefuses(s)
    <2>1. PICK end \in {"unsupported", "not_deployed"} : Ends(s, ErrorEntry, end)
      BY <1>9 DEF CapabilityRefuses
    <2>2. reqs[s].audit = << >>
      BY <1>2, <1>9 DEF CapabilityRefuses, Stages
    <2> QED
      BY <1>1, <1>3, <2>1, <2>2, LogsAppended, EndsKeeps
  <1>10. CASE BadBody(s)
    BY <1>1, <1>2, <1>3, <1>10, LogsAppended, EndsKeeps DEF BadBody, Stages
  <1>11. CASE Respond(s)
    <2>1. PICK entry \in {<<"response">>, ErrorEntry} : Ends(s, entry, "answered")
      BY <1>11 DEF Respond
    <2>2. reqs[s].audit = <<"request">>
      BY <1>2, <1>11 DEF Respond
    <2>3. reqs[s].audit \o entry \in LogOf("answered")
      BY <2>2, LogsAppended
    <2> QED
      BY <1>1, <1>3, <2>1, <2>3, EndsKeeps
  <1>12. CASE Abort(s)
    BY <1>1, <1>2, <1>3, <1>12, LogsAppended, EndsKeeps DEF Abort
  <1> QED
    BY <1>4, <1>5, <1>6, <1>7, <1>8, <1>9, <1>10, <1>11, <1>12

LEMMA PassKeeps ==
    ASSUME PipelineInv, NEW s \in Slots,
           CheckPasses(s) \/ RateAdmits(s) \/ CapabilityPasses(s)
    PROVE  PipelineInv'
  <1>1. registry' = registry
    BY DEF CheckPasses, RateAdmits, CapabilityPasses, Quiet, routerVars
  <1>2. CASE CheckPasses(s)
    BY <1>1, <1>2, GoesKeeps DEF CheckPasses
  <1>3. CASE RateAdmits(s)
    BY <1>1, <1>3, GoesKeeps DEF RateAdmits
  <1>4. CASE CapabilityPasses(s)
    BY <1>1, <1>4, GoesKeeps DEF CapabilityPasses, Capable, Named
  <1> QED
    BY <1>2, <1>3, <1>4

\* A swap is noted on every request between its two looks at the registry.
LEMMA OvertakeKeeps ==
    ASSUME PipelineInv, Overtake
    PROVE  PipelineInv'
  <1>1. DOMAIN reqs' = Slots /\ reqs' = [s \in Slots |-> reqs'[s]]
    BY DEF Overtake
  <1>2. ASSUME NEW s \in Slots
        PROVE  RequestOK(reqs[s])'
    <2>1. RequestOK(reqs[s])
      BY DEF PipelineInv
    <2>2. CASE reqs[s].stage = "body"
      <3>1. reqs[s] \in Flight /\ Established(reqs[s])
        BY <2>1, <2>2, StageTells DEF Stages
      <3>2. reqs'[s] = [reqs[s] EXCEPT !.swapped = TRUE]
        BY <2>2 DEF Overtake
      <3>3. /\ reqs'[s] \in Flight /\ reqs'[s].stage = "body"
            /\ reqs'[s].user = reqs[s].user /\ reqs'[s].path = reqs[s].path
            /\ reqs'[s].audit = reqs[s].audit /\ reqs'[s].swapped
        BY <2>2, <3>1, <3>2 DEF Flight
      <3>4. Established(reqs[s])'
        BY <2>2, <3>1, <3>3
        DEF Established, LoggedSoFar, Granted, Capably, Delivered, Named
      <3> QED
        BY <3>3, <3>4 DEF RequestOK
    <2>3. CASE reqs[s].stage # "body"
      <3>1. reqs'[s] = reqs[s]
        BY <2>3 DEF Overtake
      <3>2. Established(reqs[s]) => Established(reqs[s])'
        BY <2>3, <3>1 DEF Established, LoggedSoFar, Granted, Capably, Delivered, Named
      <3> QED
        BY <2>1, <3>1, <3>2 DEF RequestOK
    <2> QED
      BY <2>2, <2>3
  <1> QED
    BY <1>1, <1>2 DEF PipelineInv

\* Requests that stand still, with the registry, stay in order.
LEMMA StandStillKeeps ==
    ASSUME PipelineInv, reqs' = reqs, registry' = registry
    PROVE  PipelineInv'
  <1>1. \A x : RequestOK(x)' <=> RequestOK(x)
    BY DEF RequestOK, Established, LoggedSoFar, Granted, Capably, Delivered, Deployed
  <1> QED
    BY <1>1 DEF PipelineInv

----
\* The gauge covers what is in the pipeline as long as a step that adds to the
\* pipeline raises it, and only one that takes something out lowers it.
LEMMA GaugeKeeps ==
    ASSUME GaugeInv, NEW s \in Slots,
           \/ InProgress' \subseteq InProgress /\ active' = active
           \/ InProgress' \subseteq InProgress \cup {s} /\ active' = active + 1
           \/ s \in InProgress /\ InProgress' \subseteq InProgress \ {s} /\ active' = active - 1
    PROVE  GaugeInv'
  <1>1. IsFiniteSet(InProgress) /\ IsFiniteSet(InProgress \cup {s})
        /\ IsFiniteSet(InProgress \ {s})
    <2>1. InProgress \subseteq Slots /\ IsFiniteSet(Slots)
      BY GatewayAssumption DEF InProgress
    <2> QED
      BY <2>1, FS_Subset
  <1>2. /\ Cardinality(InProgress) \in Nat
        /\ Cardinality(InProgress \cup {s}) <= Cardinality(InProgress) + 1
        /\ s \in InProgress => Cardinality(InProgress \ {s}) = Cardinality(InProgress) - 1
    BY <1>1, FS_CardinalityType, FS_AddElement, FS_RemoveElement
  <1>3. ASSUME NEW S, IsFiniteSet(S), InProgress' \subseteq S
        PROVE  Cardinality(InProgress') \in Nat /\ Cardinality(InProgress') <= Cardinality(S)
    BY <1>3, FS_Subset, FS_CardinalityType
  <1>4. active \in Int /\ active >= Cardinality(InProgress)
    BY DEF GaugeInv, GaugeCoversInProgress
  <1>5. CASE InProgress' \subseteq InProgress /\ active' = active
    <2>1. Cardinality(InProgress') <= Cardinality(InProgress) /\ Cardinality(InProgress') \in Nat
      BY <1>1, <1>3, <1>5
    <2> QED
      BY <1>2, <1>4, <1>5, <2>1 DEF GaugeInv, GaugeCoversInProgress
  <1>6. CASE InProgress' \subseteq InProgress \cup {s} /\ active' = active + 1
    <2>1. /\ Cardinality(InProgress') <= Cardinality(InProgress \cup {s})
          /\ Cardinality(InProgress') \in Nat
      BY <1>1, <1>3, <1>6
    <2>2. Cardinality(InProgress \cup {s}) \in Nat
      BY <1>1, FS_CardinalityType
    <2> QED
      BY <1>2, <1>4, <1>6, <2>1, <2>2 DEF GaugeInv, GaugeCoversInProgress
  <1>7. CASE s \in InProgress /\ InProgress' \subseteq InProgress \ {s} /\ active' = active - 1
    <2>1. /\ Cardinality(InProgress') <= Cardinality(InProgress \ {s})
          /\ Cardinality(InProgress') \in Nat
      BY <1>1, <1>3, <1>7
    <2> QED
      BY <1>2, <1>4, <1>7, <2>1 DEF GaugeInv, GaugeCoversInProgress
  <1> QED
    BY <1>5, <1>6, <1>7

\* What a step of slot s does to the pipeline's population.
LEMMA ServeCounts ==
    ASSUME PipelineInv, NEW s \in Slots, Serve(s)
    PROVE  \/ InProgress' \subseteq InProgress /\ active' = active
           \/ InProgress' \subseteq InProgress \cup {s} /\ active' = active + 1
           \/ s \in InProgress /\ InProgress' \subseteq InProgress \ {s} /\ active' = active - 1
  <1>1. DOMAIN reqs = Slots
    BY DEF PipelineInv
  <1>2. /\ \A t \in Slots \ {s} : reqs'[t] = reqs[t]
        /\ InProgress' \subseteq InProgress \cup {s}
    <2>1. \A t \in Slots \ {s} : reqs'[t] = reqs[t]
      BY <1>1 DEF Serve, Receive, Unauthorized, AnswerOnTheSpot, CheckRefuses, CheckPasses,
                  RateAdmits, RateRefuses, Shed, CapabilityPasses, CapabilityRefuses,
                  BadBody, Forward, Respond, Abort, Ends, Goes
    <2> QED
      BY <2>1 DEF InProgress
  <1>3. CASE \E u \in Callers, p \in Paths : Receive(s, u, p)
    BY <1>2, <1>3 DEF Receive
  <1>4. CASE Respond(s)
    <2>1. s \in InProgress /\ active' = active - 1
      BY <1>4 DEF Respond, InProgress
    <2>2. reqs'[s].stage = "done"
      BY <1>1, <1>4 DEF Respond, Ends
    <2> QED
      BY <1>2, <2>1, <2>2 DEF InProgress
  <1>5. CASE \/ Unauthorized(s) \/ AnswerOnTheSpot(s) \/ CheckRefuses(s) \/ CheckPasses(s)
             \/ RateAdmits(s) \/ RateRefuses(s) \/ Shed(s) \/ CapabilityPasses(s)
             \/ CapabilityRefuses(s) \/ BadBody(s) \/ Forward(s) \/ Abort(s)
    <2>1. active' = active
      BY <1>5 DEF Unauthorized, AnswerOnTheSpot, CheckRefuses, CheckPasses,
                  RateAdmits, RateRefuses, Shed, CapabilityPasses, CapabilityRefuses,
                  BadBody, Forward, Abort, Quiet
    <2>2. s \in InProgress
      BY <1>5 DEF Unauthorized, AnswerOnTheSpot, CheckRefuses, CheckPasses,
                  RateAdmits, RateRefuses, Shed, CapabilityPasses, CapabilityRefuses,
                  BadBody, Forward, Abort, InProgress
    <2> QED
      BY <1>2, <2>1, <2>2
  <1> QED
    BY <1>3, <1>4, <1>5 DEF Serve

LEMMA ServeKeeps ==
    ASSUME GatewayInv, NEW s \in Slots, Serve(s)
    PROVE  GatewayInv'
  <1>1. UNCHANGED routerVars
    BY DEF Serve, Receive, Unauthorized, AnswerOnTheSpot, CheckRefuses, CheckPasses,
           RateAdmits, RateRefuses, Shed, CapabilityPasses, CapabilityRefuses,
           BadBody, Forward, Respond, Abort, Quiet
  <1>2. RouterInv'
    BY <1>1, RouterStepInv DEF GatewayInv, routerVars
  <1>3. PipelineInv'
    BY ReceiveKeeps, ReturnKeeps, PassKeeps, ForwardKeeps DEF GatewayInv, Serve
  <1>4. GaugeInv'
    BY ServeCounts, GaugeKeeps DEF GatewayInv
  <1> QED
    BY <1>2, <1>3, <1>4 DEF GatewayInv

\* A step of the refresh goroutine, the deployments or the clock.
LEMMA OthersKeep ==
    ASSUME GatewayInv, Refresh \/ Deploy \/ Clock \/ UNCHANGED vars
    PROVE  GatewayInv'
  <1>1. [RouterNext]_routerVars
    BY DEF Refresh, Deploy, Clock, vars, RouterNext
  <1>2. RouterInv'
    BY <1>1, RouterStepInv DEF GatewayInv
  <1>4. Overtake \/ (reqs' = reqs /\ registry' = registry)
    BY DEF Refresh, Deploy, Clock, vars, routerVars, Redeploy, FetchCapability, List
  <1>5. PipelineInv'
    BY <1>4, OvertakeKeeps, StandStillKeeps DEF GatewayInv
  <1>6. active' = active
    BY DEF Refresh, Deploy, Clock, vars
  <1>7. InProgress' = InProgress
    <2>1. \A s \in Slots : reqs'[s].stage = reqs[s].stage
      BY <1>4, StageTells DEF Overtake, GatewayInv, PipelineInv, Flight, Stages
    <2> QED
      BY <2>1 DEF InProgress
  <1> QED
    BY <1>2, <1>5, <1>6, <1>7 DEF GatewayInv, GaugeInv, GaugeCoversInProgress

LEMMA GatewayInit == Init => GatewayInv
  <1> SUFFICES ASSUME Init
               PROVE  GatewayInv
    OBVIOUS
  <1>1. reqs = [s \in Slots |-> Free] /\ active = 0
    BY DEF Init
  <1>2. PipelineInv
    BY <1>1 DEF PipelineInv, RequestOK
  <1>3. InProgress = {}
    BY <1>1 DEF InProgress, Free
  <1>4. GaugeInv
    BY <1>1, <1>3, FS_EmptySet DEF GaugeInv, GaugeCoversInProgress
  <1> QED
    BY <1>2, <1>4, RouterInitInv DEF Init, GatewayInv

LEMMA GatewayStep == GatewayInv /\ [Next]_vars => GatewayInv'
  <1> SUFFICES ASSUME GatewayInv, [Next]_vars
               PROVE  GatewayInv'
    OBVIOUS
  <1>1. ASSUME NEW s \in Slots, Serve(s)
        PROVE  GatewayInv'
    BY <1>1, ServeKeeps
  <1>2. CASE Refresh \/ Deploy \/ Clock \/ UNCHANGED vars
    BY <1>2, OthersKeep
  <1> QED
    BY <1>1, <1>2 DEF Next

----
\* The registry that requests read is what runs, unless a deployment came after
\* it was listed.
THEOREM RegistryIsCurrent == Spec => []RegistryCurrent
  <1>1. GatewayInv => RegistryCurrent
    BY DEF GatewayInv, RouterInv
  <1> QED
    BY <1>1, GatewayInit, GatewayStep, PTL DEF Spec

\* A request reaches the model it was checked for and its user may use, but for
\* a deployment or a swap in between.
THEOREM DeliveryIsAsChecked == Spec => []DeliveredAsChecked
  <1>1. GatewayInv => DeliveredAsChecked
    <2> SUFFICES ASSUME GatewayInv, NEW s \in Slots,
                        reqs[s].stage = "backend", reqs[s].path.model # Unnamed
                 PROVE  /\ reqs[s].user # Anonymous => reqs[s].path.model \in Access[reqs[s].user]
                        /\ reqs[s].served # reqs[s].path.model => reqs[s].late \/ reqs[s].swapped
      BY DEF DeliveredAsChecked
    <2>1. Established(reqs[s])
      BY StageTells DEF GatewayInv, PipelineInv, Stages
    <2> QED
      BY <2>1 DEF Established, Granted, Delivered, Named
  <1> QED
    BY <1>1, GatewayInit, GatewayStep, PTL DEF Spec

\* The audit log tells of every request how it ended.
THEOREM AuditTells == Spec => []AuditTellsTheEnd
  <1>1. GatewayInv => AuditTellsTheEnd
    <2> SUFFICES ASSUME GatewayInv, NEW s \in Slots, reqs[s].stage = "done"
                 PROVE  CASE reqs[s].end = "listed" -> reqs[s].audit = << >>
                          [] reqs[s].end = "unauthorized" -> reqs[s].audit = <<"auth_failure">>
                          [] reqs[s].end = "aborted" -> reqs[s].audit = <<"request">>
                          [] reqs[s].end = "answered" ->
                               reqs[s].audit \in {<<"request", "response">>, <<"request", "error">>}
                          [] OTHER -> reqs[s].audit = ErrorEntry
      BY DEF AuditTellsTheEnd
    <2>1. reqs[s].audit \in LogOf(reqs[s].end)
      BY StageTells DEF GatewayInv, PipelineInv, Finished
    <2> QED
      BY <2>1 DEF LogOf
  <1> QED
    BY <1>1, GatewayInit, GatewayStep, PTL DEF Spec

\* The gauge never falls below the number of requests in the pipeline.
THEOREM GaugeCovers == Spec => []GaugeCoversInProgress
  <1>1. GatewayInv => GaugeCoversInProgress
    BY DEF GatewayInv, GaugeInv
  <1> QED
    BY <1>1, GatewayInit, GatewayStep, PTL DEF Spec

----
(* The gauge, exactly.                                                      *)

\* How a step of slot s changes who is in the pipeline, and the gauge with it:
\* only an early end takes a request out and leaves the gauge.
LEMMA ServeAccounts ==
    ASSUME PipelineInv, NEW s \in Slots, Serve(s)
    PROVE  \/ /\ InProgress' = InProgress /\ active' = active
              /\ \A t \in Slots : ~EndsEarly(t)
           \/ /\ s \notin InProgress /\ InProgress' = InProgress \cup {s}
              /\ active' = active + 1
              /\ \A t \in Slots : ~EndsEarly(t)
           \/ /\ s \in InProgress /\ InProgress' = InProgress \ {s}
              /\ active' = active - 1
              /\ \A t \in Slots : ~EndsEarly(t)
           \/ /\ s \in InProgress /\ InProgress' = InProgress \ {s}
              /\ active' = active
              /\ EndsEarly(s)
  <1>1. DOMAIN reqs = Slots
    BY DEF PipelineInv
  <1>2. \A t \in Slots \ {s} : reqs'[t] = reqs[t]
    BY <1>1 DEF Serve, Receive, Unauthorized, AnswerOnTheSpot, CheckRefuses, CheckPasses,
                RateAdmits, RateRefuses, Shed, CapabilityPasses, CapabilityRefuses,
                BadBody, Forward, Respond, Abort, Ends, Goes
  <1>3. \A t \in Slots \ {s} : ~EndsEarly(t)
    BY <1>2 DEF EndsEarly, InProgress
  <1>4. InProgress' = IF reqs'[s].stage \in {"free", "done"} THEN InProgress \ {s}
                                                             ELSE InProgress \cup {s}
    BY <1>2 DEF InProgress
  <1>5. CASE \E u \in Callers, p \in Paths : Receive(s, u, p)
    <2>1. s \notin InProgress /\ active' = active + 1
      BY <1>5 DEF Receive, InProgress
    <2>2. reqs'[s].stage = "checks"
      BY <1>1, <1>5 DEF Receive
    <2> QED
      BY <1>3, <1>4, <2>1, <2>2 DEF EndsEarly
  <1>6. CASE Respond(s)
    <2>1. s \in InProgress /\ active' = active - 1
      BY <1>6 DEF Respond, InProgress
    <2>2. reqs'[s].stage = "done" /\ reqs'[s].end = "answered"
      BY <1>1, <1>6 DEF Respond, Ends
    <2> QED
      BY <1>3, <1>4, <2>1, <2>2 DEF EndsEarly
  <1>7. CASE Unauthorized(s) \/ AnswerOnTheSpot(s) \/ CheckRefuses(s) \/ RateRefuses(s)
             \/ Shed(s) \/ CapabilityRefuses(s) \/ BadBody(s) \/ Abort(s)
    <2>1. s \in InProgress /\ active' = active
      BY <1>7 DEF Unauthorized, AnswerOnTheSpot, CheckRefuses, RateRefuses, Shed,
                  CapabilityRefuses, BadBody, Abort, Quiet, InProgress
    <2>2. reqs'[s].stage = "done" /\ reqs'[s].end # "answered"
      BY <1>1, <1>7 DEF Unauthorized, AnswerOnTheSpot, CheckRefuses, RateRefuses, Shed,
                        CapabilityRefuses, BadBody, Abort, Ends
    <2> QED
      BY <1>4, <2>1, <2>2 DEF EndsEarly
  <1>8. CASE CheckPasses(s) \/ RateAdmits(s) \/ CapabilityPasses(s) \/ Forward(s)
    <2>1. /\ s \in InProgress /\ active' = active
          /\ reqs[s].stage \in Stages
      BY <1>8 DEF CheckPasses, RateAdmits, CapabilityPasses, Forward, Quiet, InProgress, Stages
    <2>2. reqs[s] \in Flight
      BY <2>1, StageTells DEF PipelineInv
    <2>3. \A stage : Goes(s, stage) => reqs'[s].stage = stage
      BY <1>1, <2>2 DEF Goes, Flight
    <2>4. Forward(s) => reqs'[s].stage = "backend"
      BY <1>1, <2>2 DEF Forward, Flight
    <2>5. reqs'[s].stage \in {"rate", "admission", "body", "backend"}
      BY <1>8, <2>3, <2>4 DEF CheckPasses, RateAdmits, CapabilityPasses
    <2> QED
      BY <1>3, <1>4, <2>1, <2>5 DEF EndsEarly
  <1> QED
    BY <1>5, <1>6, <1>7, <1>8 DEF Serve

\* Beside the requests nothing touches the gauge or who is in the pipeline.
LEMMA OthersAccount ==
    ASSUME GatewayInv, Refresh \/ Deploy \/ Clock \/ UNCHANGED vars
    PROVE  /\ InProgress' = InProgress /\ active' = active
           /\ \A t \in Slots : ~EndsEarly(t)
  <1>1. Overtake \/ reqs' = reqs
    BY DEF Refresh, Deploy, Clock, vars
  <1>2. \A s \in Slots : reqs'[s].stage = reqs[s].stage
    BY <1>1, StageTells DEF Overtake, GatewayInv, PipelineInv, Flight, Stages
  <1>3. active' = active
    BY DEF Refresh, Deploy, Clock, vars
  <1> QED
    BY <1>2, <1>3 DEF InProgress, EndsEarly

\* The gauge gets further off by one with every request that ends before the
\* proxy returns, and in no other way; it never comes back.
THEOREM GaugeDriftsExactly == Spec => GaugeDriftsByEarlyEnds
  <1> DEFINE Told == Drift' = IF \E s \in Slots : EndsEarly(s) THEN Drift + 1 ELSE Drift
  <1>1. GatewayInv /\ [Next]_vars => [Told]_vars
    <2> SUFFICES ASSUME GatewayInv, Next
                 PROVE  Told
      OBVIOUS
    <2>1. /\ active \in Int
          /\ InProgress \subseteq Slots /\ IsFiniteSet(InProgress)
      <3>1. InProgress \subseteq Slots /\ IsFiniteSet(Slots)
        BY GatewayAssumption DEF InProgress
      <3> QED
        BY <3>1, FS_Subset DEF GatewayInv, GaugeInv
    <2>2. Cardinality(InProgress) \in Nat
      BY <2>1, FS_CardinalityType
    <2>3. ASSUME NEW s \in Slots, Serve(s)
          PROVE  Told
      <3>1. s \notin InProgress => Cardinality(InProgress \cup {s}) = Cardinality(InProgress) + 1
        BY <2>1, FS_AddElement
      <3>2. s \in InProgress => Cardinality(InProgress \ {s}) = Cardinality(InProgress) - 1
        BY <2>1, FS_RemoveElement
      <3>3. PipelineInv
        BY DEF GatewayInv
      <3>4. /\ \A t \in Slots : ~EndsEarly(t)
            /\ \/ InProgress' = InProgress /\ active' = active
               \/ /\ s \notin InProgress /\ InProgress' = InProgress \cup {s}
                  /\ active' = active + 1
               \/ /\ s \in InProgress /\ InProgress' = InProgress \ {s}
                  /\ active' = active - 1
            => Drift' = Drift
        BY <2>1, <2>2, <3>1, <3>2 DEF Drift
      <3>5. s \in InProgress /\ InProgress' = InProgress \ {s} /\ active' = active
            => Drift' = Drift + 1
        BY <2>1, <2>2, <3>2 DEF Drift
      <3> QED
        BY <2>3, <3>3, <3>4, <3>5, ServeAccounts
    <2>4. CASE Refresh \/ Deploy \/ Clock
      BY <2>4, OthersAccount DEF Drift
    <2> QED
      BY <2>3, <2>4 DEF Next
  <1> QED
    BY <1>1, GatewayInit, GatewayStep, PTL DEF Spec, GaugeDriftsByEarlyEnds

----
\* The pipeline is one more user of the rate limiter: every step of it is a
\* step of the limiter or leaves the limiter alone.
LEMMA PipelineLimits == GatewayInv /\ [Next]_vars => [RateNext]_rateVars
  <1> SUFFICES ASSUME GatewayInv, Next
               PROVE  [RateNext]_rateVars
    BY DEF vars, rateVars
  <1>1. ASSUME NEW s \in Slots, Serve(s)
        PROVE  [RateNext]_rateVars
    <2>1. CASE RateAdmits(s) \/ RateRefuses(s)
      <3>1. reqs[s].stage = "rate"
        BY <2>1 DEF RateAdmits, RateRefuses
      <3>2. reqs[s].user \in Callers
        BY <3>1, StageTells DEF GatewayInv, PipelineInv, Flight, Stages
      <3>3. Grant(reqs[s].user) \/ Deny(reqs[s].user)
        BY <2>1 DEF RateAdmits, RateRefuses
      <3> QED
        BY <3>2, <3>3 DEF RateNext
    <2>2. CASE ~(RateAdmits(s) \/ RateRefuses(s))
      <3>1. UNCHANGED rateVars
        BY <1>1, <2>2
        DEF Serve, Receive, Unauthorized, AnswerOnTheSpot, CheckRefuses, CheckPasses, Shed,
            CapabilityPasses, CapabilityRefuses, BadBody, Forward, Respond, Abort, Quiet
      <3> QED
        BY <3>1
    <2> QED
      BY <2>1, <2>2
  <1>2. CASE Refresh \/ Deploy
    BY <1>2 DEF Refresh, Deploy
  <1>3. CASE Clock
    BY <1>3 DEF Clock, RateNext
  <1> QED
    BY <1>1, <1>2, <1>3 DEF Next

THEOREM GatewayImplementsRateLimiter == Spec => RateSpec
  <1>1. Init => RateInit
    BY DEF Init
  <1> QED
    BY <1>1, GatewayInit, GatewayStep, PipelineLimits, PTL DEF Spec, RateSpec

\* So what holds of the limiter alone holds of the limiter inside the gateway.
THEOREM WindowIsBoundedInGateway == Spec => []WindowBounded
  BY GatewayImplementsRateLimiter, WindowIsBounded, PTL

\* And who is refused for the rate was refused by a bucket that fills steadily.
THEOREM GatewayImplementsBucket == Spec => RefillsSteadily
  BY GatewayImplementsRateLimiter, LimiterImplementsBucket, PTL

\* The pipeline looks the registry up and leaves the rest to the router.
LEMMA PipelineRoutes == [Next]_vars => [RouterNext]_routerVars
  <1>1. ASSUME NEW s \in Slots, Serve(s)
        PROVE  UNCHANGED routerVars
    BY <1>1 DEF Serve, Receive, Unauthorized, AnswerOnTheSpot, CheckRefuses, CheckPasses,
                RateAdmits, RateRefuses, Shed, CapabilityPasses, CapabilityRefuses,
                BadBody, Forward, Respond, Abort, Quiet
  <1>2. ASSUME Refresh \/ Deploy \/ Clock \/ UNCHANGED vars
        PROVE  [RouterNext]_routerVars
    BY <1>2 DEF Refresh, Deploy, Clock, vars, RouterNext
  <1> QED
    BY <1>1, <1>2 DEF Next

THEOREM GatewayImplementsRouter == Spec => RouterSpec
  <1>1. Init => RouterInit
    BY DEF Init
  <1> QED
    BY <1>1, PipelineRoutes, PTL DEF Spec, RouterSpec

\* So the registry that requests read is one answer of the management service,
\* and no two models have one port in it.
THEOREM GatewayReadsSnapshots == Spec => RegistryIsSnapshot /\ []OneNamePerPort
  BY GatewayImplementsRouter, RouterImplementsDirectory, NamesHavePorts, PTL

\* No request is turned away for its endpoint or its model by a current registry
\* that knows better.
THEOREM RefusalsAreTrue == Spec => NoFalseRefusal
  <1> DEFINE True(s) ==
        reqs[s].stage = "admission" /\ ~stale =>
          /\ reqs'[s].stage = "done" /\ reqs'[s].end = "unsupported" =>
               reqs[s].path.endpoint \notin Serves[reqs[s].path.model] \cup {Introspect}
          /\ reqs'[s].stage = "done" /\ reqs'[s].end = "not_deployed" =>
               running[reqs[s].path.model] = NoPort
  <1>1. GatewayInv /\ [Next]_vars => [\A s \in Slots : True(s)]_vars
    <2> SUFFICES ASSUME GatewayInv, Next, NEW s \in Slots,
                        reqs[s].stage = "admission", ~stale, reqs'[s].stage = "done",
                        reqs'[s].end \in {"unsupported", "not_deployed"}
                 PROVE  True(s)
      OBVIOUS
    <2>1. DOMAIN reqs = Slots /\ reqs[s] \in Flight
      BY StageTells DEF GatewayInv, PipelineInv, Stages
    <2>2. Serve(s)
      <3>1. ASSUME NEW t \in Slots, t # s, Serve(t)
            PROVE  reqs'[s] = reqs[s]
        BY <2>1, <3>1 DEF Serve, Receive, Unauthorized, AnswerOnTheSpot, CheckRefuses,
                          CheckPasses, RateAdmits, RateRefuses, Shed, CapabilityPasses,
                          CapabilityRefuses, BadBody, Forward, Respond, Abort, Ends, Goes
      <3>2. Refresh \/ Deploy \/ Clock => reqs'[s] = reqs[s]
        BY DEF Refresh, Deploy, Clock, Overtake
      <3> QED
        BY <3>1, <3>2 DEF Next
    <2>3. CapabilityRefuses(s)
      <3>1. Shed(s) \/ CapabilityPasses(s) \/ CapabilityRefuses(s)
        BY <2>2
        DEF Serve, Receive, Unauthorized, AnswerOnTheSpot, CheckRefuses, CheckPasses, RateAdmits,
            RateRefuses, BadBody, Forward, Respond, Abort
      <3>2. ~Shed(s)
        BY <2>1 DEF Shed, Ends
      <3>3. ~CapabilityPasses(s)
        BY <2>1 DEF CapabilityPasses, Goes, Flight
      <3> QED
        BY <3>1, <3>2, <3>3
    <2> DEFINE m == reqs[s].path.model
    <2>4. m # Unnamed /\ m \in Models
      BY <2>1, <2>3, GatewayAssumption DEF CapabilityRefuses, Capable, Flight
    <2>5. registry[m].port = running[m] /\ registry[m].endpoints \in {{}, Serves[m]}
      BY <2>4 DEF GatewayInv, RouterInv, RegistryCurrent
    <2>6. reqs'[s].end = IF Deployed(m) THEN "unsupported" ELSE "not_deployed"
      BY <2>1, <2>3 DEF CapabilityRefuses, Ends
    <2>7. CASE Deployed(m)
      <3>1. ~IsPathSupported(m, reqs[s].path.endpoint)
        BY <2>3, <2>7 DEF CapabilityRefuses, Capable
      <3> QED
        BY <2>5, <2>6, <2>7, <3>1 DEF IsPathSupported
    <2>8. CASE ~Deployed(m)
      <3>1. registry[m].port = NoPort
        BY <2>8, AbsentFacts DEF Deployed
      <3> QED
        BY <2>5, <2>6, <2>8, <3>1
    <2> QED
      BY <2>7, <2>8
  <1> QED
    BY <1>1, GatewayInit, GatewayStep, PTL DEF Spec, NoFalseRefusal

\* What a request has in the log is never more than two entries.
LEMMA LogsAreLogs ==
    /\ {<< >>, <<"request">>} \subseteq Logs
    /\ UNION {LogOf(e) : e \in Ending} \subseteq Logs
  <1> DEFINE E == {"auth_failure", "request", "response", "error"}
  <1>1. /\ << >> \in [1 .. 0 -> E]
        /\ \A x \in E : <<x>> \in [1 .. 1 -> E]
        /\ \A x, y \in E : <<x, y>> \in [1 .. 2 -> E]
    OBVIOUS
  <1>2. \A n \in 0 .. 2 : [1 .. n -> E] \subseteq Logs
    BY DEF Logs
  <1>3. << >> \in Logs
    <2>1. [1 .. 0 -> E] \subseteq Logs
      BY <1>2
    <2> QED
      BY <1>1, <2>1
  <1>4. \A x \in E : <<x>> \in Logs
    BY <1>1, <1>2
  <1>5. \A x, y \in E : <<x, y>> \in Logs
    BY <1>1, <1>2
  <1> QED
    BY <1>3, <1>4, <1>5 DEF LogOf, ErrorEntry

\* Every variable keeps its type, with as many requests, users and models as
\* there may be.
THEOREM TypeCorrect == Spec => []TypeOK
  <1>. DEFINE DeploysOK == deploys \in 0 .. MaxDeploys
              ArrivalsOK == arrivals \in 0 .. MaxArrivals
  <1>1. Init => DeploysOK /\ ArrivalsOK
    BY RouterAssumption, GatewayAssumption DEF Init, RouterInit
  <1>2. DeploysOK /\ [Next]_vars => DeploysOK'
    <2>. SUFFICES ASSUME DeploysOK, [Next]_vars
                  PROVE  DeploysOK'
      OBVIOUS
    <2>1. \/ deploys' = deploys
          \/ deploys < MaxDeploys /\ deploys' = deploys + 1
      BY DEF Next, Serve, Receive, Unauthorized, AnswerOnTheSpot, CheckRefuses, CheckPasses,
             RateAdmits, RateRefuses, Shed, CapabilityPasses, CapabilityRefuses,
             BadBody, Forward, Respond, Abort, Quiet, Refresh, Swap, List, FetchCapability,
             Deploy, Redeploy, Clock, routerVars, vars
    <2>. QED BY <2>1, RouterAssumption
  <1>3. ArrivalsOK /\ [Next]_vars => ArrivalsOK'
    <2>. SUFFICES ASSUME ArrivalsOK, [Next]_vars
                  PROVE  ArrivalsOK'
      OBVIOUS
    <2>1. \/ arrivals' = arrivals
          \/ arrivals < MaxArrivals /\ arrivals' = arrivals + 1
      BY DEF Next, Serve, Receive, Unauthorized, AnswerOnTheSpot, CheckRefuses, CheckPasses,
             RateAdmits, RateRefuses, Shed, CapabilityPasses, CapabilityRefuses,
             BadBody, Forward, Respond, Abort, Quiet, Refresh, Deploy, Clock, vars
    <2>. QED BY <2>1, GatewayAssumption
  <1>4. RouterInv /\ DeploysOK => RouterTypeOK
    <2>1. {Absent} \cup Asked \subseteq Backend
      BY DEF Absent, Asked, Backend
    <2>2. Drafted \subseteq Backend \cup [port : Ports]
      BY <2>1 DEF Drafted
    <2>. QED BY <2>1, <2>2 DEF RouterInv, RouterTypeOK
  <1>5. PipelineInv => reqs \in [Slots -> {Free} \cup Request \cup Over]
    <2>1. Flight \subseteq Request
      BY LogsAreLogs DEF Flight, Request
    <2>2. Finished \subseteq Over
      BY LogsAreLogs DEF Finished, Over
    <2>3. \A r : RequestOK(r) => r \in {Free} \cup Request \cup Over
      BY <2>1, <2>2 DEF RequestOK
    <2>. QED BY <2>3 DEF PipelineInv
  <1>6. GatewayInv /\ DeploysOK /\ ArrivalsOK /\ RateTypeOK => TypeOK
    BY <1>4, <1>5 DEF TypeOK, GatewayInv, GaugeInv
  <1> QED
    BY <1>1, <1>2, <1>3, <1>6, GatewayInit, GatewayStep, GatewayImplementsRateLimiter,
       RateTypeCorrect, PTL DEF Spec

----
(* What the pipeline reads off requests and responses.                      *)

\* A set of numbers has a first one, and a bounded one a last one.
LEMMA FirstIsLeast ==
    ASSUME NEW S, S \subseteq Nat, S # {}
    PROVE  First(S) \in S /\ \A k \in S : First(S) <= k
  <1>1. PICK i \in S : \A k \in S : ~(<<k, i>> \in OpToRel(<, Nat))
    BY WFMin, NatLessThanWellFounded
  <1>2. \A k \in S : i <= k
    <2> SUFFICES ASSUME NEW k \in S, k < i
                 PROVE  FALSE
      OBVIOUS
    <2>1. <<k, i>> \in Nat \X Nat /\ <<k, i>>[1] < <<k, i>>[2]
      OBVIOUS
    <2>2. <<k, i>> \in OpToRel(<, Nat)
      BY <2>1, Zenon DEF OpToRel
    <2> QED
      BY <1>1, <2>2
  <1> QED
    BY <1>2 DEF First

LEMMA HasLast ==
    ASSUME NEW n \in Nat, NEW S, S \subseteq 1 .. n, S # {}
    PROVE  \E i \in S : \A k \in S : k <= i
  <1> DEFINE left == {n - k : k \in S}
  <1>1. left \subseteq Nat /\ left # {}
    <2>1. \A k \in S : k \in Nat /\ k <= n
      OBVIOUS
    <2>2. \A k \in S : n - k \in Nat
      <3> SUFFICES ASSUME NEW k \in S
                   PROVE  n - k \in Nat
        OBVIOUS
      <3>1. k \in Nat /\ k <= n
        BY <2>1
      <3> QED
        BY <3>1
    <2>3. left \subseteq Nat
      BY <2>2, Zenon
    <2> QED
      BY <2>3, Zenon
  <1>2. First(left) \in left /\ \A r \in left : First(left) <= r
    <2> HIDE DEF left
    <2> QED
      BY <1>1, FirstIsLeast
  <1>3. PICK i \in S : First(left) = n - i
    BY <1>2
  <1>4. \A k \in S : n - i <= n - k
    BY <1>2, <1>3
  <1>5. \A k \in S : k <= i
    <2> SUFFICES ASSUME NEW k \in S
                 PROVE  k <= i
      OBVIOUS
    <2>1. k \in Nat /\ i \in Nat /\ n - i <= n - k
      BY <1>4
    <2> QED
      BY <2>1
  <1> QED
    BY <1>5

\* The check reads the model's name at the first "models" that a name and more
\* follow, the director looks for the name by itself; both find one place, so a
\* request is forwarded with exactly the two parts taken out that made it one
\* for this model (proxy.go:102-124, 622-661).
THEOREM DirectorStripsWhatWasChecked ==
    ASSUME NEW S, NEW path \in Seq(S)
    PROVE  LET name == ExtractModelNameFromPath(path)
           IN  IF name = ""
               THEN /\ Forwarded(path) = path
                    /\ \A i \in 1 .. Len(path) - 2 : path[i] = "models" => path[i + 1] = ""
               ELSE \E i \in 1 .. Len(path) - 2 :
                      /\ path[i] = "models" /\ path[i + 1] = name
                      /\ \A k \in 1 .. i - 1 : path[k] = "models" => path[k + 1] = ""
                      /\ Forwarded(path) = SubSeq(path, 1, i - 1) \o SubSeq(path, i + 2, Len(path))
                      /\ Len(Forwarded(path)) = Len(path) - 2
  <1> DEFINE name == ExtractModelNameFromPath(path)
             n == Len(path)
             Marks(i) == path[i] = "models"
             Names(i) == path[i + 1] # ""
             Suits(i) == path[i + 1] = name \/ <<path[i + 1], name>> \in Starts
  <1>1. n \in Nat
    OBVIOUS
  <1>2. /\ \A i : i \in Routing(path) <=> i \in 1 .. n /\ i + 2 <= n /\ Marks(i) /\ Names(i)
        /\ \A i : i \in Found(path, name) <=> i \in 1 .. n /\ i + 1 <= n /\ Marks(i) /\ Suits(i)
    BY Zenon DEF Routing, Found
  <1> HIDE DEF n, name, Marks, Names, Suits
  <1>3. /\ Routing(path) \subseteq Nat /\ Found(path, name) \subseteq Nat
        /\ \A i \in 1 .. n - 2 : Marks(i) /\ Names(i) => i \in Routing(path)
    BY <1>1, <1>2
  <1>4. CASE Routing(path) = {}
    <2>1. name = "" /\ Forwarded(path) = path
      BY <1>4 DEF ExtractModelNameFromPath, Forwarded, name
    <2>2. \A i \in 1 .. n - 2 : Marks(i) => ~Names(i)
      BY <1>3, <1>4
    <2> QED
      BY <2>1, <2>2, Zenon DEF n, name, Marks, Names
  <1>5. CASE Routing(path) # {}
    <2> DEFINE i == First(Routing(path))
    <2>1. i \in Routing(path) /\ \A k \in Routing(path) : i <= k
      BY <1>3, <1>5, FirstIsLeast
    <2>2. name = path[i + 1]
      BY <1>5 DEF ExtractModelNameFromPath, name
    <2> HIDE DEF i
    <2>3. /\ i \in 1 .. n - 2 /\ i \in Nat /\ i >= 1 /\ i + 2 <= n
          /\ Marks(i) /\ Names(i)
      BY <1>1, <1>2, <2>1
    <2>4. name # "" /\ Suits(i)
      BY <2>2, <2>3, Zenon DEF Names, Suits
    <2>5. \A k : Suits(k) => Names(k)
      <3> SUFFICES ASSUME NEW k, <<path[k + 1], name>> \in Starts
                   PROVE  path[k + 1] # ""
        BY <2>4, Zenon DEF Suits, Names
      <3> DEFINE pair == <<path[k + 1], name>>
      <3>1. pair[2] # "" => pair[1] # ""
        BY WireAssumption, Zenon
      <3>2. pair[2] = name /\ pair[1] = path[k + 1]
        BY Zenon
      <3> HIDE DEF pair
      <3> QED
        BY <2>4, <3>1, <3>2, Zenon
    <2>6. First(Found(path, name)) = i /\ i \in Found(path, name)
      <3>1. i \in Found(path, name)
        <4>1. i \in 1 .. n /\ i + 1 <= n
          BY <1>1, <2>3
        <4> QED
          BY <1>2, <2>3, <2>4, <4>1, Zenon
      <3>2. \A k \in Found(path, name) : i <= k
        <4> SUFFICES ASSUME NEW k \in Found(path, name), k < i
                     PROVE  FALSE
          BY <1>3, <2>3
        <4>1. k \in Routing(path)
          BY <1>1, <1>2, <2>3, <2>5
        <4> QED
          BY <1>3, <2>1, <2>3, <4>1
      <3>3. /\ First(Found(path, name)) \in Found(path, name)
            /\ \A k \in Found(path, name) : First(Found(path, name)) <= k
        BY <1>3, <3>1, FirstIsLeast
      <3> QED
        BY <1>3, <2>3, <3>1, <3>2, <3>3
    <2>7. Len(Without(path, i)) = n - 2
      <3> DEFINE front == SubSeq(path, 1, i - 1)
                 back == SubSeq(path, i + 2, n)
      <3>1. \A k \in 1 .. n : path[k] \in S
        BY DEF n
      <3>2. front \in Seq(S) /\ Len(front) = i - 1
        <4>1. /\ 1 \in Int /\ i - 1 \in Int /\ \A k \in 1 .. i - 1 : k \in 1 .. n
              /\ (IF 1 <= i - 1 THEN i - 1 - 1 + 1 ELSE 0) = i - 1
          BY <1>1, <2>3
        <4>2. \A k \in 1 .. i - 1 : path[k] \in S
          BY <3>1, <4>1, Zenon
        <4>3. /\ front \in Seq(S)
              /\ Len(front) = IF 1 <= i - 1 THEN i - 1 - 1 + 1 ELSE 0
          BY <4>1, <4>2, SubSeqProperties
        <4> QED
          BY <4>1, <4>3
      <3>3. back \in Seq(S) /\ Len(back) = n - (i + 1)
        <4>1. /\ i + 2 \in Int /\ n \in Int /\ \A k \in i + 2 .. n : k \in 1 .. n
              /\ (IF i + 2 <= n THEN n - (i + 2) + 1 ELSE 0) = n - (i + 1)
          BY <1>1, <2>3
        <4>2. \A k \in i + 2 .. n : path[k] \in S
          BY <3>1, <4>1, Zenon
        <4>3. /\ back \in Seq(S)
              /\ Len(back) = IF i + 2 <= n THEN n - (i + 2) + 1 ELSE 0
          BY <4>1, <4>2, SubSeqProperties
        <4> QED
          BY <4>1, <4>3
      <3>4. Without(path, i) = front \o back
        BY Zenon DEF Without, n
      <3> HIDE DEF front, back
      <3>5. Len(front \o back) = Len(front) + Len(back)
        BY <3>2, <3>3, ConcatProperties
      <3> QED
        BY <1>1, <2>3, <3>2, <3>3, <3>4, <3>5
    <2>8. Forwarded(path) = Without(path, i)
      <3>1. Without(path, i) # << >>
        <4> SUFFICES ASSUME Without(path, i) = << >>
                     PROVE  FALSE
          OBVIOUS
        <4>1. Len(<< >>) = 0 /\ Len(Without(path, i)) >= 1
          BY <1>1, <2>3, <2>7
        <4> QED
          BY <4>1
      <3>2. StripModelPrefixFromPath(path, name) = Without(path, i)
        BY <2>2, <2>6, <3>1, Zenon DEF StripModelPrefixFromPath
      <3> QED
        BY <2>4, <3>2, Zenon DEF Forwarded, name
    <2>9. \A k \in 1 .. i - 1 : Marks(k) => ~Names(k)
      <3> SUFFICES ASSUME NEW k \in 1 .. i - 1, Marks(k), Names(k)
                   PROVE  FALSE
        OBVIOUS
      <3>1. k \in Routing(path)
        BY <1>1, <1>2, <2>3
      <3> QED
        BY <2>1, <2>3, <3>1
    <2>10. /\ Forwarded(path) = SubSeq(path, 1, i - 1) \o SubSeq(path, i + 2, n)
           /\ Len(Forwarded(path)) = n - 2
      BY <2>7, <2>8, Zenon DEF Without, n
    <2> QED
      BY <2>2, <2>3, <2>4, <2>9, <2>10, Zenon DEF n, name, Marks, Names
  <1> QED
    BY <1>4, <1>5

\* Of a stream the last line that reports tokens is the one that counts,
\* whatever comes before it and whatever reports nothing behind it.
THEOREM LastReportCounts ==
    ASSUME NEW S, NEW lines \in Seq(S), NEW last \in S
    PROVE  ParseTokenUsage(Append(lines, last), TRUE) =
             IF last.data /\ Usage(last) # NoUsage THEN Usage(last)
             ELSE ParseTokenUsage(lines, TRUE)
  <1> DEFINE n == Len(lines)
             longer == Append(lines, last)
  <1>1. /\ n \in Nat /\ Len(longer) = n + 1 /\ longer[n + 1] = last
        /\ \A i \in 1 .. n : longer[i] = lines[i]
    OBVIOUS
  <1> HIDE DEF n, longer
  <1>2. /\ Reporting(lines) \subseteq 1 .. n
        /\ Reporting(longer) \subseteq 1 .. n + 1
    BY <1>1 DEF Reporting, n
  <1>3. \A i \in 1 .. n : i \in Reporting(longer) <=> i \in Reporting(lines)
    BY <1>1 DEF Reporting, n
  <1>4. n + 1 \in Reporting(longer) <=> last.data /\ Usage(last) # NoUsage
    BY <1>1 DEF Reporting
  <1>5. CASE n + 1 \in Reporting(longer)
    <2> DEFINE end == CHOOSE i \in Reporting(longer) : \A k \in Reporting(longer) : k <= i
    <2>1. \A k \in Reporting(longer) : k <= n + 1
      BY <1>1, <1>2
    <2>2. end \in Reporting(longer) /\ n + 1 <= end
      BY <1>5, <2>1
    <2>3. end = n + 1
      BY <1>1, <1>2, <2>1, <2>2
    <2> HIDE DEF end
    <2>4. ParseTokenUsage(longer, TRUE) = Usage(longer[end])
      BY <1>5 DEF ParseTokenUsage, end
    <2> QED
      BY <1>1, <1>4, <1>5, <2>3, <2>4 DEF longer
  <1>6. CASE n + 1 \notin Reporting(longer)
    <2>1. Reporting(longer) = Reporting(lines)
      <3>1. \A i \in Reporting(longer) : i \in 1 .. n
        BY <1>1, <1>2, <1>6
      <3> QED
        BY <1>2, <1>3, <3>1, Zenon
    <2>2. CASE Reporting(lines) = {}
      BY <1>4, <1>6, <2>1, <2>2 DEF ParseTokenUsage, longer
    <2>3. CASE Reporting(lines) # {}
      <3> DEFINE end == CHOOSE i \in Reporting(lines) : \A k \in Reporting(lines) : k <= i
      <3>1. end \in Reporting(lines)
        BY <1>1, <1>2, <2>3, HasLast
      <3>2. longer[end] = lines[end]
        BY <1>1, <1>2, <3>1
      <3>3. /\ ParseTokenUsage(longer, TRUE) = Usage(longer[end])
            /\ ParseTokenUsage(lines, TRUE) = Usage(lines[end])
        BY <2>1, <2>3 DEF ParseTokenUsage
      <3> HIDE DEF end
      <3> QED
        BY <1>4, <1>6, <3>2, <3>3 DEF longer
    <2> QED
      BY <2>2, <2>3
  <1> QED
    BY <1>5, <1>6
=============================================================================
