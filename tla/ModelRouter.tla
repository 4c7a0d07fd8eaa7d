---------------------------- MODULE ModelRouter -----------------------------
(***************************************************************************)
(* The gateway's model registry (core/gateway/router.go).  One goroutine   *)
(* refreshes it: it asks the management service which models run, then     *)
(* asks each model's own port what it serves, and only then swaps the      *)
(* registry under the lock.  Deployments go on in the meantime, and a      *)
(* host port that one model leaves another may take.                       *)
(*                                                                         *)
(* A refresh that fails (no answer, not 200, no JSON) changes nothing and  *)
(* is no step here; so is a tick that finds nothing to do.                 *)
(***************************************************************************)
EXTENDS Integers, FiniteSets

CONSTANTS
    Models,       \* model names
    Ports,        \* host ports the management service hands out
    Serves,       \* Serves[m]: the endpoints model m reports as its own
    MaxDeploys,   \* bound: deployments and stops in a behaviour
    NoPort        \* the port of a model that does not run

ASSUME RouterAssumption ==
    /\ NoPort \notin Ports
    /\ MaxDeploys \in Nat

VARIABLES
    running,      \* the management service's answer: the port of each model
    registry,     \* the registry the request handlers read
    draft,        \* refresh: newRegistry, or NoDraft between refreshes
    stale,        \* history: a deployment changed since registry was listed (or never was)
    staleDraft,   \* history: the same of draft
    deploys       \* history: deployments and stops so far

routerVars == <<running, registry, draft, stale, staleDraft, deploys>>

\* ModelBackend: no endpoints means the model did not say what it serves.
Absent == [port |-> NoPort, endpoints |-> {}]
NoDraft == [m \in {} |-> Absent]

Endpoints == UNION {Serves[m] : m \in Models}
Backend == [port : Ports \cup {NoPort}, endpoints : SUBSET Endpoints]

RouterTypeOK ==
    /\ running \in [Models -> Ports \cup {NoPort}]
    /\ registry \in [Models -> Backend]
    /\ draft \in [Models -> Backend \cup [port : Ports]] \cup {NoDraft}
    /\ stale \in BOOLEAN
    /\ staleDraft \in BOOLEAN
    /\ deploys \in 0 .. MaxDeploys

\* The gateway may start while models run: no two of them on one port.
RouterInit ==
    /\ running \in {f \in [Models -> Ports \cup {NoPort}] :
                     \A m, n \in Models : f[m] = f[n] => m = n \/ f[m] = NoPort}
    /\ registry = [m \in Models |-> Absent]
    /\ draft = NoDraft
    /\ stale = TRUE
    /\ staleDraft = FALSE
    /\ deploys = 0

----
(* The management service and the models, as the router sees them.          *)

Taken == {running[m] : m \in Models}

\* A model starts on a free port, or stops.
Redeploy(m) ==
    /\ deploys < MaxDeploys
    /\ deploys' = deploys + 1
    /\ \E p \in (Ports \ Taken) \cup {NoPort} :
         /\ (p = NoPort) # (running[m] = NoPort)
         /\ running' = [running EXCEPT ![m] = p]
    /\ stale' = TRUE
    /\ staleDraft' = (draft # NoDraft)
    /\ UNCHANGED <<registry, draft>>

\* The model that answers on port p, as a set.
Listening(p) == {m \in Models : p # NoPort /\ running[m] = p}

----
(* refresh                                                                  *)

\* GET /api/v1/models/running: names and ports, endpoints still to be asked.
List ==
    /\ draft = NoDraft
    /\ draft' = [m \in Models |-> IF running[m] = NoPort THEN Absent
                                  ELSE [port |-> running[m]]]
    /\ staleDraft' = FALSE
    /\ UNCHANGED <<running, registry, stale, deploys>>

Unasked == {m \in DOMAIN draft : "endpoints" \notin DOMAIN draft[m]}

\* Faulty variant: a model that does not say what it serves is left out.
FetchCapabilityDrops(m) ==
    /\ m \in Unasked
    /\ \E e \in {{}} \cup {Serves[n] : n \in Listening(draft[m].port)} :
         draft' = [draft EXCEPT ![m] =
                     IF e = {} THEN Absent ELSE [port |-> @.port, endpoints |-> e]]
    /\ UNCHANGED <<running, registry, stale, staleDraft, deploys>>

\* fetchCapability: whoever listens on the port answers, or nobody does; on
\* any failure the endpoints stay empty.
FetchCapability(m) ==
    /\ m \in Unasked
    /\ \E e \in {{}} \cup {Serves[n] : n \in Listening(draft[m].port)} :
         draft' = [draft EXCEPT ![m] = [port |-> @.port, endpoints |-> e]]
    /\ UNCHANGED <<running, registry, stale, staleDraft, deploys>>

\* Faulty variant: the new models are merged into the old registry.
SwapMerge ==
    /\ draft # NoDraft
    /\ Unasked = {}
    /\ registry' = [m \in Models |-> IF draft[m] = Absent THEN registry[m] ELSE draft[m]]
    /\ draft' = NoDraft
    /\ stale' = staleDraft
    /\ staleDraft' = FALSE
    /\ UNCHANGED <<running, deploys>>

\* r.registry = newRegistry, under the lock.
Swap ==
    /\ draft # NoDraft
    /\ Unasked = {}
    /\ registry' = draft
    /\ draft' = NoDraft
    /\ stale' = staleDraft
    /\ staleDraft' = FALSE
    /\ UNCHANGED <<running, deploys>>

RouterNext ==
    \/ \E m \in Models : Redeploy(m) \/ FetchCapability(m)
    \/ List
    \/ Swap

RouterSpec == RouterInit /\ [][RouterNext]_routerVars

----
(* What the request handlers ask.                                           *)

Deployed(m) == registry[m] # Absent

\* Faulty variant: no exception for the introspection endpoint.
IsPathSupportedStrict(m, e) == registry[m].endpoints = {} \/ e \in registry[m].endpoints

\* GET /v1/models is always let through.
Introspect == "models"

IsPathSupported(m, e) ==
    e = Introspect \/ registry[m].endpoints = {} \/ e \in registry[m].endpoints

----
\* A registry no deployment has outrun is exactly what runs, with endpoints
\* that are the model's own or unknown: a refresh never leaves a stopped model
\* behind, never drops a running one, and a slow refresh never installs what it
\* saw before a change as if it were current.
RegistryCurrent ==
    ~stale => \A m \in Models :
      registry[m].port = running[m] /\ registry[m].endpoints \in {{}, Serves[m]}

\* However far deployments have outrun it, the registry never sends two models'
\* requests to one port.
OneNamePerPort ==
    \A m, n \in Models : registry[m].port = registry[n].port
                            => m = n \/ registry[m].port = NoPort

\* What the handlers look up is one answer of the management service, whole
\* (router.go:152, the swap under the lock): asking each model what it serves,
\* while deployments go on, changes no port of it, and no name of an earlier
\* answer is kept.
Snapshot == INSTANCE Directory
  WITH known <- [m \in Models |-> registry[m].port],
       listed <- IF draft = NoDraft THEN {} ELSE {[m \in Models |-> draft[m].port]}

RegistryIsSnapshot == Snapshot!DirectorySpec

\* Once deployments stop changing, the registry comes to agree with them.
RegistryConverges == <>[](\A m \in Models : registry[m].port = running[m])
=============================================================================
