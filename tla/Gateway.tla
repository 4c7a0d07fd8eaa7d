------------------------------ MODULE Gateway -------------------------------
(***************************************************************************)
(* The request pipeline of the gateway: Gateway.ServeHTTP and its director *)
(* (core/gateway/proxy.go), one goroutine per request, over the rate       *)
(* limiter and the model registry, which every request shares.             *)
(*                                                                         *)
(* A request is what the pipeline tells apart: who sent it, which model    *)
(* its path names (none when the model is in the body), which endpoint it  *)
(* asks for.  What the quota (module Quota) and the admission controller   *)
(* (module Admission) answer is left open here: either may refuse any      *)
(* request at its place in the pipeline.                                   *)
(***************************************************************************)
EXTENDS RateLimiter, ModelRouter

CONSTANTS
    Slots,        \* requests the server handles at once
    Users,        \* users with a key
    Access,       \* Access[u]: the models CanAccess grants u
    Paths,        \* the paths requests ask for: a model (or none), an endpoint
    MaxArrivals   \* bound: requests in a behaviour

Anonymous == "anonymous"   \* no key: userID stays ""
Unnamed == "unnamed"       \* the path names no model
Nowhere == "nowhere"
Default == "default"       \* the backend behind TargetURL

ASSUME GatewayAssumption ==
    /\ Callers = Users \cup {Anonymous}
    /\ Anonymous \notin Users
    /\ Models \cap {Unnamed, Nowhere, Default} = {}
    /\ Access \in [Users -> SUBSET Models]
    /\ Paths \subseteq [model : Models \cup {Unnamed}, endpoint : STRING]
    /\ IsFiniteSet(Slots)
    /\ MaxArrivals \in Nat

VARIABLES
    reqs,         \* reqs[s]: the request in slot s
    active,       \* the gauge gateway_active_requests
    arrivals      \* history: requests received so far

vars == <<rateVars, routerVars, reqs, active, arrivals>>

----
(* A request, with what the audit log holds of it and where it went.        *)

Stages == {"checks", "rate", "admission", "body", "backend"}
Ending == {"unauthorized", "listed", "refused", "unsupported", "not_deployed",
           "bad_body", "answered", "aborted"}
Logs == UNION {[1 .. n -> {"auth_failure", "request", "response", "error"}] : n \in 0 .. 2}

Free == [stage |-> "free"]
Over == [stage : {"done"}, end : Ending, audit : Logs]
Request == [stage : Stages, user : Callers, path : Paths, audit : Logs,
            served : Models \cup {Nowhere, Default},
            swapped : BOOLEAN,      \* history: the registry changed after the check
            late : BOOLEAN]         \* history: deployments had outrun the registry

TypeOK ==
    /\ RateTypeOK
    /\ RouterTypeOK
    /\ reqs \in [Slots -> {Free} \cup Request \cup Over]
    /\ active \in Int
    /\ arrivals \in 0 .. MaxArrivals

Init ==
    /\ RateInit
    /\ RouterInit
    /\ reqs = [s \in Slots |-> Free]
    /\ active = 0
    /\ arrivals = 0

InProgress == {s \in Slots : reqs[s].stage \notin {"free", "done"}}

Goes(s, stage) == reqs' = [reqs EXCEPT ![s].stage = stage]

\* The handler returns: entry is what it logs last, end how it ended.
Ends(s, entry, end) ==
    reqs' = [reqs EXCEPT ![s] = [stage |-> "done", end |-> end, audit |-> @.audit \o entry]]

ErrorEntry == <<"error">>

Quiet == UNCHANGED <<rateVars, routerVars, active, arrivals>>

----
(* ServeHTTP up to the point where the request is forwarded.                *)

\* RecordRequest counts the request in before anything is known of it.
Receive(s, u, p) ==
    /\ reqs[s].stage \in {"free", "done"}
    /\ arrivals < MaxArrivals
    /\ arrivals' = arrivals + 1
    /\ active' = active + 1
    /\ reqs' = [reqs EXCEPT ![s] =
                  [stage |-> "checks", user |-> u, path |-> p,
                   audit |-> <<>>, served |-> Nowhere,
                   swapped |-> FALSE, late |-> FALSE]]
    /\ UNCHANGED <<rateVars, routerVars>>

\* 401: ValidateToken does not know the key that was sent.
Unauthorized(s) ==
    /\ reqs[s].stage = "checks"
    /\ reqs[s].user = Anonymous
    /\ Ends(s, <<"auth_failure">>, "unauthorized")
    /\ Quiet

\* The model list, the scrape targets and a model's own metrics are answered
\* on the spot: none is checked, logged or counted out of the gauge.
AnswerOnTheSpot(s) ==
    /\ reqs[s].stage = "checks"
    /\ Ends(s, <<>>, "listed")
    /\ Quiet

Allowed(s) == reqs[s].user # Anonymous /\ reqs[s].path.model # Unnamed
                => reqs[s].path.model \in Access[reqs[s].user]

\* Faulty variant: the 403 is written and logged, and the handler goes on.
CheckRefusesGoesOn(s) ==
    /\ reqs[s].stage = "checks"
    /\ reqs[s].user # Anonymous
    /\ reqs' = [reqs EXCEPT ![s].stage = "rate", ![s].audit = @ \o ErrorEntry]
    /\ Quiet

\* 403 or 429: the service account's source address, the model (a name in the
\* body may be anything), the token quota.  None applies without a user.
CheckRefuses(s) ==
    /\ reqs[s].stage = "checks"
    /\ reqs[s].user # Anonymous
    /\ Ends(s, ErrorEntry, "refused")
    /\ Quiet

\* The key is good or there is none, and nothing refuses.
CheckPasses(s) ==
    /\ reqs[s].stage = "checks"
    /\ Allowed(s)
    /\ Goes(s, "rate")
    /\ Quiet

RateAdmits(s) ==
    /\ reqs[s].stage = "rate"
    /\ Grant(reqs[s].user)
    /\ Goes(s, "admission")
    /\ UNCHANGED <<routerVars, active, arrivals>>

\* 429
RateRefuses(s) ==
    /\ reqs[s].stage = "rate"
    /\ Deny(reqs[s].user)
    /\ Ends(s, ErrorEntry, "refused")
    /\ UNCHANGED <<routerVars, active, arrivals>>

\* 503: the token the rate limiter took is not given back.
Shed(s) ==
    /\ reqs[s].stage = "admission"
    /\ Ends(s, ErrorEntry, "refused")
    /\ Quiet

Capable(s) ==
    reqs[s].path.model # Unnamed =>
      Deployed(reqs[s].path.model) /\ IsPathSupported(reqs[s].path.model, reqs[s].path.endpoint)

\* Faulty variant: a model the registry does not hold is let through.
CapablePassesOnMiss(s) ==
    /\ reqs[s].stage = "admission"
    /\ reqs[s].path.model # Unnamed /\ Deployed(reqs[s].path.model)
         => IsPathSupported(reqs[s].path.model, reqs[s].path.endpoint)
    /\ Goes(s, "body")
    /\ Quiet

CapabilityPasses(s) ==
    /\ reqs[s].stage = "admission"
    /\ Capable(s)
    /\ Goes(s, "body")
    /\ Quiet

\* 404, of two kinds.
CapabilityRefuses(s) ==
    /\ reqs[s].stage = "admission"
    /\ ~Capable(s)
    /\ Ends(s, ErrorEntry, IF Deployed(reqs[s].path.model) THEN "unsupported"
                                                           ELSE "not_deployed")
    /\ Quiet

\* 400
BadBody(s) ==
    /\ reqs[s].stage = "body"
    /\ Ends(s, ErrorEntry, "bad_body")
    /\ Quiet

----
(* The reverse proxy, and the rest of ServeHTTP.                            *)

\* Where the director's second look at the registry sends a request, and who
\* answers there; nobody answers on a port whose model has gone.
Reaches(s) ==
    IF reqs[s].path.model = Unnamed \/ ~Deployed(reqs[s].path.model) THEN {Default}
    ELSE LET there == Listening(registry[reqs[s].path.model].port)
         IN  IF there = {} THEN {Nowhere} ELSE there

\* LogRequest, then the reverse proxy's director.
Forward(s) ==
    /\ reqs[s].stage = "body"
    /\ \E b \in Reaches(s) :
         reqs' = [reqs EXCEPT ![s].stage = "backend", ![s].served = b,
                              ![s].audit = @ \o <<"request">>, ![s].late = stale]
    /\ Quiet

\* Faulty variant: a deferred count down beside the explicit one.
RespondDecTwice(s) ==
    /\ reqs[s].stage = "backend"
    /\ active' = active - 2
    /\ \E entry \in {<<"response">>, ErrorEntry} :
         /\ reqs[s].served = Nowhere => entry = ErrorEntry
         /\ Ends(s, entry, "answered")
    /\ UNCHANGED <<rateVars, routerVars, arrivals>>

\* The proxy returns, with the backend's answer or its own 502.
Respond(s) ==
    /\ reqs[s].stage = "backend"
    /\ active' = active - 1
    /\ \E entry \in {<<"response">>, ErrorEntry} :
         /\ reqs[s].served = Nowhere => entry = ErrorEntry
         /\ Ends(s, entry, "answered")
    /\ UNCHANGED <<rateVars, routerVars, arrivals>>

\* The client or the backend goes away while the answer is copied: ReverseProxy
\* panics with ErrAbortHandler and nothing after gw.proxy.ServeHTTP runs.
Abort(s) ==
    /\ reqs[s].stage = "backend"
    /\ reqs[s].served # Nowhere
    /\ Ends(s, <<>>, "aborted")
    /\ Quiet

----
(* The refresh goroutine, the deployments and the clock run beside.         *)

\* Every request between its capability check and the director is overtaken.
Overtake ==
    reqs' = [s \in Slots |-> IF reqs[s].stage = "body"
                               THEN [reqs[s] EXCEPT !.swapped = TRUE]
                               ELSE reqs[s]]

Refresh ==
    /\ \/ Swap /\ Overtake
       \/ List /\ UNCHANGED reqs
       \/ (\E m \in Models : FetchCapability(m)) /\ UNCHANGED reqs
    /\ UNCHANGED <<rateVars, active, arrivals>>

Deploy ==
    /\ \E m \in Models : Redeploy(m)
    /\ UNCHANGED <<rateVars, reqs, active, arrivals>>

Clock == TimePasses /\ UNCHANGED <<routerVars, reqs, active, arrivals>>

Serve(s) ==
    \/ \E u \in Callers, p \in Paths : Receive(s, u, p)
    \/ Unauthorized(s) \/ AnswerOnTheSpot(s)
    \/ CheckRefuses(s) \/ CheckPasses(s)
    \/ RateAdmits(s) \/ RateRefuses(s)
    \/ Shed(s) \/ CapabilityPasses(s) \/ CapabilityRefuses(s)
    \/ BadBody(s) \/ Forward(s) \/ Respond(s) \/ Abort(s)

Next ==
    \/ \E s \in Slots : Serve(s)
    \/ Refresh
    \/ Deploy
    \/ Clock

\* The refresh ticker never stops, and each refresh is bounded by the time-outs
\* of its HTTP clients; nothing is assumed of clients or of deployments.
Spec == Init /\ [][Next]_vars /\ WF_vars(Refresh)

----
(* Properties                                                               *)

\* What the audit log holds of a request that is over: one entry that says why
\* it was refused, or the request and then its outcome; a request that was
\* forwarded is always there, and only an aborted one lacks its outcome.
AuditTellsTheEnd ==
    \A s \in Slots : reqs[s].stage = "done" =>
      LET log == reqs[s].audit
          end == reqs[s].end
      IN  CASE end = "listed" -> log = <<>>
            [] end = "unauthorized" -> log = <<"auth_failure">>
            [] end = "aborted" -> log = <<"request">>
            [] end = "answered" -> log \in {<<"request", "response">>, <<"request", "error">>}
            [] OTHER -> log = ErrorEntry

\* A request whose path names a model reaches that model, which its user may
\* use: whoever else answered, the default backend or nobody, did so because
\* deployments had outrun the registry or a refresh came between the
\* capability check and the director's own look at it.
DeliveredAsChecked ==
    \A s \in Slots :
      LET r == reqs[s]
      IN  r.stage = "backend" /\ r.path.model # Unnamed =>
          /\ r.user # Anonymous => r.path.model \in Access[r.user]
          /\ r.served # r.path.model => r.late \/ r.swapped

\* The pipeline turns a request away for its endpoint, or for its model, only
\* when the model really does not serve it or does not run, unless deployments
\* had outrun the registry.
NoFalseRefusal ==
    [][\A s \in Slots : reqs[s].stage = "admission" /\ ~stale =>
         /\ reqs'[s].stage = "done" /\ reqs'[s].end = "unsupported" =>
              reqs[s].path.endpoint \notin Serves[reqs[s].path.model] \cup {Introspect}
         /\ reqs'[s].stage = "done" /\ reqs'[s].end = "not_deployed" =>
              running[reqs[s].path.model] = NoPort]_vars

\* The gauge never reports fewer requests than are in the pipeline.
GaugeCoversInProgress == active >= Cardinality(InProgress)

\* How far the gauge is off, and the one way it gets further off: by one with
\* each request that ends without an answer of the proxy (proxy.go:184), and it
\* never gets nearer again.
Drift == active - Cardinality(InProgress)

EndsEarly(s) ==
    /\ s \in InProgress
    /\ reqs'[s].stage = "done"
    /\ reqs'[s].end # "answered"

GaugeDriftsByEarlyEnds ==
    [][Drift' = IF \E s \in Slots : EndsEarly(s) THEN Drift + 1 ELSE Drift]_vars

\* "Requests currently being processed." (core/gateway/metrics.go:78)
GaugeIsInProgress == active = Cardinality(InProgress)
=============================================================================
