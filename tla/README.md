# SovereignStack in TLA+

SovereignStack runs language models on one's own hardware: a CLI deploys models
as containers, management services say which of them run and who may use them,
and a gateway, an HTTP reverse proxy, authenticates, limits, routes and logs
every request. This directory models the parts of it that keep state and share
it, checks them with TLC, and proves the results that matter most with TLAPS.

To check a run: `tlc -config MCQuota.cfg MCQuota`. To check a proof:
`tlapm QuotaProofs.tla`. PROJECT.json lists runs, mutants, theorems, the
hazards, and for every definition the lines of code it stands for.

## Inventory

| Part | State | Operations | What makes it correct |
|---|---|---|---|
| Token quotas (`core/gateway/quota*.go`) | a daily and a monthly counter per user, in memory, SQLite or Redis | CheckQuota before a request, Record after it | no tokens forgotten inside a period, none kept past it, a bounded overshoot |
| Rate limiter (`core/gateway/proxy.go`) | a token bucket per user | Allow | no window of time grants more than the bucket and its refill |
| Model router (`core/gateway/router.go`) | name to backend registry, swapped by one goroutine | refresh, lookups | a current registry is exactly what runs; it converges |
| Request pipeline (`core/gateway/proxy.go`) | one goroutine per request, a gauge, the audit log | ServeHTTP, director | a request goes where it was checked for, and the log tells how it ended |
| Admission (`core/admission`) | smoothed cache usage, a moving cap, a calm timer per model | observe, Allow, Start, Stop | cap in its band, raised only after a calm, restored in the end, silence admits |
| Key store (`core/keys`, `core/management/policy`, `cmd/keys.go`) | keys.json, a copy of it in each process, a lock file | policy handlers and CLI commands, saveLocked | the file always loads, memory agrees with it, one save is one change, no save waits for ever |
| Policy sessions (`core/management/policy/oidc.go`, `admins.go`) | OIDC states and sessions | login, callback, logout, authenticate | a change is attributed to who made it |
| Audit sinks (`core/audit`) | a file a day, compressed when the day is over; a ring buffer; a database | Log, rotate, prune | no entry lost, file and ring in one order |
| Engine room (`core/engine`, `internal/docker`, `cmd/deploy.go`, `cmd/stop.go`) | running_models.json, what a command read of it, the containers docker has | Deploy, StopModel, stop of all, health check | who answers that it succeeded did what it was asked, and nobody's container is taken down unasked |
| Model cache (`core/model/cache.go`, `internal/downloader`, `cmd/pull.go`, `cmd/remove.go`) | model files, .metadata.json, a copy of it in each process | pull, resume, validate, remove | a file is a beginning of the original, a pull that succeeded is whole |
| Model registry (`core/model/loader.go`, `remote_registry.go`, `quantization.go`, `manager.go`) | layers of registry files, the cached remote registry | load, merge, fetch, filter, suggest | the last layer counts, what is listed can be deployed, what is suggested fits |
| Discovery and metrics proxy, metrics parser, cryptography, TLS, health, tracing, hardware probe, installer, tunnel | none that is shared | | see Not modelled |

Parts interact as follows. The gateway process loads keys.json once, asks the
discovery service for the running models every 30 seconds (router) and every
poll interval (admission), and lets every request read quota counters, buckets,
the registry and the admission state concurrently with the goroutines that write
them. The policy service and the CLI are other processes that write keys.json.
The CLI starts and stops containers behind the back of them all, and its
processes share docker, the model directory and running_models.json without a
lock.

What is hard here: nothing is reserved between a check and its effect (quotas);
two looks at one registry (capability check, director); state read after its lock
was given back (admission); a timer and a threshold that move together
(admission); a calendar; a copy in memory of a file others write (key store);
a save of several steps, each of which may fail or be the last (key store); a
caller looked up twice, once after the change (policy service); a file given to
two compressors (audit); a download appended to whatever an earlier one left
(model cache); a question put to docker long before it is acted on (engine room).

## Modules

`Calendar` and `Quota`. A clock of days, with the very instant of midnight kept
apart because the memory backend compares with a strict After. `AddOneMonth` is
what Go's `AddDate(0, 1, 0)` does, overflow included. A request (slot in `reqs`)
checks the daily and the monthly counter in two steps, is forwarded, and adds to
the two counters one after the other; on the memory backend each add is two steps
(`FindCounter`, `AddToCounter`) because `addTo` uses two mutexes. `counters` is the
memory backend, `rows` the newest row of the SQLite or Redis one. `CheckFails` and
`AddFails` are backend errors, `Abort` a response whose handler panics, `Expire`
Redis' TTL, `Restart` the end of the process. `spent` and `edge` are histories:
what was really added within the period, and at its first instant.

`RateLimiter`. `Grant` and `Deny` are the two results of `Allow`, which is one
step because it holds a mutex throughout. A float of tokens is a number of
grains, and a tick of the clock the time in which one grain is refilled.
`TokenBucket` is what it promises, a bucket that fills with every tick and not when
somebody asks; `RefillsSteadily` is the refinement, with the refill that is due
added to the stored level.

`ModelRouter`. `running` is what the discovery service would answer. A refresh is
`List`, one `FetchCapability` per model (answered by whoever listens on the port
by then) and `Swap`; deployments happen between any two of them. `stale` remembers
whether a deployment came after the registry's listing. `Directory` is its abstract
specification, an answer of the management service that is installed whole.

`Gateway` composes the two. Each slot is a goroutine inside `ServeHTTP`; its
stages are the places where another goroutine's step can make a difference.
Refusals by address, access and quota are one nondeterministic `CheckRefuses`, as
their data are in other modules; access itself is kept, so that what is let
through was granted. `served` is who answered. `swapped` and `late` are histories
that name the two excuses for a request that reached another backend.

`Admission`. One model. Percentages are in units of the configuration, the
average is rounded up (a float average does not decay to zero either), times
are polling intervals since. `Observe` is the whole of `observe` with
`adjustThreshold`, under the write lock; a request inside `Allow` is five steps,
because the read lock is given back before the first field is read.

`Wire` has the functions by which the gateway reads a request: the model's name in
a path or in a body of which one `Read` returned a part, the path that is
forwarded, the tokens in a response or a stream, the lists of models and targets.
They have no state, and are stated against what they are for over all short inputs
(`WireAgrees`, an assumption of `MCGateway` that TLC evaluates).

`KeyChanges` has the users and what a change makes of them, `KeyStore` how a change
is saved, and `KeyFile`, the abstract specification of that, a register that is
replaced in one step: no lock, no temporary file, and a failure or a crash only as
a save that is given up. The policy service's copy lives on, a CLI command's is loaded for one
change. `Begin` changes the copy and marshals it; `Lock`, `CreateTemp`,
`WriteTemp`, `Rename` and `Unlock` are `saveLocked`. `Fail` is any error return,
`Crash` the death of a process at any step. A profile is the models, the quota
and whether the key is hashed; `Changed` keeps the difference between the policy
service, which changes a profile in place, and the CLI, which puts it back with
`AddUser` and so hashes a plaintext key.

`PolicyService` puts that store behind its administrators. A request is let in by
`CheckAdminAuth`, changes the store with `Change`, waits while the store saves
(`GoOn`, `GiveUp`) and is put down in the audit trail by `Audit`; a change of models
asks for the caller's name before the change (`Name`), one of a quota after it. A
caller has a token, or a session that begins with `HandleLogin` and
`HandleCallback` and may end at any step by `HandleLogout`, `Expire` or
`ServiceDies`. The exchange with the identity provider is one step with any
outcome, a browser has one session, and that a user exists is looked up with the
change. `whole` remembers whether the caller's credential has been good since the
request was let in.

`Audit`. A goroutine that logs goes through `InsertRow` (the database), `Enter`
(the JSONL sink's mutex and its look at the day), `Rotate` if the day has changed,
`Write` and `Remember` (the ring, under a mutex of its own). A rotation starts a
compressor before it opens the new file, so a rotation that fails leaves the old
file to two of them; a compressor is `OpenSource`, `CreateArchive`, `WriteArchive`
and `RemoveSource`. `history` keeps what was written, what failed, and which
events had been logged when another began.

`ModelCache`. A file is a sequence of chunks, the first of which is its header; a
process of the command line fetches a model's files one after the other: it asks
for the size, decides from what is on the disk whether to skip, resume or
truncate, and receives chunk by chunk. The hub may fail a request, break off, or
answer a range with the whole file. The index is read when a command begins and
truncated and written when it ends. `mixed` names the files that two processes had
in hand at once, or to which a transfer that ignored the range was appended; of
those nothing can be promised. `basis`, a history too, is what the index held when a
process read it, and whether any other has written it since.

`Registry` has the functions of the registry files, the remote registry and its
cache, the choice of models for a machine and the memory a model takes in each
form, `RegistryAgrees` in `MCEngine` what they are for.

`Engine` is deploy and stop, from the command typed to its answer, over docker and
the two modules before: `job` is a command's place in the cache, `launch` its
place in the engine room, and a deployment whose model is missing waits for the
pull it started. `box` is docker's containers by the name they are listed under,
`records` running_models.json. `List` asks whether the model runs, `Clear` removes
whatever has the name, `Run` is `docker run`, `Health` the last of thirty tries;
`BackgroundCheck` is the goroutine that outlives `Deploy` for as long as the process
does. A call of docker may fail, a container may fall over and be restarted
(`Falter`, `Recover`), a process may be killed. `ValidateModel` and the question of
the model's path are one step, a prompt is answered yes, and `RemoveAll` of a
model's directory is one step.

`Fleet` is the abstract specification of the engine room: names are up, faltering
or down, and each command owes something before it may answer that it succeeded.
A deployment that was neither forced nor left without an answer of docker's takes
down no name that has been up without a break since before it was asked for
(`elders`). `Engine` defines `KeepsPromises` as `Fleet`'s specification with docker's
listing for the state and `owed`, `elders` and `loose`, which are histories, for
what is asked.

In each module the definitions marked as faulty variants are the mutants of
PROJECT.json: each replaces the definition it precedes the way a plausible bug
would, and each property of a passing run is broken by one.

## Runs

| Run | Instance | Shows |
|---|---|---|
| quota | one user, two requests, limits 2 and 3, up to 2 tokens each, six days around January 30 to March 2, three backends | `OvershootBounded`, `NeverUndercounts`, `OnlyOverflowDelaysReset` hold |
| quota_monthly | the same with one request | `MonthlyResetsOnFirst` is violated: a counter created on January 30 or 31 resets on March 1 |
| rate | two callers, a bucket of 5 grains, 2 to a token, 6 ticks | `WindowBounded` and `RefillsSteadily`, the refinement of `TokenBucket`, hold |
| gateway | two slots, two requests, two models on one port, two deployments, a bucket of one token; `WireAgrees` over paths of up to five parts | `TypeOK`, `AuditTellsTheEnd`, `DeliveredAsChecked`, `NoFalseRefusal`, `GaugeDriftsByEarlyEnds`, `RegistryCurrent`, `RegistryConverges` and `RegistryIsSnapshot`, the refinement of `Directory`, hold |
| gateway_gauge | one slot | `GaugeIsInProgress` is violated by one early return |
| admission | the default configuration in units of 5 %, samples idle, warm and full, a calm of 2 polls | `CapInBand`, `RaiseNeedsCalm`, `StaleAdmits`, `SilenceAdmits`, `QuietRestoresCap` hold |
| admission_calm | warm and full samples only | `CalmRestoresCap` is violated: below soft and above the stress band the cap stays down |
| keystore | the policy service with two handlers, one token and one browser, and a terminal; two users, two changes | `CopyAgrees`, `OneChangeAtATime`, `SavesEnd`, `ChangeIsAttributed` and `SavesAreAtomic`, the refinement of `KeyFile`, hold |
| keystore_removed | the policy service and one terminal, one user, two changes | `RemovedStaysRemoved` is violated: the service saves its older copy |
| audit | two goroutines, three events, a midnight, one failure, one end of the process | `WrittenIsKept`, `EverySinkSees`, `RingInOrder`, `NotFiledEarly`, `DaysOnlyGrow`, `LogReturns`, `RotatedIsCompressed` hold |
| audit_readable | the same with two failures and no restart | `ReadableIfGzipFails` is violated: a file compressed twice is lost when the second compression fails |
| engine | two commands out of ten (pull, remove, deploy, stop, forced and not), one failure at any step, a machine without a GPU; three beginnings: a download broken off, a model that runs, one stopped beside one that runs; `RegistryAgrees` over all small registries | `ResumeIsSound`, `PullIsWhole`, `OneEntryAtATime`, `FailureLeavesNothing` and `KeepsPromises`, the refinement of `Fleet`, hold |

The five violated properties each state what a comment, a help text or a metric's
description says; PROJECT.json quotes the lines under findings.

Why the bounds are enough. Quota: two requests are the least that race, and the
bound of `OvershootBounded` already depends on their number; the days contain a
day that overflows, an ordinary month's end and a month's first two days; limits
around one response's tokens make the third admission the interesting one. Rate:
six ticks refill more than one bucket, so that capping matters, and a token is not
a whole number of ticks' worth. Gateway: one refresh and one request are enough
for every interleaving of check, swap and director, the second request makes the
bucket and the gauge shared; two deployments move a port from one model to the
other, which needs a stop and a start. Admission: usages on either side of
the soft threshold and the lowest stress band, and a calm long enough to be
interrupted; caps reach the floor in four samples. Key store: two changes are
two saves of which either overtakes the other, or one that follows a failed one;
two handlers are the least of which one waits for the other's save, and only one
administrator's session need end. Rows, files and users that no change tells apart
are left at one or two. Audit: the first
event is what a compression may lose, the second and third rotate, fail to rotate
or overtake each other; the loss of audit_readable needs two failures.
Engine: two commands are the least that race, each with a copy of its own; one
failure reaches every error return, and the beginnings put a command in the
place of one that follows others. A model of two files and one of a single file,
one whose listed name differs from its own and contains another's, and one that
does not suit the machine, take every branch. Both the audit and the engine run
may come to rest (every event logged, every command answered), so deadlock is not
an error there.

Counters that only bound a run are `MaxTime`, `MaxDeploys`, `MaxArrivals`,
`MaxChanges`, `MaxEntries`, `MaxDay`, `MaxFailures`, `MaxCrashes` and `MaxFaults`; `MaxAge` is the code's own constant of three intervals.

## Fairness

Gateway assumes weak fairness of `Refresh`: the ticker of the discovery goroutine
never stops while the gateway runs, and every HTTP call in it has a time-out.
Clients and deployments are under no obligation. Admission assumes that time
passes and that a request inside `Allow`, which blocks on nothing, gets through;
nothing is assumed of the poller, whose every poll may fail, so its two recovery
properties are conditional on polls that go on. PolicyService assumes that a save
that neither fails nor crashes goes on (weak fairness of `GoOn`), and that the kernel
serves the waiters of a flock in turn (strong fairness of `Lock`: with other
writers about, the lock is free again and again, not for good); nothing is assumed
of administrators, browsers or terminals. Audit assumes that a goroutine inside `Log` or
`gzipFile` goes on, and nothing that makes anybody log. Quota, RateLimiter and
Engine state safety only: a user of the command line waits for an answer at most as
long as the hub and docker let it, and the code sets them no time-out.

## Proofs

`QuotaProofs` proves every property of the quota run, and `CountersOnlyGrow`, for any
calendar, users, limits and finite set of request slots. The overshoot bound is
not inductive by itself: that a reading plus everything in flight is below the
limit plus a response per slot is kept by a check only because the reading was
below the limit when the check passed, by a response only because what is added
to the counter leaves the set of pending requests, and by the clock only
because no row is keyed by a period that has not begun (`RowsNotFromFuture`). The
invariant is the conjunction of these; the cardinality of the set of pending
requests changes by at most one per step, which is a lemma of its own.

`NeverUndercounts` and `CountersOnlyGrow` need to know when a counter ends. In
memory: a monthly counter is reset on some 1st (`ResetsAtStarts`), so one that is
not over outlasts the current month, except at the instant the month begins
(`ResetBeyond`), and what was spent is in such a counter (`SpentIsCounted`). In rows:
an expiry lies a TTL after the start of the row's period (`RowsLast`), which no
month outlives, as the calendar's assumption says that months have at most 31
days; with a TTL of two days for both, they fail. `OnlyOverflowDelaysReset`, that nothing
but the overflow of `AddOneMonth` makes a counter outlast its period, rests on two
invariants: a daily counter that ends tomorrow holds only today's tokens
(`DailyIsOfToday`), and a monthly one that holds more than this month's was told when
to reset on a day of an earlier month (`MonthlyIsOfItsMonth`).

`RateLimiterProofs` proves `RateSpec => []WindowBounded` for any callers, rate
and grain. The strengthening, `Paid`, says that from the i-th grant to now a caller
cannot have taken more than a bucket and the refill since, less what the bucket
still holds: the bound of a window that ends in a grant is `Paid` at that grant.
`NotAhead` (no bucket was refilled in the future) makes the refill non-negative.
`LimiterImplementsBucket` is the refinement of `TokenBucket`: a denied call, which
stores the refill and moves the time of it, is a stutter.

`GatewayProofs` has the lemmas about the router and proves every safety
property of Gateway, for any slots, users, models and ports. `RegistryCurrent` needs two facts more: that
no two models listen on one port, so that who answers a capability query on a
current port is the model itself, and that the draft of a refresh no deployment
came between is current already (`DraftIsCurrent`). `DeliveredAsChecked` rests on
what is established of a request stage by stage (`Established`): access once it is
past the checks, a deployed model or a swap while it has its body read, and, when
it is forwarded with a registry that is current, that whoever listens there is its
model. The same lemma that types the requests gives the audit log's entries, and
the gauge follows by cardinality. `GatewayImplementsRateLimiter` is a refinement with the
identity for a mapping: a step of the pipeline takes the limiter's step or none, so
what `RateLimiterProofs` proves of the limiter alone holds in the gateway, the
refinement of the bucket included. `GatewayImplementsRouter` is the same for the
router: `RouterImplementsDirectory`, that the registry is one answer of the management
service however many deployments come between its listing, its queries and its
swap, and `NamesHavePorts`, that no registry has two names on one port, carry over
to what requests look up. `GaugeDriftsExactly` says how wrong the gauge is that
`gateway_gauge` shows to be wrong: by one more with each request that ends early,
and by no other step. Two theorems say for every input what `WireAgrees` checks of
short ones: `DirectorStripsWhatWasChecked`, that check and director find one place in
a path although each looks by a rule of its own, and `LastReportCounts`.

`AdmissionProofs` proves type correctness and the safety properties of Admission for every
configuration. `CapInBand` is inductive; `RaiseNeedsCalm` needs that the calm timer
never runs ahead of the calm there was (`TimerIsHonest`), `StaleAdmits` that a
request with stale telemetry is either before its age check, with the telemetry
still stale, or admitted (`StaleIsSeen`). `QuietHeals` is the safety half of
`QuietRestoresCap`: under a quiet average no sample lowers the cap, and the calm
timer is started anew only by a raise. It needs that a margin of nothing never
moves the cap (`MarginMoves`).

`PolicyProofs` proves the safety properties of the key store and of the policy
service over it, for any users, writers and handlers. The store's invariant
(`StoreInv`) says who holds the flock, that the temporary files are those of saves in
progress and of saves that died, what each writer's copy and file were when it
began, and that a copy nobody overtook is what the file holds; the service's adds
that exactly one request waits for a save in progress. `StoreImplementsFile` is the
refinement of `KeyFile`: the rename is the step that puts the change, every other
step of a save is a stutter, and `Fail` and `Crash` give it up wherever they are.
`ServiceImplementsStore` is the
refinement by the identity: the service does to keys.json nothing the store's own
specification does not allow.

`ModelCacheProofs` proves that a resumed file is a beginning of the original and
that a pull without trouble is whole, for files of any length and any number of
processes. The invariant (`CacheInv`) follows a process through the loop: a file
that is not mixed and that a process holds has exactly the chunks the process
counted, and the files before the current one are whole unless there was trouble.
`EntriesPassThrough` needs `BasisInv`: the copy of a process nobody overtook has the
entries it read, but for its own model's, and once it has truncated the index nobody
else has put anything in.
`EngineProofs` carries both into the composition (`EngineInv`), with what ties a
command's two places together (`Agree`), what it relies on of what it read
(`Relies`), and that a number names one container only (`Ran`). From it follow
`FailureLeavesNothing` and `EngineImplementsFleet`, that every step of the engine room
is a step of `Fleet` or a stutter, the refinement the run checks. Of the functions of
`Registry` it proves for every input that what is listed can be deployed, whatever
the layers (`ListedIsDeployable`), that cache and network stand in for each other
(`CacheCoversTheNetwork`), and that the 4-bit form is the one suggested, for no memory
(`FormIsAlwaysAWQ`), the consequence of the division noted below.

`AuditProofs` proves the safety properties of the log for any goroutines,
retention, ring, failures and ends of the process. Who is inside holds the mutex
(`MutexHeld`); an open file is there and takes no later event (`HandleIsCurrent`); of
a day that no rotation failed to leave there is one compressor, which has read
all of the file before it removes it (`CompressorsAgree`): that is why `WrittenIsKept`
must except the other days, and what `ReadableIfGzipFails` violates. `FiledInTime`,
`SinksSeeing` and `RingOrdered` are what the steps between a stamp and a return
keep of `NotFiledEarly`, `EverySinkSees` and `RingInOrder`. `DaysAreAppendOnly` adds the
order: what can be read of a day grows at its end only, by the event being
written, while file and archive take turns.

The assumptions are those named in the modules (`QuotaAssumption`,
`CalendarAssumption`, `RateAssumption`, `RouterAssumption`, `GatewayAssumption`,
`AdmissionAssumption`, `KeyStoreAssumption`, `PolicyAssumption`, `AuditAssumption`,
`ModelCacheAssumption`, `EngineAssumption`, `WireAssumption`); TLC evaluates each in a run. Every
safety property of the passing runs is proved, and every refinement one checks.
Some weaker properties are proved and no run lists them, since one that does says
more: the limiter's types are in those of the gateway; `OneNamePerPort` follows from
`RegistryIsSnapshot`, `GaugeCoversInProgress` from `GaugeDriftsByEarlyEnds`, `FileIsWhole`
from `SavesAreAtomic`; `CountersOnlyGrow` and `QuietSetsNothingBack` are about the steps
between states that `NeverUndercounts` and `QuietRestoresCap` compare. `TempsAccounted`,
that only a process which dies leaves a temporary file behind, is proved alone.
Model-checked only are the liveness properties (`RegistryConverges`, `SilenceAdmits`,
`QuietRestoresCap`, `SavesEnd`, `LogReturns`, `RotatedIsCompressed`), as fairness and
ENABLED are out of the prover's reach, and, over bounded inputs, the rest of what
`WireAgrees` and `RegistryAgrees` say of `Wire` and `Registry`.

## Plan

Done: the components of the table of runs, each with its composition, its runs and
its proofs, in the order quotas and limiter, router and pipeline, admission, key
store, audit, model cache and engine room, policy service.

Left to prove: the rest of `RegistryAgrees` (merging: the last layer that names a
model decides) and of `WireAgrees` (bodies read in part, the lists).

Left to model, in this order: the set of models the admission poller walks, with the states
that outlive a stopped model; several processes on one audit database (the salt of
a fresh one); two first starts of the TLS files; the bucket map's growth.

## Where the documents say otherwise

Beside the five findings, the following lines were found to differ from the code
while modelling; no state of the models depends on them.

- `core/engine/persistence.go:96` says that stopping rewrites the state file with a
  smaller running set; `StopModel` does not write it.
- The comment of `core/model/loader.go:178` lists the registry files without
  `models.local.yaml`, which is read last and counts most.
- `models refresh` is described as falling back to the cache (`cmd/models.go:174`);
  `FetchOnly` does not.
- `core/model/quantization.go` divides bits by eight in integers, so that the 4-bit
  form takes no memory and always fits.
- The example with a slash in `cmd/stop.go:40` never matches, as a container is
  listed under a name without one.
- The downloader announces that it removes a corrupt file and retries; it removes it
  and goes on with the next.
- `core/management/policy/policy.go:135` takes the caller's name to be there because
  the caller was authenticated; not if the session ended in between.
- `core/gateway/proxy.go:486` reads the beginning of a body because the model field
  is near the top; a body longer than that does not parse at all.

## Not modelled

Cryptography (hashing of keys, field and log encryption, signatures of cookies),
the formatting and parsing of text (Prometheus samples, flags, tables), TLS files,
hardware probing, the installer, the tunnel, configuration, health, tracing and
wiring in `cmd`: input and output without shared state. The discovery and
metrics-proxy services keep no state; their answers are the environment of
`ModelRouter` and `Admission`. In the modelled parts: the admission states of models
that have stopped, the growth of the bucket map, the gateway's headers, latencies
and counters, the windows build of the key store (whose lock is a no-op) and its
field encryption, the queries of the audit database and the in-memory `Logger`, the
walks of `core/model/verify.go`, which only report, the sizes and dates in
the index, what the inference server in a container does, and the failures of
`NewEngineRoom` and `NewCacheManager` to make their directories, after which a command
does nothing.
