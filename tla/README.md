# InferSwap: TLA+ models, model checking and proofs

InferSwap shares one GPU among several model servers ("model projects"). It takes
inference requests over HTTP, queues them, loads the wanted model over a control API when
it is not ready, unloads another one first when memory is short, and forwards the request.
This directory models the request scheduler with the router loop around it, the runtime
client that controls one model, the GPU budget that admits loads, and the program as a whole
from boot to the exit status of a shutdown.

Paths below are relative to `src/`. `PROJECT.json` maps every definition to its source lines.

## 1. Inventory

| Component | State | Operations | Hard behaviour |
|---|---|---|---|
| FIFO scheduler, `internal/router/scheduler/fifo.go` | queue; per model `pending`, `httpIn`, `unresolved`, `backend`, generations, gate; `phase`, swap target and victims, `unloadFail` | `On…` handlers, `tryDispatch` | callers that hang up, late status reads, drain deadlines, failed unloads |
| Recovery, `scheduler/recover.go`, `router/recover.go` | current round (token, owner, models to probe, samples awaited), live probes, late tokens, models seen per request | `maybeRecover`, `NoteProbe`, `MarkerCleared`, `SampleFailed` | results that arrive after the owner left, after a load or after another round |
| Router loop and goroutines, `router/base.go` | channels, `residualAfter` markers, GPU snapshot, `lastStatus` | `run`, `ServeModel`, `trackedServe`, `prepareModel`, `StartLoad`, `StartUnload`, `refreshStatus`, `pollGPU` | one loop, many senders; unbuffered answers; a `select` with a done context |
| GPU budget, `router/budget.go`, `internal/resource` | `reserved` bytes, `residualAfter`, `loadSerial`, `lastUse`, `loadedAt` | `Decide`, `admitLoad`, `fits…` | stale samples, models in unknown states |
| Runtime client, `internal/runtime/client.go` | local state, generation, waiters, one load operation, proxy handler, prepare flag | `EnsureReady`, `Stop`, `Reconcile`, recovery apply, `Shutdown` | timeouts of load and unload, Stop during a load, probe results of an older generation |
| Router shutdown, `router/base.go` | `shutting`, unconfirmed models | `Shutdown`, `releaseOnShutdown` | shutdown against loads and requests in flight |
| Server and `main`, `internal/server/server.go`, `cmd/inferswap/main.go` | where `main` stands, the shutdown context | `handleInfer`, `limitBody`, boot, signal, exit | handlers that are still running when the signal comes |
| Configuration, `internal/config/config.go` | profiles, the table of names | `toConfig`, `Index`, `Resolve`, `LoadBound` | collisions of names, whose check runs in the order of a Go map |
| Request rewriting, status parsing, diagnostics, NVML | none that is shared between steps | one request, one call at a time | none of concurrency |
| Mock runtime, test kit | test doubles | | |

How they interact. The HTTP handler of a request sends `HandlerReq` to the loop and waits on
`Respond`; the loop runs the FIFO, which starts goroutines for loads, unloads, status reads and
probes; these talk to a `runtime.Client`, and report to the loop over channels. A client has a
loop of its own and one load operation, which asks the router loop for admission
(`WaitLoad`). The router loop in turn hands recovery results to the client loop.

What makes each correct:

- FIFO: a model is unloaded only when nobody uses it, not even a request whose caller left; the
  concurrency limit counts real use; no grant is lost or counted twice; no wakeup is lost; every
  waiting request is answered.
- Recovery: a load starts only when every other model's memory use is known; a result is used only
  if it is still about the client as it is; every round ends.
- Client: "stopped" means that no memory is held, "ready" and nil from `EnsureReady` mean that the project
  is loaded, every caller is answered, one prepare command at a time.
- Budget: a model is never counted below what it may occupy, a load that reaches its project leaves
  the margin free, and holds come down again.
- Shutdown: it ends, everything is unloaded or reported as unconfirmed and stays so, and success means
  that no request was cut off.

## 2. Modules

| Module | What it is |
|---|---|
| `Scheduler` | FIFO, recovery and router loop with the goroutines that feed it |
| `ModelLease` | abstract: who may use a model and when it may be evicted |
| `Client` | one `runtime.Client` with its load operation, and the model project it controls |
| `Config` | pure: what a resource profile and the table of names must satisfy |
| `Budget` | the ledger of the router loop with everything that moves it: swaps, load operations, probes, samples |
| `Service` | `main`, HTTP handlers, router loop, swap and recovery goroutines and client loops, for the shutdown |
| `MCScheduler`, `MCClient`, `MCBudget`, `MCService` | instances for TLC |
| `SchedulerTypeProofs` | `Spec => []TypeOK` |
| `SchedulerLeaseProofs` | the inductive invariant of the leases, its consequences, and the refinement |
| `SchedulerQueueProofs` | the queue: answers never block, no wakeup is lost |
| `SchedulerRoundProofs` | swaps and recovery rounds: they can end, probes are fresh, loads know the other models |
| `ClientProofs`, `BudgetProofs`, `ServiceProofs` | the inductive invariants of `Client`, `Budget` and `Service`, and what follows |
| `Arithmetic` | induction over numbers, for the proofs |

`Budget` and `Service` use `Config`. They compose what `Scheduler` and `Client` model in detail, each
reduced to what its own question needs: `Scheduler` leaves `Decide` open and `Budget` leaves requests
out, and `Service` leaves out bytes and generations.

### Scheduler

One event of the loop is one action with the name of the handler (`OnRequest`, `OnServeDone`, ...).
Most handlers end in `tryDispatch()`, which calls itself. The handler's action sets `dispatching`,
and each call of `tryDispatch` is one `Dispatch` step; while one is due, the loop receives nothing
(`LoopFree`), but other goroutines may act between two calls, as they can in the program. Two other
tails of an event are treated in the same way: `refreshDue` (the status read that the loop starts
after `OnServeDone` has dispatched) and `clearing` (one `MarkerCleared` call per marker that a GPU
sample cleared, in the order of a Go map).

- Per request: `hpc` is where its handler stands (`new`, `waiting` on Respond, `cancelling`,
  `granted`, `dropping` the grant, `serving`, `proxied`, `ending`, `done`), `ctx` whether its context
  is done. `exec` are the requests a model process is working on: external, and not visible to the
  router except through `active_requests`. A caller may hang up while its request is in `exec`.
- `Router.grant` is the set `GrantOutcomes`: with a waiting handler and a done context, `select`
  takes either branch. A preload takes its grant back at once (`dropping`).
- A gate is `open`, `closed` or `expired`; `GateExpires` is the passing of its drain deadline. The
  reminder armed by `armDrain` may come at any time after it was armed.
- `statusOrder`, `statusPos` and `checked` are the set `todo` with `First` (the target first, then
  by name). `unloadBegan` is TRUE exactly while the phase is unloading and is left out, as are
  `inflightModel` (written, never read) and `skipRest` (acted on in the same step).
- `Decide` is nondeterministic: it admits, refuses, or names another ready model; within one call of
  `tryDispatch`, `EvictionFor` and `Decide` agree. The later check of `unloadFail` in `tryDispatch` can
  then not be reached, because `blocked` has looked at the same models.
- What a probe can learn is merged into six classes that the scheduler treats differently (`Outcomes`).
- The clients appear as `cstate`, `inflight` and `cgen`; `Client` models them in detail.

A model process is taken to know of a forwarded request (`Forward`) before its handler can return, and
`active_requests` counts what it works on; both are the control contract of the repository's README.

### Client

The loop's `select` is one action per case. `Stop` keeps the loop busy (`loop # "free"`) through
status, POST and answer; the load operation runs beside it step by step. The project (`proj`) is
external: it is `down`, or in one of the states of the control contract. Every HTTP call may fail or
time out before or after it took effect, a project may fail a load or an unload or die at any time,
prepare may time out and go on running, and a status read may return an error. `active_requests > 0`
is part of the refusals in `StopStatus`. `Reconcile` runs once, at boot, before anything else
(`cmd/inferswap/main.go`). Recovery probes begin when no load is in flight (`planRecovery`) and are
applied at any later time. `Stop` may come at any moment, also during a load; that the router never
does so is `StopFindsNoLoad` of `Service`.

### Budget

`reserved`, `marker` (`residualAfter`), `loadSerial` and `snap` are the router's; `cstate`, `op` and `proj`
are a client, its load operation and its project, as in `Client` with fewer steps. `FitsNow`, `FitsIfRestResidual`,
`OthersAtResidual` and `BoundFor` are the functions of `budget.go`, on units instead of bytes.

- Times. A marker says after which moment a sample must be taken to clear it. The only sample that can be
  older than a marker is the one waiting in `observeCh` (a second one, with which `pollGPU` may be blocked
  behind it, is taken here once the first is received), so a marker is `pending` (set after that sample
  was taken) or `covered`; a probe keeps the same bit, since its marker carries the time at which it read.
- Generations. A probe is `stale` once a load or an unload of its model began after it did.
- `live` is the model whose probe result `RecoverMode` still takes: of the current round, or late after
  its owner left. A dispatch or another round ends it; that takes a request that left, which is a fault.
- What a project occupies (`Use`) is its peak unless it is free, and a sample may show any loaded model
  anywhere down to its residual (`Samples`): the worst case for an admission that trusts `free`.
- `oldestResident` prefers the least recently used model; any ready model may be the victim here.

### Service

A handler is at `body` (being read by `limitBody`), `send` (past the check of `shutting`), `queued`,
`granted` or `proxy`. `main` goes through boot, preload, serving, `http` (`http.Server.Shutdown`), `handshake`
(`shutdownCh`), `release` and `end`. `rel` is where `releaseOnShutdown` stands with one model. The router loop is
free, waits for a client (`apply`) or has ended; the loop of a client is busy while `stopper` names who
called its `Stop`. A project is `free` or `held`, and `Reconcile` finds stopped, ready or unreadable
models; loading and unloading ones at boot are in `Client` and `Budget`. Every model has `concurrencyLimit` 1
(`Grant`); higher limits are in `Scheduler`. Go visits the runtimes in any order, so `RelBegin` picks any model.

`Config` is checked by `NamesAreUnambiguous` in `MCService` over all pairs of short alias lists: whether a
configuration is accepted does not depend on the order in which Go visits the models, exactly the
unambiguous ones are accepted, and `Index` rebuilds the table that was checked.

## 3. Runs

| Run | Instance | Shows |
|---|---|---|
| `sched_serving` | 3 requests for a model with 2 slots, a preload of the other and a request for an unregistered name, 1 fault | `HeadHasReason`, `LimitHolds`, `EvicteeQuiet`, `LeaseInv`, `LoadNeedsKnownStates` |
| `sched_recover` | a preload and a request, each model ready, starting or unknown, 1 fault, 1 hang-up | `TypeOK`, `HeadHasReason`, `CountersMatchHandlers`, `AnswerNeverBlocks`, `PhaseCanEnd`, `ProbesTrackedAndFresh`, `LeaseSpec` (refinement) |
| `sched_liveness` | 2 requests for a ready model with 1 slot and a preload of a stopped one, 1 fault | `PhaseEnds`, `WaitingEnds` |
| `client` | 2 callers, 3 calls of Stop or probe, 3 faults | `TypeOK`, `StoppedMeansFree`, `OnePrepare`, `StartingHasOp`, `ReadyIsLoaded`, `ReadyAnswerIsTrue`, `CallersAnswered` |
| `budget` | 2 models that exclude each other, 4 ways to boot | `TypeOK`, `LedgerInv`, `BoundsCoverUse`, `HoldsComeDown`, `MarginKept` |
| `budget_three` | 3 models, 2 of which fit together | `MarginKept` |
| `service` | 2 models, a preload and 2 HTTP requests, 2 faults | `TypeOK`, `ConfirmedStaysReleased`, `NobodyCutOff`, `StopFindsNoLoad`, `ShutdownEnds` |
| `idle_model_released`, `drain_timeout_expired`, `ready_model_drained` | 2 or 3 requests | violated: see findings |
| `load_beyond_free`, `room_not_found` | 2 models | violated: see findings |

`CHECK_DEADLOCK FALSE` throughout: the requests, calls and faults of an instance are finite, and the
system may rest when they are done.

Bounds. Two models are the least with an eviction and are enough for a victim and a target to swap
roles. In `sched_serving` three requests of one model with two slots are what makes an old status read
dangerous: one request ends, another is granted and a third waits. In `sched_liveness` the two requests for one
slot wait for each other's slot, and the preload waits for the drain of their model; a fault may take the
slot away for good, fail the load, the unload or a sample, and so start recovery rounds. The queue of two (`MaxQ = 2`) makes
`QUEUE_FULL` happen. Every request may be granted once, so generations stay small without a bound of their
own. `MaxFaults` and `MaxCancels` bound faults and hang-ups of a whole behaviour; each hazard listed needs
one or two. In `Client`, `MaxCalls` bounds Stops and probes together: a probe can be overtaken by a load and
a Stop, and another Stop or probe can follow. In `Budget` nothing but faults is bounded: the models are
loaded and unloaded for ever. The profiles have a load peak above and one below the inference peak, a
residual, and a device on which one pair fits and another does not. `service` has one signal and one
deadline, which may come at any moment after the boot.

Symmetry is used in `sched_serving` only, over the requests of one model (`SameModel`): they have the same
model and the run checks no liveness.

Fairness (`FairSpec`). Goroutines that can run do run, and what they wait for ends, because each HTTP
call, drain, prepare and sample has a deadline: weak fairness. The loops' `select` chooses at random
among ready channels, so a sender that is ready again and again is received: strong fairness per
sender. GPU polling goes on every second. Not assumed: that a caller hangs up, that the queue timer
fires, or that anything fails; and model processes are assumed to finish requests only in `Scheduler`
(`BackendFinish`).

In `Client` and `Budget` weak fairness of goroutines, projects at work, the poller and the probes of the
request that waits. In `Service` strong fairness of the shutdown steps, again because `select` picks at
random among ready cases and the loop is free again and again, and weak fairness of the deadline, the swap
and the clients. Not assumed there: that a caller goes on sending its body, that work ends, or that a slot
is ever given back.

`WaitingEnds` has one exception, for the flaw that `idle_model_released` shows: a request may wait for ever
(for its queue timer, in the program) when the model wanted by the head of the queue has lost its slot for good,
`<>[]` of `Leaked`. The slot that is held between the end of an ordinary request and the status read that
follows is no excuse, and neither is a leaked slot of any other model: a head that waits for such a
model to drain must get its `DRAIN_TIMEOUT`, which takes a reminder that is armed again until the deadline has
passed. Without the exception the property is false.

## 4. Findings

1. `IdleModelReleased` (`base.go:192`, `fifo.go:199-205`). A caller hangs up while the model works. The
   one status read that follows is answered before the work ends; `backend` and `unresolved` stay, and
   nothing reads the status again. The idle model keeps its slot in use: with `concurrencyLimit: 1` its
   own requests run into `QUEUE_TIMEOUT`, requests for others into `DRAIN_TIMEOUT`. `README.md:97` calls
   the limit "In-flight requests allowed while that model is ready." A failed status read, or two
   results applied in the wrong order, have the same effect.
2. `DrainTimeoutMeansExpired` (`base.go:412`). One failed status read in `waitIdle` is reported as
   `DRAIN_TIMEOUT`, whatever the deadline; `README.md:158`: "The selected model stayed busy until
   `drainTimeout`. Unload does not start."
3. `ReadyModelIsDrained` (`scheduler/recover.go:170`). A successful load does not clear `unloadFail`, so a
   ready model with work in flight is probed on behalf of another request, which is then refused with
   `LIFECYCLE_PENDING`. `docs/measurements.md:9`: "A ready model that still has local work is still the
   candidate: its gate closes and the drain deadline starts immediately".
4. `AdmittedLoadFits` (`budget.go:115`). With all other models unloaded, `admitWithoutEvict` compares the holds
   with the total memory of the device and not with what is free. `docs/measurements.md:7`: "A new load runs only
   when the latest sample of the configured GPU is fresh and `free` minus `safetyMarginBytes` covers the sum of
   holds". Code and document differ when another program uses the GPU or unloaded models keep a residual: the
   sample's free memory minus the margin need not cover the sum of holds. The test
   `TestIdleGPUAdmitsWhenTotalHoldsPeak` (`budget_test.go:287`) demands this admission (free 20 of 100, peak 80), so
   it is the document that disagrees with code and test. For the same reason `MarginKept` is stated for
   `OtherUse = 0`.
5. `RoomIsFound` (`client.go:667`). A model that is unloading when InferSwap starts becomes "stopping", and nothing
   ends that state but a request for the model itself: it has no operation, and recovery probes only failed
   and unknown models. Its peak keeps counting after the project is unloaded, and other targets are refused
   with `RESOURCES`, "The configured GPU budget cannot admit the target" (`README.md:153`), although it could.

## 5. Proofs

### Scheduler

For every number of models, requests, limits, queue length, boot states and bounds, from the ASSUMEs of
`Scheduler` only (finitely many requests, a model for each, positive limits):

- `TypeCorrect`: `Spec => []TypeOK`. One lemma per action. That counters do not go below zero rests on the
  guards of the handlers.
- `LeaseCorrect`: `Spec => []LeaseInv`.
- `EvicteeStaysQuiet`, `LimitIsKept`, `CountersStayRight`: `EvicteeQuiet`, `LimitHolds` and
  `CountersMatchHandlers` are invariants.
- `Refinement`: `Spec => LeaseSpec`, with users of a model = handlers that hold a grant and requests
  still running there, evicting = the victims while the phase is unloading.

Why an inductive invariant is needed. `EvicteeQuiet` says nothing of the counters on which
`tryDispatch` decides. `LeaseInv` ties them to reality: `pending` and `httpIn` are the numbers of handlers
(`CountersMatchHandlers`), what runs without a handler is covered by `unresolved` (`SlotsCover`), only
handlers at the proxy run something (`ExecAtProxy`). The delicate part is the moment when `unresolved`
is set to 0 because of a status that was read earlier. `QuietIsLatest`: a quiet proof is the generation
of the last grant, and exists only while no handler is active. `ReadsTruthful`: a read or probe that
carries generation g, if no later grant came, still carries the quiet proof, and if it read
`active_requests = 0` then nothing runs now, because only a grant can lead to new work. Hence
`ProvesIdle` is sound.

The steps fall into two groups. All but five are "steady" (`Steady`): handlers keep their group, reads stay truthful,
work only ends, and no unload starts on a model in use; one lemma shows that a steady step keeps the
invariant and is a release, the start or end of an eviction, or a stutter of `ModelLease`. The five others
(grant, `OnProxyStart`, `OnCancelGranted`, `OnServeDone`, `Forward`) have a lemma each.

The queue (`SchedulerQueueProofs`):

- `QueueCorrect`: nobody is queued twice, and everyone queued is `Answerable`: the handler still waits, or its
  context is done, so that the loop's `select` gives the answer up. `NoAnswerBlocks`: `AnswerNeverBlocks`.
- `NoWakeupLost`: `HeadHasReason`.

Every step lets the queue stay, takes one request in or lets one go (`Stays`, `Joins`, `Leaves`), and each of the
three keeps `QueueInv`. `HeadHasReason` is not inductive: it speaks only of a free loop, and says nothing of the
moments at which a handler has changed the slots and `tryDispatch` is still due. `HeadInv` drops `LoopFree` for
`~dispatching` and adds that an armed drain has its reminder. A step then leaves the reasons alone (`Unmoved`), makes
a dispatch due (`Woken`), or is the dispatch that ends with a reason.

The rounds (`SchedulerRoundProofs`):

- `RoundsCorrect`: `SeenInv /\ RoundsInv` is an invariant.
- `PhasesCanEnd`, `ProbesStayFresh`: `PhaseCanEnd` and `ProbesTrackedAndFresh` are invariants.
- `LoadsKnowTheStates`: `LoadNeedsKnownStates` holds of every step.

What the three have in common is that the scheduler acts on what earlier probes have told it, while requests leave and
clients change. `JobInv` ties phases to goroutines and says when a client can be loading behind the scheduler's back.
`ProbeInv`: there is never more than one probe, also after its owner left, and its model still needs it, since
every step that would touch the client has first taken the probe's result or dropped it. `RoundInv`: a round
runs for the head of the queue, and its markers are the markers there are. The hard part is
`LoadNeedsKnownStates`: `planRecovery` does not probe a model twice for one request (`seen`), so a load that skips a model
must know that what the probe said is still true. `SeenInv`: only the head of the queue has models it has seen.
`KnownInv`: each of them was found good, or is being probed or swapped, or the round will refuse the head. `ProbedInv`
excludes the case that would break this, a probe of an older round that changes a model the head has seen.

### Budget

For every number of models, every accepted profile, device, margin, boot and number of faults (ASSUMEs of
`Budget`; of a boot only that a model is taken for stopped when its project said unloaded):

- `BudgetTypes`, `LedgerCorrect`: `TypeOK` and `LedgerInv` are invariants.
- `BoundsCorrect`: `BoundsCoverUse`. `HoldsComeDownAlways`: `HoldsComeDown`.
- `MarginIsKept`: `MarginKept` holds of every step when `OtherUse = 0`; with other programs on the device it is
  false (finding 4).

`BoundsCoverUse` alone is not inductive: it does not say why a model that counts with its residual cannot
be about to load. `LedgerInv` adds that a bound below the peak means a free project, no operation past
the gate and a client that is neither ready nor stopping; that a model with a marker is stopped, so that the
sample that clears it lowers the hold of a free model only; that a probe which is not stale means that no
load began since, so that what it read is still true; and, for swaps, in which client state each of their
steps can find the model. The invariant proved is `TypeOK /\ LedgerInv /\ HoldsComeDown`, with one lemma per
action.

`MarginKept` compares the moment at which a POST arrives with the moment at which the gate let it through, and
other models move in between. `MarginInv` (in `BudgetProofs`) bridges the two: while a load is past the gate it owns
`loadSerial`, and the target's peak plus the worst every other model can come to without passing the gate (`Worst`)
leaves the margin free. `Worst` is the residual of a free project and the peak of any other; it is also the peak of a
project that has failed and is free while its client is ready or stopping, because such a project takes the POST of a
Stop and is unloading until it has dealt with it. `WorstShrinks`: no step but a POST of the model's own load
raises it; for that, an operation or a probe that found the project ready must still be right (`ReadyIsTrue`).
`AdmittedIsSafe`: the bounds of the ledger cover `Worst`, and a sample never shows more than the device has. The sums
(`SumOf`) are a recursive function over the models; `SumDefined` and `SumGrows` show that it has a value and that it
grows with each summand.

### Client

For any finite set of callers and any bounds:

- `ClientTypes`, `StoppedIsFree`, `StartingIsServed`, `PreparesDoNotOverlap`, `ReadyMeansLoaded`: `TypeOK`,
  `StoppedMeansFree`, `StartingHasOp`, `OnePrepare`, `ReadyIsLoaded` are invariants. `ReadyAnswers`:
  `ReadyAnswerIsTrue` holds of every step.

The invariant (`ClientInv` in `ClientProofs`) adds: an operation in flight has the generation of the client
unless a Stop is waiting for it, and a client that is free and starting has one; a probe whose generation is
current has not been overtaken by a load, so that `notResident` is still true; a Stop that is past its wait
has no operation beside it; and a prepare command runs exactly when one counts as running. `ReadyInv` adds for
"ready" that the success of an operation, and a probe's `readyIdle` of the current generation, are still true
when the loop takes them: the project may have died meanwhile, but nothing was posted to it (`NothingPosted`).

### Service

For every list of models, all accepted aliases, requests, preloads, boot states and faults, from the ASSUMEs of `Service`
(the order in which Go visits the configured models is a sequence of names; preloads are requests for models):

- `ServiceInvariant`: the inductive invariant `IInv`. `ServiceTypes`: `TypeOK`.
- `ConfirmedIsReleased`: `ConfirmedStaysReleased`. `ExitZeroMeansServed`: `NobodyCutOff`.
- `StopMeetsNoLoad`: `StopFindsNoLoad` holds of every step.

A confirmed model could come back through a load that a swap had begun before the signal. The invariant says why it does
not: once `releaseOnShutdown` is past the slots of a model, nobody holds a grant for it, and a load of it is
either over or has still to pass the gate, which is closed (`ReleaseInv`, `ConfirmedInv`). A caller that is
left when the router is shut down means that the deadline is over, so that nothing is confirmed any more and the exit
status is not 0 (`LateInv`). `WorkInv` ties running work to slots, `OpInv` keeps the load and the Stop of a client
apart. One lemma per action, one step per part that the action can disturb. That a request stands for a model
rests on `TableModels`: every entry of `Config`'s table belongs to a model, by induction over the recursion of
`Index`, whose value is given in closed form by `LastWriter` (the last batch that wrote a name).

### Induction

The library's induction theorems take the property as an operator, which the provers here cannot instantiate. `Induct` in
`Arithmetic` takes it as a set of numbers instead, and is proved by the least counterexample (`LeastIn`, from the
well-foundedness of `<`). It is used for recursive functions over `0 .. n` only.

### Only model-checked

Liveness (`PhaseEnds`, `WaitingEnds`, `CallersAnswered`, `ShutdownEnds`): fairness and ENABLED are out of the
prover's reach. `NamesAreUnambiguous` of `MCService`, a constant statement over all short alias lists. The violated
properties of the findings. Every invariant and every action property of a passing run is proved.

## 6. Not modelled

- `OnBackendDone` (no sender but tests); the order of victims by last use; `LastUse`, `loadedAt`.
- Parsing a control status (`parse.go`): a status is one of the combinations that `validateStatus` accepts, or
  unreadable. Request rewriting (`internal/proxy`): one request, no shared state. `handleModels` and
  diagnostics: read-only snapshots. NVML: a sample succeeds or fails. Defaults, timeouts, URL and path checks
  of the configuration. The mock and the test kit.
- Overflow of byte sums: `Fits` stops at the first partial sum above what is free, so an int64 wraps only for
  a profile near 2^63 bytes; the model's sums are unbounded.
- Status reads are atomic at the project. A POST is delivered when it is sent or never; late delivery of an
  abandoned POST is listed as a hazard.
- A second GPU sample behind the one in `observeCh` (`base.go:143-160`); limits above 1 in `Service`.
- The age of a drain gate, so that an old deadline is not told from a fresh one (hazard at `fifo.go:222`).

## 7. Plan

Done: `Scheduler`, `ModelLease`, `Client`, `Config`, `Budget`, `Service`, their runs, and proofs of all their safety
properties. What is left, in this order:

1. The other half of the shutdown's promise as safety: that every model reported as unconfirmed has a reason.
2. Acceptance of names for any configuration: that `NameTable` accepts exactly the unambiguous ones, by `Induct`.
3. Gates with an age in `Scheduler`, in an instance small enough for TLC.
