------------------------------ MODULE Scheduler ------------------------------
(***************************************************************************)
(* The FIFO request scheduler of InferSwap (internal/router/scheduler) in  *)
(* the router's event loop (internal/router/base.go, recover.go), together *)
(* with the goroutines that feed the loop: one HTTP handler per request,   *)
(* the load and unload jobs, the status reads and the recovery probes.     *)
(*                                                                         *)
(* The loop is a single goroutine.  It receives one event, runs its        *)
(* handler to the end and only then receives the next one.  A handler that *)
(* ends in tryDispatch() sets dispatching; every call of tryDispatch (it   *)
(* recurses) is one Dispatch step, and no event is received until it is    *)
(* FALSE again.  The other goroutines may act between two calls.           *)
(***************************************************************************)
EXTENDS Integers, Sequences, FiniteSets, SequencesExt

CONSTANTS
  N,           \* number of configured models; model ids are 1..N in name order
  Requests,    \* requests that may arrive
  NoReq,       \* the absent request (recoverOwner = 0)
  ModelOf,     \* the model each request names; 0 is an unregistered name
  Preloads,    \* requests issued by Preload at boot rather than by HTTP
  Limit,       \* concurrencyLimit of each model
  MaxQ,        \* maxQueueSize
  Boots,       \* combinations of client states that reconcile may leave at boot
  MaxFaults,   \* bound: failed reads, loads, unloads, samples, connections
  MaxCancels   \* bound: request contexts that end early

Models == 1..N

ClientStates == {"unknown", "stopped", "starting", "ready", "stopping", "failed"}

ASSUME NAssumption == N \in Nat \ {0}
ASSUME RequestAssumption ==
  /\ IsFiniteSet(Requests)
  /\ NoReq \notin Requests
  /\ ModelOf \in [Requests -> 0..N]
  /\ Preloads \subseteq {r \in Requests : ModelOf[r] \in Models}
ASSUME LimitAssumption == Limit \in [Models -> Nat \ {0}]
ASSUME BoundAssumption == MaxQ \in Nat \ {0} /\ MaxFaults \in Nat /\ MaxCancels \in Nat
ASSUME BootAssumption == Boots \subseteq [Models -> ClientStates]

VARIABLES
  \* the FIFO
  queued,        \* waiting requests, oldest first
  pending,       \* per model: granted, not yet at the proxy
  httpIn,        \* per model: inside the proxy
  unresolved,    \* per model: handler ended, backend not yet proved idle
  backend,       \* per model: active_requests of the last status applied
  dispatchGen,   \* per model: grants so far
  quietGen,      \* per model: dispatchGen when the model last went quiet; 0 absent
  gate,          \* per model: "open", "closed", or "expired" (drain deadline passed)
  drainArmed,    \* a drain reminder has been requested
  unloadFail,    \* models whose last unload failed
  phase,         \* what the scheduler waits for
  swapTarget,    \* model the current load or unload is for; 0 none
  swapEvict,     \* models being unloaded
  \* recovery of models whose state is not known
  tokenSeq,      \* last recovery token issued
  recToken,      \* token of the current round; 0 none
  recOwner,      \* request the round runs for
  recModel,      \* that request's model
  todo,          \* models of statusOrder not yet passed, the launched one included
  needSample,    \* models that need a GPU sample before dispatch
  sawResources,  \* the round met an endpoint whose memory use is not known
  sawLifecycle,  \* the round met a model in the middle of a change
  probeStarted,  \* per model: token of the probe believed to be live; 0 none
  acceptLate,    \* tokens whose owner left and whose result is still welcome
  seen,          \* per request: models already probed on its behalf
  \* control of the event loop
  dispatching,   \* a call of tryDispatch is due
  refreshDue,    \* request whose end starts a status read once the loop has dispatched
  clearing,      \* models whose MarkerCleared call is due
  \* what the loop shares with the other goroutines
  cstate,        \* per model: state of its runtime.Client
  inflight,      \* per model: the client has a load operation in flight
  cgen,          \* per model: the client's generation
  markers,       \* models with a residualAfter entry
  job,           \* the goroutine started by StartLoad or StartUnload
  probes,        \* recovery probes in flight
  refresh,       \* per request: the status read its end started
  reminders,     \* drain reminders in flight
  \* HTTP handlers and the model projects
  hpc,           \* per request: where its handler stands
  ctx,           \* per request: its context is done
  answer,        \* per request: "none", "granted" or the error code sent
  exec,          \* requests running in a model process
  faults         \* faults so far

fifoVars  == <<queued, pending, httpIn, unresolved, backend, dispatchGen, quietGen>>
gateVars  == <<gate, drainArmed>>
swapVars  == <<unloadFail, phase, swapTarget, swapEvict>>
roundVars == <<tokenSeq, recToken, recOwner, recModel, todo, needSample,
               sawResources, sawLifecycle>>
probeVars == <<probeStarted, acceptLate, seen>>
loopVars  == <<dispatching, refreshDue, clearing>>
hostVars  == <<cstate, inflight, cgen, markers>>
taskVars  == <<job, probes, refresh, reminders>>
reqVars   == <<hpc, ctx, answer, exec>>
vars == <<fifoVars, gateVars, swapVars, roundVars, probeVars, loopVars, hostVars,
          taskVars, reqVars, faults>>

Phases   == {"idle", "unloading", "loading", "recover", "sample"}
Steps    == {"new", "waiting", "cancelling", "granted", "dropping",
             "serving", "proxied", "ending", "done"}
Codes    == {"none", "granted", "MODEL_NOT_FOUND", "QUEUE_FULL", "QUEUE_TIMEOUT",
             "UNLOAD_FAILED", "DRAIN_TIMEOUT", "LOAD_FAILED", "RESOURCES",
             "LIFECYCLE_PENDING", "NOT_READY"}
\* What one recovery probe can learn: RecReadyIdle; RecUnloadedIdle or
\* RecFailedNotResidentIdle; RecReadyBusy or RecInProgress; RecFailedOccupied or
\* RecFailedNotResidentBusy; RecInvalid or StatusErrOther; StatusErrEndpointDown.
Outcomes == {"readyIdle", "notResident", "pending", "occupied", "invalid", "down"}

NoJob     == [kind |-> "none", model |-> 0, step |-> "none", err |-> "none"]
NoRefresh == [step |-> "none", gen |-> 0, active |-> 0]

Jobs    == [kind : {"none", "load", "unload"}, model : 0..N,
            step : {"none", "begin", "wait", "drain", "stop", "sample", "report"},
            err : Codes]
Reads   == [step : {"none", "sent", "read", "failed"}, gen : Nat, active : Nat]
Probes  == [token : Nat, model : Models, gen : Nat, proof : Nat,
            out : Outcomes \cup {"none"}, active : Nat]

-----------------------------------------------------------------------------
(* Reading the state. *)

Head1        == queued[1]
Running(m)   == {r \in exec : ModelOf[r] = m}
\* Mutated: a slot is free as soon as the handler returns.
Slots_Handlers(m) == pending[m] + httpIn[m]
Slots(m)     == pending[m] + httpIn[m] + unresolved[m]
Protected(m) == Slots(m) + backend[m] > 0
ActiveAt(m)  == Cardinality(Running(m))
LoopFree     == ~dispatching /\ refreshDue = NoReq /\ clearing = {}

\* The loop's answer reaches a handler that waits on Respond; it is given up when
\* the request's context is done.  When both hold, select takes either.
GrantOutcomes(r) == {ok \in BOOLEAN : IF ok THEN hpc[r] = "waiting" ELSE ctx[r]}

GrantError(r, code) ==
  \E ok \in GrantOutcomes(r) :
     /\ hpc'    = IF ok THEN [hpc EXCEPT ![r] = "done"] ELSE hpc
     /\ answer' = IF ok THEN [answer EXCEPT ![r] = code] ELSE answer

Fault == faults < MaxFaults /\ faults' = faults + 1
NoFault == faults' = faults

-----------------------------------------------------------------------------
(* Gates.  A gate remembers since when its model is wanted for eviction.  The
   drain deadline is the closing time plus drainTimeout; time is abstracted to
   whether that deadline has passed.  *)

CloseGate(g, S) == [m \in Models |-> IF m \in S /\ g[m] = "open" THEN "closed" ELSE g[m]]
OpenGate(g, S)  == [m \in Models |-> IF m \in S THEN "open" ELSE g[m]]

\* Gates nobody needs are opened again, except while an unload runs.
ReopenUnusedGates(g, need) ==
  IF phase = "unloading" THEN g ELSE OpenGate(g, Models \ need)

DrainExpired(S) == \E m \in S : gate[m] = "expired"
\* Mutated: only handlers count, not what they left running.
AnyBusy_Handlers(S) == \E m \in S : pending[m] + httpIn[m] > 0
AnyBusy(S)      == \E m \in S : Protected(m)

\* The planner (Router.Decide) as the scheduler sees it: a ready target needs
\* nothing; otherwise it admits, refuses, or names one other ready model.  All its
\* answers within one call of tryDispatch are the same.
Decision(err, evict) == [err |-> err, evict |-> evict]
Decisions(m) ==
  IF cstate[m] = "ready" THEN {Decision("none", {})}
  ELSE {Decision("none", {}), Decision("RESOURCES", {}), Decision("NOT_READY", {})}
       \cup {Decision("none", {v}) : v \in {w \in Models \ {m} : cstate[w] = "ready"}}

-----------------------------------------------------------------------------
(* Recovery rounds. *)

\* Mutated: models left over from a failed unload are not probed.
NeedStatus_NoUnloadFail(r) ==
  {m \in Models \ (markers \cup seen[r]) :
     ~(inflight[m] /\ cstate[m] = "starting") /\ cstate[m] \in {"failed", "unknown"}}

\* planRecovery: models to probe for request r.  Those with a marker only need a
\* GPU sample.
NeedStatus(r) ==
  {m \in Models \ (markers \cup seen[r]) :
     /\ ~(inflight[m] /\ cstate[m] = "starting")
     /\ cstate[m] \in {"failed", "unknown"} \/ m \in unloadFail}

\* statusOrder: the target first, the others by name.
First(S, target) == IF target \in S THEN target ELSE Min(S)

MustRecover(r) ==
  LET m == ModelOf[r]
  IN  /\ cstate[m] # "ready"
      /\ ~(cstate[m] = "starting" /\ inflight[m])
      /\ NeedStatus(r) \cup markers # {}

\* launchProbe and BeginProbe: generation and quiet proof are read now, the status
\* later.
LaunchProbe(tok, owner, m) ==
  /\ probeStarted' = [probeStarted EXCEPT ![m] = tok]
  /\ seen' = [seen EXCEPT ![owner] = @ \cup {m}]
  /\ probes' = probes \cup {[token |-> tok, model |-> m, gen |-> cgen[m],
                             proof |-> quietGen[m], out |-> "none", active |-> 0]}

\* setPhase of a phase other than phaseIdle: late results are no longer welcome.
SetPhase(next) == phase' = next /\ acceptLate' = {}

BeginRound(r, tok, next) ==
  /\ SetPhase(next)
  /\ recToken' = tok
  /\ recOwner' = r
  /\ recModel' = ModelOf[r]
  /\ todo' = NeedStatus(r)
  /\ needSample' = markers
  /\ sawResources' = FALSE
  /\ sawLifecycle' = FALSE

\* Mutated: a probe already in flight is not joined.
StartRound_NoJoin(r) ==
  LET status == NeedStatus(r)
  IN  /\ tokenSeq' = tokenSeq + 1
      /\ \/ /\ status # {}
            /\ BeginRound(r, tokenSeq + 1, "recover")
            /\ LaunchProbe(tokenSeq + 1, r, First(status, ModelOf[r]))
         \/ /\ status = {}
            /\ BeginRound(r, tokenSeq + 1, "sample")
            /\ UNCHANGED <<probeStarted, seen, probes>>

\* maybeRecover, the part that starts a round for the head of the queue.
StartRound(r) ==
  LET status == NeedStatus(r)
      live   == {m \in status : probeStarted[m] # 0}
  IN  \/ /\ live # {}
         /\ BeginRound(r, probeStarted[First(live, ModelOf[r])], "recover")
         /\ UNCHANGED <<tokenSeq, probeStarted, seen, probes>>
      \/ /\ live = {} /\ status # {}
         /\ tokenSeq' = tokenSeq + 1
         /\ BeginRound(r, tokenSeq + 1, "recover")
         /\ LaunchProbe(tokenSeq + 1, r, First(status, ModelOf[r]))
      \/ /\ status = {}
         /\ tokenSeq' = tokenSeq + 1
         /\ BeginRound(r, tokenSeq + 1, "sample")
         /\ UNCHANGED <<probeStarted, seen, probes>>

\* Mutated: the phase is not reset.
EndRound_KeepsPhase == UNCHANGED phase /\ recToken' = 0 /\ recOwner' = NoReq

EndRound == phase' = "idle" /\ recToken' = 0 /\ recOwner' = NoReq

\* failOwner: only the request the round ran for is failed, and only at the head.
FailOwner(code) ==
  /\ EndRound
  /\ dispatching' = TRUE
  /\ IF queued # <<>> /\ Head1 = recOwner
     THEN queued' = Tail(queued) /\ GrantError(Head1, code)
     ELSE UNCHANGED <<queued, hpc, answer>>

\* dropOwner: the owner left the queue; a result still under way may be used.
DropOwner(r) ==
  IF recOwner = r /\ phase \in {"recover", "sample"}
  THEN /\ acceptLate' = acceptLate \cup {recToken}
       /\ EndRound
  ELSE UNCHANGED <<acceptLate, phase, recToken, recOwner>>

-----------------------------------------------------------------------------
(* tryDispatch, one call.  g and d are the gates and the planner's answer. *)

CallEnds == dispatching' = FALSE

\* The head is refused and tryDispatch calls itself.
FailHead(code) ==
  /\ queued' = Tail(queued)
  /\ GrantError(Head1, code)
  /\ UNCHANGED dispatching

DispatchRecover ==
  /\ phase = "idle" /\ queued # <<>> /\ MustRecover(Head1)
  /\ StartRound(Head1)
  /\ CallEnds
  /\ UNCHANGED <<fifoVars, gateVars, unloadFail, swapTarget, swapEvict, refreshDue, clearing,
                 hostVars, job, refresh, reminders, reqVars, faults>>

\* Nothing to do: a round or a swap is under way, or nobody waits.
DispatchNothing ==
  /\ phase # "idle" \/ queued = <<>>
  /\ gate' = IF phase \in {"recover", "sample"} THEN gate ELSE ReopenUnusedGates(gate, {})
  /\ CallEnds
  /\ UNCHANGED <<fifoVars, drainArmed, swapVars, roundVars, probeVars, refreshDue, clearing,
                 hostVars, taskVars, reqVars, faults>>

\* The head is looked at: no round is needed.
HeadReady == phase = "idle" /\ queued # <<>> /\ ~MustRecover(Head1)

DispatchBlocked(d) ==
  /\ d.evict \cap unloadFail # {}
  /\ gate' = ReopenUnusedGates(gate, d.evict)
  /\ FailHead("UNLOAD_FAILED")
  /\ UNCHANGED <<pending, httpIn, unresolved, backend, dispatchGen, quietGen, drainArmed,
                 swapVars, acceptLate, job, reminders>>

DispatchFull(d) ==
  /\ d.evict \cap unloadFail = {}
  /\ Slots(ModelOf[Head1]) >= Limit[ModelOf[Head1]]
  /\ gate' = ReopenUnusedGates(gate, d.evict)
  /\ CallEnds
  /\ UNCHANGED <<fifoVars, drainArmed, swapVars, acceptLate, job, reminders, hpc, answer>>

HasSlot(d) == d.evict \cap unloadFail = {} /\ Slots(ModelOf[Head1]) < Limit[ModelOf[Head1]]

DispatchRefused(d) ==
  /\ HasSlot(d) /\ d.err # "none"
  /\ gate' = ReopenUnusedGates(gate, {})
  /\ FailHead(d.err)
  /\ UNCHANGED <<pending, httpIn, unresolved, backend, dispatchGen, quietGen, drainArmed,
                 swapVars, acceptLate, job, reminders>>

\* failDrain
DispatchDrainFailed(d) ==
  /\ HasSlot(d) /\ d.evict # {} /\ DrainExpired(d.evict)
  /\ gate' = OpenGate(ReopenUnusedGates(gate, d.evict), d.evict)
  /\ drainArmed' = FALSE
  /\ FailHead("DRAIN_TIMEOUT")
  /\ UNCHANGED <<pending, httpIn, unresolved, backend, dispatchGen, quietGen, swapVars,
                 acceptLate, job, reminders>>

DispatchDrain(d) ==
  /\ HasSlot(d) /\ d.evict # {} /\ ~DrainExpired(d.evict) /\ AnyBusy(d.evict)
  /\ gate' = CloseGate(ReopenUnusedGates(gate, d.evict), d.evict)
  /\ drainArmed' = TRUE
  /\ reminders' = IF drainArmed THEN reminders ELSE reminders + 1
  /\ CallEnds
  /\ UNCHANGED <<fifoVars, swapVars, acceptLate, job, hpc, answer>>

DispatchUnload(d) ==
  /\ HasSlot(d) /\ d.evict # {} /\ ~DrainExpired(d.evict) /\ ~AnyBusy(d.evict)
  /\ gate' = CloseGate(ReopenUnusedGates(gate, d.evict), d.evict)
  /\ drainArmed' = FALSE
  /\ SetPhase("unloading")
  /\ swapTarget' = ModelOf[Head1]
  /\ swapEvict' = d.evict
  /\ \E v \in d.evict :
        job' = [kind |-> "unload", model |-> v, step |-> "drain", err |-> "none"]
  /\ CallEnds
  /\ UNCHANGED <<fifoVars, unloadFail, reminders, hpc, answer>>

\* grantHead.  A grant the request's context cut off leaves no trace.
DispatchGrant(d) ==
  LET r == Head1
      m == ModelOf[r]
  IN  /\ HasSlot(d) /\ d.err = "none" /\ d.evict = {} /\ cstate[m] = "ready"
      /\ queued' = Tail(queued)
      /\ gate' = ReopenUnusedGates(gate, {})
      /\ \E ok \in GrantOutcomes(r) :
           IF ok
           THEN /\ hpc' = [hpc EXCEPT ![r] = IF r \in Preloads THEN "dropping" ELSE "granted"]
                /\ answer' = [answer EXCEPT ![r] = "granted"]
                /\ dispatchGen' = [dispatchGen EXCEPT ![m] = @ + 1]
                /\ quietGen' = [quietGen EXCEPT ![m] = 0]
                /\ pending' = [pending EXCEPT ![m] = @ + 1]
           ELSE UNCHANGED <<hpc, answer, dispatchGen, quietGen, pending>>
      /\ UNCHANGED <<dispatching, httpIn, unresolved, backend, drainArmed, swapVars, acceptLate,
                     job, reminders>>

DispatchLoad(d) ==
  /\ HasSlot(d) /\ d.err = "none" /\ d.evict = {} /\ cstate[ModelOf[Head1]] # "ready"
  /\ gate' = ReopenUnusedGates(gate, {})
  /\ SetPhase("loading")
  /\ swapTarget' = ModelOf[Head1]
  /\ job' = [kind |-> "load", model |-> ModelOf[Head1], step |-> "begin", err |-> "none"]
  /\ CallEnds
  /\ UNCHANGED <<fifoVars, drainArmed, unloadFail, swapEvict, reminders, hpc, answer>>

DispatchHead ==
  /\ HeadReady
  /\ \E d \in Decisions(ModelOf[Head1]) :
       \/ DispatchBlocked(d)
       \/ DispatchFull(d)
       \/ DispatchRefused(d)
       \/ DispatchDrainFailed(d)
       \/ DispatchDrain(d)
       \/ DispatchUnload(d)
       \/ DispatchGrant(d)
       \/ DispatchLoad(d)
  /\ UNCHANGED <<roundVars, probeStarted, seen, refreshDue, clearing, hostVars, probes,
                 refresh, ctx, exec, faults>>

Dispatch == dispatching /\ (DispatchRecover \/ DispatchNothing \/ DispatchHead)

-----------------------------------------------------------------------------
(* Events received by the loop: requests. *)

\* A refusal goes into the buffered Admit channel, so the loop never waits for it.
Refuse(r, code) ==
  /\ hpc' = [hpc EXCEPT ![r] = "done"]
  /\ answer' = [answer EXCEPT ![r] = code]
  /\ UNCHANGED <<queued, dispatching>>

OnRequest(r) ==
  /\ LoopFree /\ hpc[r] = "new"
  /\ \/ /\ ModelOf[r] \notin Models
        /\ Refuse(r, "MODEL_NOT_FOUND")
     \/ /\ ModelOf[r] \in Models /\ Len(queued) >= MaxQ
        /\ Refuse(r, "QUEUE_FULL")
     \/ /\ ModelOf[r] \in Models /\ Len(queued) < MaxQ
        /\ ~ctx[r]
        /\ queued' = Append(queued, r)
        /\ hpc' = [hpc EXCEPT ![r] = "waiting"]
        /\ dispatching' = TRUE
        /\ UNCHANGED answer
     \/ /\ ModelOf[r] \in Models /\ Len(queued) < MaxQ  \* admit() sees a context already done
        /\ ctx[r]
        /\ hpc' = [hpc EXCEPT ![r] = "cancelling"]
        /\ UNCHANGED <<queued, dispatching, answer>>
  /\ UNCHANGED <<pending, httpIn, unresolved, backend, dispatchGen, quietGen, gateVars, swapVars,
                 roundVars, probeVars, refreshDue, clearing, hostVars, taskVars, ctx, exec, faults>>

\* Mutated: the request stays queued.
Dequeue_Not(r) == UNCHANGED queued

\* Taking request r out of the queue, wherever it stands.
Dequeue(r) == \E i \in 1..Len(queued) : queued[i] = r /\ queued' = RemoveAt(queued, i)
InQueue(r) == \E i \in 1..Len(queued) : queued[i] = r

OnCancel(r) ==
  /\ LoopFree /\ hpc[r] = "cancelling"
  /\ hpc' = [hpc EXCEPT ![r] = "done"]
  /\ IF InQueue(r)
     THEN Dequeue(r) /\ DropOwner(r) /\ dispatching' = TRUE
     ELSE UNCHANGED <<queued, acceptLate, phase, recToken, recOwner, dispatching>>
  /\ UNCHANGED <<pending, httpIn, unresolved, backend, dispatchGen, quietGen, gateVars, unloadFail,
                 swapTarget, swapEvict, tokenSeq, recModel, todo, needSample, sawResources,
                 sawLifecycle, probeStarted, seen, refreshDue, clearing, hostVars, taskVars,
                 ctx, answer, exec, faults>>

\* The queue timer of an HTTP request; it has no effect on a request that left.
OnQueueTimeout(r) ==
  /\ LoopFree /\ r \notin Preloads /\ InQueue(r)
  /\ Dequeue(r)
  /\ DropOwner(r)
  /\ GrantError(r, "QUEUE_TIMEOUT")
  /\ dispatching' = TRUE
  /\ UNCHANGED <<pending, httpIn, unresolved, backend, dispatchGen, quietGen, gateVars, unloadFail,
                 swapTarget, swapEvict, tokenSeq, recModel, todo, needSample, sawResources,
                 sawLifecycle, probeStarted, seen, refreshDue, clearing, hostVars, taskVars,
                 ctx, exec, faults>>

OnProxyStart(r) ==
  LET m == ModelOf[r]
  IN  /\ LoopFree /\ hpc[r] = "granted"
      /\ IF pending[m] > 0
         THEN /\ pending' = [pending EXCEPT ![m] = @ - 1]
              /\ httpIn' = [httpIn EXCEPT ![m] = @ + 1]
              /\ hpc' = [hpc EXCEPT ![r] = "serving"]
         ELSE /\ hpc' = [hpc EXCEPT ![r] = "done"]
              /\ UNCHANGED <<pending, httpIn>>
      /\ UNCHANGED <<queued, unresolved, backend, dispatchGen, quietGen, gateVars, swapVars,
                     roundVars, probeVars, loopVars, hostVars, taskVars, ctx, answer, exec, faults>>

\* Mutated: the wrong counter goes down.
OnCancelGranted_Http(r) ==
  LET m == ModelOf[r]
  IN  /\ LoopFree /\ hpc[r] = "dropping"
      /\ hpc' = [hpc EXCEPT ![r] = "done"]
      /\ httpIn' = IF pending[m] > 0 THEN [httpIn EXCEPT ![m] = @ - 1] ELSE httpIn
      /\ dispatching' = TRUE
      /\ UNCHANGED <<queued, pending, unresolved, backend, dispatchGen, quietGen, gateVars,
                     swapVars, roundVars, probeVars, refreshDue, clearing, hostVars, taskVars,
                     ctx, answer, exec, faults>>

OnCancelGranted(r) ==
  LET m == ModelOf[r]
  IN  /\ LoopFree /\ hpc[r] = "dropping"
      /\ hpc' = [hpc EXCEPT ![r] = "done"]
      /\ pending' = IF pending[m] > 0 THEN [pending EXCEPT ![m] = @ - 1] ELSE pending
      /\ dispatching' = TRUE
      /\ UNCHANGED <<queued, httpIn, unresolved, backend, dispatchGen, quietGen, gateVars, swapVars,
                     roundVars, probeVars, refreshDue, clearing, hostVars, taskVars, ctx, answer,
                     exec, faults>>

OnServeDone(r) ==
  LET m == ModelOf[r]
  IN  /\ LoopFree /\ hpc[r] = "ending"
      /\ hpc' = [hpc EXCEPT ![r] = "done"]
      /\ IF httpIn[m] > 0
         THEN /\ httpIn' = [httpIn EXCEPT ![m] = @ - 1]
              /\ unresolved' = [unresolved EXCEPT ![m] = @ + 1]
              /\ quietGen' = IF pending[m] = 0 /\ httpIn[m] = 1
                             THEN [quietGen EXCEPT ![m] = dispatchGen[m]] ELSE quietGen
         ELSE UNCHANGED <<httpIn, unresolved, quietGen>>
      /\ dispatching' = TRUE
      /\ refreshDue' = r
      /\ UNCHANGED <<queued, pending, backend, dispatchGen, gateVars, swapVars, roundVars,
                     probeVars, clearing, hostVars, taskVars, ctx, answer, exec, faults>>

\* Mutated: the read carries the latest generation, quiet or not.
StartRefresh_LatestGen ==
  /\ ~dispatching /\ refreshDue # NoReq
  /\ refresh' = [refresh EXCEPT ![refreshDue] =
                   [step |-> "sent", gen |-> dispatchGen[ModelOf[refreshDue]], active |-> 0]]
  /\ refreshDue' = NoReq
  /\ UNCHANGED <<fifoVars, gateVars, swapVars, roundVars, probeVars, dispatching, clearing,
                 hostVars, job, probes, reminders, reqVars, faults>>

\* go refreshStatus(model, ProofGen(model)), after OnServeDone has dispatched.
StartRefresh ==
  /\ ~dispatching /\ refreshDue # NoReq
  /\ refresh' = [refresh EXCEPT ![refreshDue] =
                   [step |-> "sent", gen |-> quietGen[ModelOf[refreshDue]], active |-> 0]]
  /\ refreshDue' = NoReq
  /\ UNCHANGED <<fifoVars, gateVars, swapVars, roundVars, probeVars, dispatching, clearing,
                 hostVars, job, probes, reminders, reqVars, faults>>

-----------------------------------------------------------------------------
(* Events received by the loop: status, swaps, reminders, GPU samples. *)

\* A status proves a model idle only for the generation it was asked for.
ProvesIdle(m, active, gen) ==
  /\ active = 0 /\ pending[m] = 0 /\ httpIn[m] = 0
  /\ gen # 0 /\ gen = dispatchGen[m] /\ gen = quietGen[m]

ApplyActive(m, active, gen) ==
  /\ backend' = [backend EXCEPT ![m] = active]
  /\ unresolved' = IF ProvesIdle(m, active, gen) THEN [unresolved EXCEPT ![m] = 0] ELSE unresolved

OnStatus(r) ==
  /\ LoopFree /\ refresh[r].step \in {"read", "failed"}
  /\ refresh' = [refresh EXCEPT ![r] = NoRefresh]
  /\ IF refresh[r].step = "read"
     THEN ApplyActive(ModelOf[r], refresh[r].active, refresh[r].gen) /\ dispatching' = TRUE
     ELSE UNCHANGED <<backend, unresolved, dispatching>>
  /\ UNCHANGED <<queued, pending, httpIn, dispatchGen, quietGen, gateVars, swapVars, roundVars,
                 probeVars, refreshDue, clearing, hostVars, job, probes, reminders, reqVars, faults>>

\* finishUnload of a failed unload: the head of the queue is refused, whoever it is,
\* and the gates stay as they are.
OnUnloadFailed ==
  /\ LoopFree /\ job.kind = "unload" /\ job.step = "report" /\ job.err # "none"
  /\ job' = NoJob
  /\ IF phase = "unloading"
     THEN /\ unloadFail' = IF job.err = "DRAIN_TIMEOUT" THEN unloadFail
                           ELSE unloadFail \cup swapEvict
          /\ phase' = "idle"
          /\ IF queued # <<>>
             THEN queued' = Tail(queued) /\ GrantError(Head1, job.err)
             ELSE UNCHANGED <<queued, hpc, answer>>
          /\ dispatching' = TRUE
     ELSE UNCHANGED <<unloadFail, phase, queued, hpc, answer, dispatching>>
  /\ UNCHANGED <<pending, httpIn, unresolved, backend, dispatchGen, quietGen, gateVars,
                 swapTarget, swapEvict, roundVars, probeVars, refreshDue, clearing, hostVars,
                 probes, refresh, reminders, ctx, exec, faults>>

\* finishUnload of a confirmed unload.  Its sample is younger than the unload, so it
\* clears the marker just set; whether it is younger than another marker is open.
\* MarkerCleared does not dispatch here, because the phase is not phaseSample.
OnUnloadDone ==
  /\ LoopFree /\ job.kind = "unload" /\ job.step = "report" /\ job.err = "none"
  /\ job' = NoJob
  /\ phase = "unloading"
  /\ \E old \in SUBSET markers :
       LET cleared == old \cup {job.model}
       IN  /\ markers' = markers \ cleared
           /\ needSample' = needSample \ cleared
           /\ unloadFail' = unloadFail \ cleared
  /\ phase' = "idle"
  /\ swapTarget' = 0
  /\ swapEvict' = {}
  /\ \E need \in IF queued = <<>> THEN {{}}
                 ELSE {d.evict : d \in Decisions(ModelOf[Head1])} :
       gate' = OpenGate(gate, swapEvict \cup (Models \ need))
  /\ dispatching' = TRUE
  /\ UNCHANGED <<fifoVars, drainArmed, tokenSeq, recToken, recOwner, recModel, todo, sawResources,
                 sawLifecycle, probeVars, refreshDue, clearing, cstate, inflight, cgen, probes,
                 refresh, reminders, reqVars, faults>>

OnSwapDone ==
  /\ LoopFree /\ job.kind = "load" /\ job.step = "report"
  /\ job' = NoJob
  /\ IF phase = "loading" /\ job.model = swapTarget
     THEN /\ phase' = "idle"
          /\ swapTarget' = 0
          /\ swapEvict' = {}
          /\ IF job.err # "none" /\ queued # <<>> /\ ModelOf[Head1] = swapTarget
             THEN queued' = Tail(queued) /\ GrantError(Head1, job.err)
             ELSE UNCHANGED <<queued, hpc, answer>>
          /\ dispatching' = TRUE
     ELSE UNCHANGED <<phase, swapTarget, swapEvict, queued, hpc, answer, dispatching>>
  /\ UNCHANGED <<pending, httpIn, unresolved, backend, dispatchGen, quietGen, gateVars, unloadFail,
                 roundVars, probeVars, refreshDue, clearing, hostVars, probes, refresh, reminders,
                 ctx, exec, faults>>

\* Mutated: the drain stays armed.
OnRemind_StaysArmed ==
  /\ LoopFree /\ reminders > 0
  /\ reminders' = reminders - 1
  /\ dispatching' = TRUE
  /\ UNCHANGED <<fifoVars, gateVars, swapVars, roundVars, probeVars, refreshDue, clearing,
                 hostVars, job, probes, refresh, reqVars, faults>>

OnRemind ==
  /\ LoopFree /\ reminders > 0
  /\ reminders' = reminders - 1
  /\ drainArmed' = FALSE
  /\ dispatching' = TRUE
  /\ UNCHANGED <<fifoVars, gate, swapVars, roundVars, probeVars, refreshDue, clearing, hostVars,
                 job, probes, refresh, reqVars, faults>>

\* applyObservation of a good sample: it clears the markers older than itself, one
\* MarkerCleared call each, in the order of a Go map.
OnSample(S) ==
  /\ LoopFree /\ S # {} /\ S \subseteq markers
  /\ markers' = markers \ S
  /\ clearing' = S
  /\ UNCHANGED <<fifoVars, gateVars, swapVars, roundVars, probeVars, dispatching, refreshDue,
                 cstate, inflight, cgen, taskVars, reqVars, faults>>

MarkerCleared(m) ==
  /\ ~dispatching /\ m \in clearing
  /\ clearing' = clearing \ {m}
  /\ needSample' = needSample \ {m}
  /\ unloadFail' = unloadFail \ {m}
  /\ IF phase = "sample" /\ needSample \subseteq {m}
     THEN EndRound /\ dispatching' = TRUE
     ELSE UNCHANGED <<phase, recToken, recOwner, dispatching>>
  /\ UNCHANGED <<fifoVars, gateVars, swapTarget, swapEvict, tokenSeq, recModel, todo, sawResources,
                 sawLifecycle, probeVars, refreshDue, hostVars, taskVars, reqVars, faults>>

\* applyObservation of a failed sample, in the only phase where it matters.
SampleFailed ==
  /\ LoopFree /\ phase = "sample"
  /\ Fault
  /\ FailOwner("NOT_READY")
  /\ UNCHANGED <<pending, httpIn, unresolved, backend, dispatchGen, quietGen, gateVars, unloadFail,
                 swapTarget, swapEvict, tokenSeq, recModel, todo, needSample, sawResources,
                 sawLifecycle, probeVars, refreshDue, clearing, hostVars, taskVars, ctx, exec>>

-----------------------------------------------------------------------------
(* Events received by the loop: recovery probes (onRecover). *)

CallsClient(p) == p.out \notin {"invalid", "down"}

\* The client loop's reply: busy while a load is in flight, stale when anything
\* changed its generation since the probe began.
Ack(p) == IF ~CallsClient(p) THEN "none"
          ELSE IF inflight[p.model] THEN "busy"
          ELSE IF p.gen # cgen[p.model] THEN "stale"
          ELSE "applied"

\* applyClient, with the markers that tentative and restoreLedger leave.
ApplyClient(p) ==
  IF Ack(p) = "applied"
  THEN /\ cgen' = [cgen EXCEPT ![p.model] = @ + 1]
       /\ cstate' = [cstate EXCEPT ![p.model] =
                       CASE p.out = "readyIdle"   -> "ready"
                         [] p.out = "notResident" -> "stopped"
                         [] OTHER                 -> @]
       /\ markers' = CASE p.out = "readyIdle"   -> markers \ {p.model}
                       [] p.out = "notResident" -> markers \cup {p.model}
                       [] OTHER                 -> markers
  ELSE UNCHANGED <<cgen, cstate, markers>>

IsCurrent(p) == phase = "recover" /\ p.token = recToken
IsLate(p)    == phase = "idle" /\ p.token \in acceptLate

Forget(p) ==
  /\ probes' = probes \ {p}
  /\ probeStarted' = [probeStarted EXCEPT ![p.model] = 0]

OnRecoverDrop(p) ==
  /\ ~IsCurrent(p) /\ ~IsLate(p)
  /\ Forget(p)
  /\ UNCHANGED <<fifoVars, swapVars, roundVars, acceptLate, seen, dispatching, cstate, cgen,
                 markers, hpc, answer>>

\* noteLate
OnRecoverLate(p) ==
  /\ IsLate(p)
  /\ Forget(p)
  /\ ApplyClient(p)
  /\ IF Ack(p) = "applied"
     THEN /\ ApplyActive(p.model, p.active, p.proof)
          /\ unloadFail' = IF p.out = "readyIdle" THEN unloadFail \ {p.model} ELSE unloadFail
     ELSE UNCHANGED <<backend, unresolved, unloadFail>>
  /\ dispatching' = (Ack(p) # "stale")
  /\ UNCHANGED <<queued, pending, httpIn, dispatchGen, quietGen, phase, swapTarget, swapEvict,
                 roundVars, acceptLate, seen, hpc, answer>>

\* The round goes on with the next model, or ends as finishProbes decides.
NextProbe(p, left, res, life, need) ==
  /\ sawResources' = res
  /\ sawLifecycle' = life
  /\ needSample' = need
  /\ todo' = left
  /\ \/ /\ left # {}
        /\ probeStarted' = [probeStarted EXCEPT ![p.model] = 0,
                                                ![First(left, recModel)] = recToken]
        /\ seen' = [seen EXCEPT ![recOwner] = @ \cup {p.model, First(left, recModel)}]
        /\ probes' = (probes \ {p}) \cup
             {[token |-> recToken, model |-> First(left, recModel),
               gen |-> cgen[First(left, recModel)], proof |-> quietGen[First(left, recModel)],
               out |-> "none", active |-> 0]}
        /\ UNCHANGED <<phase, recToken, recOwner, acceptLate, dispatching, queued, hpc, answer>>
     \/ /\ left = {}
        /\ Forget(p)
        /\ seen' = [seen EXCEPT ![recOwner] = @ \cup {p.model}]
        /\ \/ /\ res
              /\ FailOwner("RESOURCES")
              /\ UNCHANGED acceptLate
           \/ /\ ~res /\ life
              /\ FailOwner("LIFECYCLE_PENDING")
              /\ UNCHANGED acceptLate
           \/ /\ ~res /\ ~life /\ need # {}
              /\ SetPhase("sample")
              /\ UNCHANGED <<recToken, recOwner, dispatching, queued, hpc, answer>>
           \/ /\ ~res /\ ~life /\ need = {}
              /\ EndRound
              /\ dispatching' = TRUE
              /\ UNCHANGED <<acceptLate, queued, hpc, answer>>

\* absorb, then statusPos++ and launchProbe.
Absorb(p) ==
  LET left == todo \ {First(todo, recModel), p.model}
  IN  CASE p.out = "down" ->
             NextProbe(p, left, sawResources \/ p.model # recModel, sawLifecycle, needSample)
        [] p.out \in {"invalid", "occupied"} ->
             NextProbe(p, left, TRUE, sawLifecycle, needSample)
        [] p.out = "pending" ->
             NextProbe(p, left, sawResources, TRUE, needSample)
        [] p.out = "readyIdle" ->
             NextProbe(p, left, sawResources, sawLifecycle, needSample \ {p.model})
        [] OTHER ->
             NextProbe(p, left, sawResources, sawLifecycle, needSample \cup {p.model})

\* A round ends at once when the target itself turns out to be usable.
RoundSettled(p) ==
  /\ Forget(p)
  /\ seen' = [seen EXCEPT ![recOwner] = @ \cup {p.model}]
  /\ EndRound
  /\ dispatching' = TRUE
  /\ needSample' = IF Ack(p) = "applied" THEN needSample \ {p.model} ELSE needSample
  /\ UNCHANGED <<todo, sawResources, sawLifecycle, acceptLate, queued, hpc, answer>>

RoundFailed(p, code) ==
  /\ Forget(p)
  /\ seen' = [seen EXCEPT ![recOwner] = @ \cup {p.model}]
  /\ FailOwner(code)
  /\ UNCHANGED <<todo, needSample, sawResources, sawLifecycle, acceptLate>>

OnRecoverCurrent(p) ==
  /\ IsCurrent(p)
  /\ ApplyClient(p)
  /\ IF Ack(p) = "applied"
     THEN /\ ApplyActive(p.model, p.active, p.proof)
          /\ unloadFail' = IF p.out = "readyIdle" THEN unloadFail \ {p.model} ELSE unloadFail
     ELSE UNCHANGED <<backend, unresolved, unloadFail>>
  /\ \/ /\ Ack(p) = "stale"
        /\ RoundFailed(p, "RESOURCES")
     \/ /\ Ack(p) = "busy" /\ ~(p.model = recModel /\ cstate[p.model] = "starting")
        /\ RoundFailed(p, "LIFECYCLE_PENDING")
     \/ /\ Ack(p) = "busy" /\ p.model = recModel /\ cstate[p.model] = "starting"
        /\ RoundSettled(p)
     \/ /\ Ack(p) = "applied" /\ p.out = "readyIdle" /\ p.model = recModel
        /\ RoundSettled(p)
     \/ /\ Ack(p) \in {"applied", "none"} /\ ~(p.out = "readyIdle" /\ p.model = recModel)
        /\ Absorb(p)
  /\ UNCHANGED <<pending, httpIn, dispatchGen, quietGen, swapTarget, swapEvict, tokenSeq, recModel>>

OnRecover ==
  \E p \in probes :
    /\ LoopFree /\ p.out # "none"
    /\ OnRecoverDrop(p) \/ OnRecoverLate(p) \/ OnRecoverCurrent(p)
    /\ UNCHANGED <<gateVars, refreshDue, clearing, inflight, job, refresh, reminders, ctx, exec,
                   faults>>

-----------------------------------------------------------------------------
(* The other goroutines. *)

loopOwned == <<fifoVars, swapVars, roundVars, probeVars, loopVars, markers>>

\* A request's context ends: the client hangs up, or the boot deadline passes.
CtxDone(r) ==
  /\ ~ctx[r] /\ hpc[r] \in {"new", "waiting", "granted", "serving", "proxied"}
  /\ Cardinality({x \in Requests : ctx[x]}) < MaxCancels
  /\ ctx' = [ctx EXCEPT ![r] = TRUE]
  /\ UNCHANGED <<loopOwned, gateVars, cstate, inflight, cgen, taskVars, hpc, answer, exec, faults>>

\* ServeModel, prepareModel and trackedServe notice it.  Preload's cancel is not
\* sent unless the loop happens to be receiving.
SeeCtx(r) ==
  /\ ctx[r]
  /\ \/ hpc[r] = "new"     /\ hpc' = [hpc EXCEPT ![r] = "done"]
     \/ hpc[r] = "waiting" /\ hpc' = [hpc EXCEPT ![r] = "cancelling"]
     \/ hpc[r] = "waiting" /\ r \in Preloads /\ hpc' = [hpc EXCEPT ![r] = "done"]
     \/ hpc[r] = "granted" /\ hpc' = [hpc EXCEPT ![r] = "dropping"]
  /\ UNCHANGED <<loopOwned, gateVars, cstate, inflight, cgen, taskVars, ctx, answer, exec, faults>>

\* The proxied request starts and ends in the model process.
Forward(r) ==
  /\ hpc[r] = "serving" /\ ~ctx[r]
  /\ hpc' = [hpc EXCEPT ![r] = "proxied"]
  /\ exec' = exec \cup {r}
  /\ UNCHANGED <<loopOwned, gateVars, cstate, inflight, cgen, taskVars, ctx, answer, faults>>

BackendFinish(r) ==
  /\ r \in exec
  /\ exec' = exec \ {r}
  /\ UNCHANGED <<loopOwned, gateVars, cstate, inflight, cgen, taskVars, hpc, ctx, answer, faults>>

\* ServeHTTP returns: the response is complete, the caller hung up (the model
\* process may go on), or the connection or the client's handler is gone.
HandlerReturn(r) ==
  /\ hpc[r] \in {"serving", "proxied"}
  /\ \/ (hpc[r] = "proxied" /\ r \notin exec) /\ NoFault
     \/ ctx[r] /\ NoFault
     \/ (hpc[r] = "serving" \/ r \in exec) /\ ~ctx[r] /\ Fault
  /\ hpc' = [hpc EXCEPT ![r] = "ending"]
  /\ UNCHANGED <<loopOwned, gateVars, cstate, inflight, cgen, taskVars, ctx, answer, exec>>

\* refreshStatus reads GET /control/status.
StatusRead(r) ==
  /\ refresh[r].step = "sent"
  /\ \/ /\ refresh' = [refresh EXCEPT ![r] = [@ EXCEPT !.step = "read",
                                                       !.active = ActiveAt(ModelOf[r])]]
        /\ NoFault
     \/ /\ refresh' = [refresh EXCEPT ![r] = [@ EXCEPT !.step = "failed"]]
        /\ Fault
  /\ UNCHANGED <<loopOwned, gateVars, cstate, inflight, cgen, job, probes, reminders, reqVars>>

\* BeginProbe's goroutine reads it; ClassifyStatusErr and ClassifyRecovery.
ProbeRead ==
  /\ \E p \in probes, out \in Outcomes :
       /\ p.out = "none"
       /\ out \in {"readyIdle", "notResident"} => ActiveAt(p.model) = 0
       /\ probes' = (probes \ {p}) \cup
            {[p EXCEPT !.out = out, !.active = IF out \in {"invalid", "down"} THEN 0
                                               ELSE ActiveAt(p.model)]}
  /\ UNCHANGED <<loopOwned, gateVars, cstate, inflight, cgen, job, refresh, reminders, reqVars,
                 faults>>

\* StartLoad's goroutine enters EnsureReady; the client starts an operation unless
\* it is ready or already loading.
EnsureReady ==
  LET m == job.model
  IN  /\ job.kind = "load" /\ job.step = "begin"
      /\ \/ /\ cstate[m] = "ready"
            /\ job' = [job EXCEPT !.step = "report"]
            /\ UNCHANGED <<cstate, inflight, cgen>>
         \/ /\ cstate[m] = "starting"
            /\ job' = [job EXCEPT !.step = "wait"]
            /\ UNCHANGED <<cstate, inflight, cgen>>
         \/ /\ cstate[m] \notin {"ready", "starting"}
            /\ job' = [job EXCEPT !.step = "wait"]
            /\ cstate' = [cstate EXCEPT ![m] = "starting"]
            /\ inflight' = [inflight EXCEPT ![m] = TRUE]
            /\ cgen' = [cgen EXCEPT ![m] = @ + 1]
      /\ UNCHANGED <<loopOwned, gateVars, probes, refresh, reminders, reqVars, faults>>

\* The client's load operation ends and its waiters are told.  The load gate can
\* refuse with RESOURCES, which the scheduler passes on.
LoadOpDone(m) ==
  /\ inflight[m]
  /\ inflight' = [inflight EXCEPT ![m] = FALSE]
  /\ \E err \in {"none", "LOAD_FAILED", "RESOURCES"} :
       /\ IF err = "none" THEN NoFault ELSE Fault
       /\ cstate' = [cstate EXCEPT ![m] = IF err = "none" THEN "ready" ELSE "failed"]
       /\ job' = IF job.kind = "load" /\ job.model = m /\ job.step = "wait"
                 THEN [job EXCEPT !.step = "report", !.err = err] ELSE job
  /\ UNCHANGED <<loopOwned, gateVars, cgen, probes, refresh, reminders, reqVars>>

\* StartUnload's goroutine: waitIdle.
UnloadDrain ==
  /\ job.kind = "unload" /\ job.step = "drain"
  /\ \/ /\ ActiveAt(job.model) = 0  \* status is idle: Stop, which takes the client to stopping
        /\ job' = [job EXCEPT !.step = "stop"]
        /\ cstate' = [cstate EXCEPT ![job.model] = "stopping"]
        /\ cgen' = [cgen EXCEPT ![job.model] = @ + 1]
        /\ NoFault
     \/ /\ gate[job.model] = "expired"
        /\ job' = [job EXCEPT !.step = "report", !.err = "DRAIN_TIMEOUT"]
        /\ NoFault
        /\ UNCHANGED <<cstate, cgen>>
     \/ /\ gate[job.model] # "expired"  \* an unreadable status counts as a drain timeout
        /\ job' = [job EXCEPT !.step = "report", !.err = "DRAIN_TIMEOUT"]
        /\ Fault
        /\ UNCHANGED <<cstate, cgen>>
  /\ UNCHANGED <<loopOwned, gateVars, inflight, probes, refresh, reminders, reqVars>>

\* doStop ends.
UnloadStop ==
  /\ job.kind = "unload" /\ job.step = "stop"
  /\ \/ /\ job' = [job EXCEPT !.step = "sample"]
        /\ cstate' = [cstate EXCEPT ![job.model] = "stopped"]
        /\ NoFault
     \/ /\ job' = [job EXCEPT !.step = "report", !.err = "UNLOAD_FAILED"]
        /\ cstate' = [cstate EXCEPT ![job.model] = "failed"]
        /\ Fault
  /\ UNCHANGED <<loopOwned, gateVars, inflight, cgen, probes, refresh, reminders, reqVars>>

\* sampleAfter: a GPU sample younger than the unload, or the unload counts as failed
\* although the client is stopped.
UnloadSample ==
  /\ job.kind = "unload" /\ job.step = "sample"
  /\ \/ job' = [job EXCEPT !.step = "report"] /\ NoFault
     \/ job' = [job EXCEPT !.step = "report", !.err = "UNLOAD_FAILED"] /\ Fault
  /\ UNCHANGED <<loopOwned, gateVars, cstate, inflight, cgen, probes, refresh, reminders, reqVars>>

\* Time: the drain deadline of a closed gate passes.
GateExpires(m) ==
  /\ gate[m] = "closed"
  /\ gate' = [gate EXCEPT ![m] = "expired"]
  /\ UNCHANGED <<loopOwned, drainArmed, cstate, inflight, cgen, taskVars, reqVars, faults>>

-----------------------------------------------------------------------------
Init ==
  /\ queued = <<>>
  /\ pending = [m \in Models |-> 0]
  /\ httpIn = [m \in Models |-> 0]
  /\ unresolved = [m \in Models |-> 0]
  /\ backend = [m \in Models |-> 0]
  /\ dispatchGen = [m \in Models |-> 0]
  /\ quietGen = [m \in Models |-> 0]
  /\ gate = [m \in Models |-> "open"]
  /\ drainArmed = FALSE
  /\ unloadFail = {}
  /\ phase = "idle"
  /\ swapTarget = 0
  /\ swapEvict = {}
  /\ tokenSeq = 0
  /\ recToken = 0
  /\ recOwner = NoReq
  /\ recModel = 0
  /\ todo = {}
  /\ needSample = {}
  /\ sawResources = FALSE
  /\ sawLifecycle = FALSE
  /\ probeStarted = [m \in Models |-> 0]
  /\ acceptLate = {}
  /\ seen = [r \in Requests |-> {}]
  /\ dispatching = FALSE
  /\ refreshDue = NoReq
  /\ clearing = {}
  /\ cstate \in Boots
  /\ inflight = [m \in Models |-> cstate[m] = "starting"]
  /\ cgen = [m \in Models |-> 0]
  /\ markers = {}
  /\ job = NoJob
  /\ probes = {}
  /\ refresh = [r \in Requests |-> NoRefresh]
  /\ reminders = 0
  /\ hpc = [r \in Requests |-> "new"]
  /\ ctx = [r \in Requests |-> FALSE]
  /\ answer = [r \in Requests |-> "none"]
  /\ exec = {}
  /\ faults = 0

\* Events the loop receives on behalf of one request's handler.
Receive(r) == \/ OnRequest(r) \/ OnCancel(r) \/ OnProxyStart(r) \/ OnCancelGranted(r)
              \/ OnServeDone(r) \/ OnStatus(r)

\* Steps of one request's goroutines.
Handle(r) == SeeCtx(r) \/ Forward(r) \/ HandlerReturn(r) \/ StatusRead(r)

Job == EnsureReady \/ UnloadDrain \/ UnloadStop \/ UnloadSample

JobReport == OnSwapDone \/ OnUnloadDone \/ OnUnloadFailed

Next ==
  \/ Dispatch
  \/ StartRefresh
  \/ OnRemind \/ OnRecover \/ SampleFailed \/ JobReport
  \/ Job \/ ProbeRead
  \/ \E r \in Requests : Receive(r) \/ OnQueueTimeout(r) \/ Handle(r) \/ CtxDone(r)
                         \/ BackendFinish(r)
  \/ \E m \in Models : MarkerCleared(m) \/ LoadOpDone(m) \/ GateExpires(m)
  \/ \E S \in SUBSET Models : OnSample(S)

Spec == Init /\ [][Next]_vars

\* Goroutines that can run do run; the operations they wait for end (every one has a
\* timeout).  The loop's select picks at random among the channels that are ready,
\* so a sender is received eventually even if others keep coming: SF.  The GPU is
\* polled every second, and each poll either succeeds or fails.  The queue timer is
\* not assumed to fire, and no context is assumed to end.
Fairness ==
  /\ WF_vars(Dispatch) /\ WF_vars(StartRefresh) /\ WF_vars(Job) /\ WF_vars(ProbeRead)
  /\ SF_vars(JobReport) /\ SF_vars(OnRemind) /\ SF_vars(OnRecover)
  /\ SF_vars(SampleFailed \/ OnSample(markers))
  /\ \A m \in Models : /\ WF_vars(MarkerCleared(m)) /\ WF_vars(LoadOpDone(m))
                        /\ WF_vars(GateExpires(m))
  /\ \A r \in Requests : SF_vars(Receive(r)) /\ WF_vars(Handle(r)) /\ WF_vars(BackendFinish(r))

FairSpec == Spec /\ Fairness

-----------------------------------------------------------------------------
\* Only requests for a registered model get past OnRequest.
Registered == {r \in Requests : ModelOf[r] \in Models}

FifoType ==
  /\ queued \in Seq(Registered)
  /\ pending \in [Models -> Nat] /\ httpIn \in [Models -> Nat]
  /\ unresolved \in [Models -> Nat] /\ backend \in [Models -> Nat]
  /\ dispatchGen \in [Models -> Nat] /\ quietGen \in [Models -> Nat]

SwapType ==
  /\ gate \in [Models -> {"open", "closed", "expired"}]
  /\ unloadFail \subseteq Models /\ phase \in Phases
  /\ swapTarget \in 0..N /\ swapEvict \subseteq Models

RoundType ==
  /\ tokenSeq \in Nat /\ recToken \in Nat /\ recOwner \in Registered \cup {NoReq}
  /\ recModel \in 0..N /\ todo \subseteq Models /\ needSample \subseteq Models
  /\ probeStarted \in [Models -> Nat] /\ acceptLate \subseteq Nat
  /\ seen \in [Requests -> SUBSET Models]

LoopType == refreshDue \in Registered \cup {NoReq} /\ clearing \subseteq Models

HostType ==
  /\ cstate \in [Models -> ClientStates]
  /\ cgen \in [Models -> Nat] /\ markers \subseteq Models

TaskType ==
  /\ job \in Jobs /\ probes \subseteq Probes /\ refresh \in [Requests -> Reads]
  /\ reminders \in Nat

ReqType ==
  /\ hpc \in [Requests -> Steps]
  /\ answer \in [Requests -> Codes] /\ exec \subseteq Registered
  /\ \A r \in Requests \ Registered : hpc[r] \in {"new", "done"}

FlagType ==
  /\ drainArmed \in BOOLEAN /\ dispatching \in BOOLEAN
  /\ sawResources \in BOOLEAN /\ sawLifecycle \in BOOLEAN
  /\ inflight \in [Models -> BOOLEAN] /\ ctx \in [Requests -> BOOLEAN]

\* Every variable has its type; in particular no counter of the FIFO goes below zero.
TypeOK ==
  /\ FifoType /\ SwapType /\ RoundType /\ LoopType /\ HostType /\ TaskType /\ ReqType
  /\ FlagType
  /\ faults \in Nat

-----------------------------------------------------------------------------
(* Safety. *)

HoldingSteps == {"granted", "dropping", "serving", "proxied", "ending"}
At(steps, m) == {r \in Requests : ModelOf[r] = m /\ hpc[r] \in steps}

\* While a model is being unloaded no handler holds a grant for it and none of the
\* requests forwarded to it still runs there, not even one whose caller hung up
\* (OnServeDone, OnStatus, anyBusy: "Unload starts only after that local work is gone").
EvicteeQuiet ==
  phase = "unloading" =>
    \A v \in swapEvict : At(HoldingSteps, v) = {} /\ Running(v) = {}

\* The counters are the handlers: a grant is counted exactly once from grantHead to
\* OnServeDone or OnCancelGranted, so proxyStart is never refused and no slot is
\* lost or counted twice.
CountersMatchHandlers ==
  \A m \in Models :
    /\ pending[m] = Cardinality(At({"granted", "dropping"}, m))
    /\ httpIn[m] = Cardinality(At({"serving", "proxied", "ending"}, m))

\* concurrencyLimit bounds the requests that are really at a model: those whose
\* handler holds a grant and those still running there after their caller left.
LimitHolds ==
  \A m \in Models : Cardinality(At(HoldingSteps, m) \cup Running(m)) <= Limit[m]

\* The loop sends answers on an unbuffered channel: every queued request must have a
\* handler waiting for it or a context that is done, or the loop would block for good.
AnswerNeverBlocks ==
  \A i \in 1..Len(queued) : GrantOutcomes(queued[i]) # {}

\* Whatever the scheduler waits for exists: a swap has its goroutine, a recovery
\* round has exactly one probe in flight, and a sampling round waits only for models
\* that a GPU sample will release.
PhaseCanEnd ==
  /\ phase = "loading" <=> job.kind = "load"
  /\ phase = "unloading" <=> job.kind = "unload"
  /\ phase = "loading" => job.model = swapTarget
  /\ phase = "recover" => Cardinality({p \in probes : p.token = recToken}) = 1
  /\ phase = "sample" => needSample # {} /\ needSample \subseteq markers \cup clearing

\* No wakeup is lost: when the loop is idle with requests waiting, the first one
\* waits for a slot of its model, or for a drain that a reminder will end.
HeadHasReason ==
  LoopFree /\ phase = "idle" /\ queued # <<>> =>
    \/ Slots(ModelOf[Head1]) >= Limit[ModelOf[Head1]]
    \/ drainArmed /\ reminders > 0 /\ \E v \in Models : gate[v] # "open"

\* A load is started only when the memory of every other model is accounted for: none
\* is failed or unknown and none is left over from a failed unload ("The next load
\* stays blocked"), unless the target was loading already.
LoadNeedsKnownStates ==
  [][job.kind # "load" /\ job'.kind = "load" =>
       \/ cstate[job'.model] = "starting"
       \/ \A v \in Models \ {job'.model} :
            v \notin unloadFail /\ cstate[v] \notin {"failed", "unknown"}]_vars

\* A model has at most one recovery probe in flight and probeStarted names it, so a
\* later request joins it (maybeRecover); and a result the loop may still use was read
\* from the client as it is now: whatever changes a client in between (EnsureReady,
\* Stop, another probe) also makes the loop drop the result (setPhase, RecoverMode).
ProbesTrackedAndFresh ==
  /\ \A p, q \in probes : p.model = q.model => p = q
  /\ \A m \in Models :
       probeStarted[m] # 0 <=> \E p \in probes : p.model = m /\ p.token = probeStarted[m]
  /\ LoopFree => \A p \in probes :
                   p.out # "none" /\ (IsCurrent(p) \/ IsLate(p)) => Ack(p) # "stale"

-----------------------------------------------------------------------------
(* Liveness, under FairSpec. *)

NoWork(m) == At(HoldingSteps, m) = {} /\ Running(m) = {}

\* Every swap and every recovery round ends, whatever fails and whoever leaves.
PhaseEnds == (phase # "idle") ~> (phase = "idle")

\* A slot is held for a request that has ended and stopped running: see IdleModelReleased.
Leaked(m) == NoWork(m) /\ Slots(m) >= Limit[m]

\* Without any help from the queue timer every waiting request is answered: slots come
\* back when requests end, drains end by deadline (OnRemind) and every refusal lets the
\* next one try (failHead, failDrain, failOwner).  The one exception is a slot that the
\* model wanted by the head of the queue has lost for good: from some moment on it
\* serves nobody and is full for ever.  (Requests are finitely many and each waits once, so
\* that all are answered means that in the end nobody waits.)
WaitingEnds ==
  \/ <>[](\A r \in Requests : hpc[r] # "waiting")
  \/ <>[](queued # <<>> /\ Leaked(ModelOf[Head1]))

-----------------------------------------------------------------------------
(* The scheduler implements ModelLease: a request uses a model from its grant until
   its handler has ended and the model process has stopped working for it. *)

Users(m) == At(HoldingSteps, m) \cup Running(m)

Lease == INSTANCE ModelLease
           WITH users    <- [m \in Models |-> Users(m)],
                evicting <- IF phase = "unloading" THEN swapEvict ELSE {}

\* Every grant, release, unload and end of an unload is a step ModelLease allows: no
\* grant on a model that is being unloaded or is full, no unload of a model in use.
LeaseSpec == Lease!Spec

-----------------------------------------------------------------------------
(* Why it holds: the inductive invariant behind EvicteeQuiet and LeaseSpec. *)

\* Requests of model m that still run although their handler has ended.
Left(m) == {r \in Running(m) : hpc[r] = "done"}

\* Only handlers that reached the proxy have something running.
ExecAtProxy == \A r \in exec : hpc[r] \in {"proxied", "ending", "done"}

\* What was left running is covered by unresolved, and no model has more slots in use
\* than its limit.
SlotsCover ==
  \A m \in Models :
    Cardinality(Left(m)) <= unresolved[m] /\ Slots(m) <= Limit[m]

\* A quiet proof stands for the latest grant, and only while no handler is active.
QuietIsLatest ==
  \A m \in Models :
    quietGen[m] # 0 => quietGen[m] = dispatchGen[m] /\ pending[m] = 0 /\ httpIn[m] = 0

\* The generation a status read carries: if no grant came after it, it is still the
\* quiet proof, and an idle answer still is the truth.
Truthful(m, gen, idle) ==
  /\ gen <= dispatchGen[m]
  /\ gen # 0 /\ gen = dispatchGen[m] => quietGen[m] = gen /\ (idle => Running(m) = {})

ReadsTruthful ==
  /\ \A r \in Registered :
       refresh[r].step # "none" =>
         Truthful(ModelOf[r], refresh[r].gen, refresh[r].step = "read" /\ refresh[r].active = 0)
  /\ \A p \in probes :
       Truthful(p.model, p.proof, p.out # "none" /\ CallsClient(p) /\ p.active = 0)

\* Together with the counters, an inductive invariant: why a status that proves a
\* model idle (OnStatus, applyBackend) may be believed although it was read earlier.
LeaseInv ==
  /\ CountersMatchHandlers /\ ExecAtProxy /\ SlotsCover /\ QuietIsLatest /\ ReadsTruthful
  /\ EvicteeQuiet

-----------------------------------------------------------------------------
(* Statements of the documentation and the tests that the code does not meet. *)

\* "In-flight requests allowed while that model is ready" (concurrencyLimit): once
\* nobody uses a model any more, its slots are free again (OnServeDone, OnStatus).
IdleModelReleased ==
  \A m \in Models : NoWork(m) ~> (~Protected(m) \/ ~NoWork(m))

\* "A ready model that still has local work is still the candidate: its gate closes
\* and the drain deadline starts immediately": it is never a reason to answer
\* LIFECYCLE_PENDING (absorb).
ReadyModelIsDrained ==
  [][\A r \in Requests, p \in probes \ probes' :
       answer[r] = "none" /\ answer'[r] = "LIFECYCLE_PENDING" /\ p.out = "pending" /\ p.active > 0
         => cstate[p.model] # "ready"]_vars

\* "The selected model stayed busy until drainTimeout" (DRAIN_TIMEOUT): no request
\* gets that answer before the drain deadline of some model has passed (waitIdle).
DrainTimeoutMeansExpired ==
  [][\A r \in Requests :
       answer[r] = "none" /\ answer'[r] = "DRAIN_TIMEOUT"
         => \E v \in Models : gate[v] = "expired"]_vars
=============================================================================
