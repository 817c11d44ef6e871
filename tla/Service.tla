------------------------------- MODULE Service -------------------------------
(***************************************************************************)
(* The program as cmd/inferswap/main.go runs it: reconcile, preload, serve *)
(* and, on a signal, shut down.  Composes the HTTP handlers of the server, *)
(* the router loop, the swap and recovery goroutines, the client loops and *)
(* main's own steps, which all meet during a shutdown.                     *)
(*                                                                         *)
(* The scheduler, the clients and the budget are the subject of the        *)
(* modules Scheduler, Client and Budget; here they are reduced to what a   *)
(* shutdown meets: requests wait, hold slots and are served, at most one   *)
(* swap is under way, a load asks the loop at its gate, a Stop keeps its   *)
(* client busy, and a recovery keeps the loop waiting for a client.        *)
(***************************************************************************)
EXTENDS Naturals, FiniteSets, Config

CONSTANTS
  Order,      \* the ids of the models, as a sequence
  Aliases,    \* per model: its aliases
  Requests,
  Name,       \* per request: the model it asks for, an id or an alias
  Preloads,   \* the requests that stand for Preload's own
  MaxFaults   \* bound: timeouts, refusals, lost answers, hang-ups

Models == {Order[i] : i \in 1 .. Len(Order)}
Table  == IndexTable(Order, Aliases)

ASSUME OrderAssumption == Order \in Seq(STRING)
ASSUME ModelsAssumption == NameTable(Order, Aliases) # Collision
ASSUME RequestsAssumption ==
  /\ IsFiniteSet(Requests) /\ Preloads \subseteq Requests
  /\ AcceptsPreload(Models, {Name[r] : r \in Preloads})
ASSUME BoundAssumption == MaxFaults \in Nat

VARIABLES
  main,     \* where main stands
  expired,  \* the shutdown context has ended
  ctxDone,  \* Router.shutdownCtx is done
  loop,     \* the router loop: free, or waiting for a client (applyClient), or over
  applyTo,  \* the model whose client it waits for
  todo, failed, rel,  \* Shutdown: models not yet released, those that were not, the step
  req,      \* per request: its handler
  slot,     \* requests that hold a slot of their model
  work,     \* requests that a model process is working on
  cs, op,   \* per model: local state of the client, its load operation
  stopper,  \* per model: who has called the Stop that keeps the client busy
  proj,     \* per model: whether its project occupies the GPU
  swap,     \* the load or unload the FIFO has under way
  faults

mainVars == <<main, expired, ctxDone, todo, failed, rel>>
loopVars == <<loop, applyTo>>
reqVars  == <<req, slot, work>>
cliVars  == <<cs, op, stopper, proj>>
vars == <<mainVars, loopVars, reqVars, cliVars, swap, faults>>

ReqSteps == {"idle", "body", "send", "queued", "granted", "proxy", "left", "served", "refused"}
Handlers == {"body", "send", "queued", "granted", "proxy"}
MainSteps == {"boot", "preload", "serving", "http", "handshake", "release", "end", "exit0",
              "exit1", "fatal"}
RelSteps == {"none", "slots", "state", "idle", "stop", "stopping", "sample"}
CliStates == {"unknown", "stopped", "starting", "ready", "stopping", "failed"}
NoModel == "none"
NoSwap == [kind |-> "none", model |-> NoModel, step |-> "none"]
NoRel  == [model |-> NoModel, step |-> "none"]

Fault   == faults < MaxFaults /\ faults' = faults + 1
NoFault == faults' = faults

Alive    == main \notin {"exit0", "exit1", "fatal"}
Shutting == main \in {"handshake", "release", "end"}
LoopFree == Alive /\ loop = "free"
ModelOf(r)   == Resolve(Table, Name[r])
Waiting(m)   == \E r \in Requests : req[r] = "queued" /\ ModelOf(r) = m
Protected(m) == \E r \in slot : ModelOf(r) = m
Working(m)   == \E r \in work : ModelOf(r) = m
\* What waitIdle waits for: no request, and no load that an operation waits for.
Idle(m)      == ~Working(m) /\ op[m] # "wait"
ReqGoes(r, step) == req' = [req EXCEPT ![r] = step]

-----------------------------------------------------------------------------
(* Boot. *)

\* Mutated: the remote state is stored as the local one.
Reconcile_Remote ==
  /\ main = "boot" /\ main' = "preload" /\ cs' = proj
  /\ UNCHANGED <<expired, ctxDone, todo, failed, rel, loopVars, reqVars, op, stopper, proj, swap,
                 faults>>

\* Reconcile; a status that cannot be read leaves the model unknown.
Reconcile ==
  /\ main = "boot" /\ main' = "preload"
  /\ \E unread \in SUBSET Models :
       /\ faults' = faults + Cardinality(unread) /\ faults' <= MaxFaults
       /\ cs' = [m \in Models |-> IF m \in unread THEN "unknown"
                                  ELSE IF proj[m] = "free" THEN "stopped" ELSE "ready"]
  /\ UNCHANGED <<expired, ctxDone, todo, failed, rel, loopVars, reqVars, op, stopper, proj, swap>>

\* prepareModel: the loop takes the request; a grant is given back at once.
PreloadSend(r) ==
  /\ main = "preload" /\ r \in Preloads /\ req[r] = "idle" /\ LoopFree
  /\ \A s \in Preloads : req[s] \in {"idle", "served"}        \* one after the other
  /\ ReqGoes(r, "queued")
  /\ UNCHANGED <<mainVars, loopVars, slot, work, cliVars, swap, faults>>

PreloadDone(r) ==
  /\ r \in Preloads /\ req[r] = "granted" /\ LoopFree
  /\ ReqGoes(r, "served") /\ slot' = slot \ {r}
  /\ UNCHANGED <<mainVars, loopVars, work, cliVars, swap, faults>>

PreloadEnds ==
  /\ main = "preload"
  /\ \/ (\A r \in Preloads : req[r] = "served") /\ main' = "serving"
     \/ (\E r \in Preloads : req[r] = "refused") /\ main' = "fatal"
  /\ UNCHANGED <<expired, ctxDone, todo, failed, rel, loopVars, reqVars, cliVars, swap, faults>>

-----------------------------------------------------------------------------
(* handleInfer and ServeModel. *)

reqFrame == <<mainVars, loopVars, cliVars, swap>>

\* The listener is closed once Shutdown has begun.
Arrive(r) ==
  /\ main = "serving" /\ req[r] = "idle"
  /\ ReqGoes(r, IF Resolves(Table, Name[r]) THEN "body" ELSE "refused")
  /\ UNCHANGED <<reqFrame, slot, work, faults>>

\* limitBody reads the whole body, which may be too large or break off, before ServeModel
\* looks at shutting.
ReadBody(r) ==
  /\ Alive /\ req[r] = "body"
  /\ \/ ~Shutting /\ ReqGoes(r, "send")
     \/ ReqGoes(r, "refused")
  /\ UNCHANGED <<reqFrame, slot, work, faults>>

\* The loop takes the request, also after OnShutdown has emptied the queue.
OnRequest(r) ==
  /\ req[r] = "send"
  /\ \/ LoopFree /\ ReqGoes(r, "queued")
     \/ Alive /\ ctxDone /\ ReqGoes(r, "refused")
  /\ UNCHANGED <<reqFrame, slot, work, faults>>

\* grantHead, with concurrencyLimit 1 for every model: a model with a slot in use takes
\* nobody else.
Grant(r) ==
  /\ LoopFree /\ swap = NoSwap /\ req[r] = "queued"
  /\ cs[ModelOf(r)] = "ready" /\ ~Protected(ModelOf(r))
  /\ ReqGoes(r, "granted") /\ slot' = slot \cup {r}
  /\ UNCHANGED <<reqFrame, work, faults>>

\* An error of the scheduler, a queue timeout, or the end of the router.
Refuse(r) ==
  /\ req[r] = "queued"
  /\ \/ LoopFree \/ (Alive /\ ctxDone)
  /\ ReqGoes(r, "refused")
  /\ UNCHANGED <<reqFrame, slot, work, faults>>

\* trackedServe
ProxyStart(r) ==
  /\ LoopFree /\ r \notin Preloads /\ req[r] = "granted"
  /\ IF cs[ModelOf(r)] = "ready" THEN ReqGoes(r, "proxy") /\ work' = work \cup {r}
     ELSE ReqGoes(r, "refused") /\ UNCHANGED work
  /\ UNCHANGED <<reqFrame, slot, faults>>

ServeEnds(r) ==
  /\ Alive /\ req[r] = "proxy" /\ ReqGoes(r, "served") /\ work' = work \ {r}
  /\ UNCHANGED <<reqFrame, slot, faults>>

OnServeDone(r) ==
  /\ LoopFree /\ r \in slot /\ req[r] \in {"served", "refused"}
  /\ slot' = slot \ {r}
  /\ UNCHANGED <<reqFrame, req, work, faults>>

\* The caller hangs up; what its model works on goes on.
HangUp(r) ==
  /\ Alive /\ r \notin Preloads /\ req[r] \in Handlers /\ Fault
  /\ ReqGoes(r, "left")
  /\ slot' = IF r \in work THEN slot ELSE slot \ {r}
  /\ UNCHANGED <<reqFrame, work>>

WorkEnds(r) ==
  /\ req[r] = "left" /\ r \in work /\ work' = work \ {r}
  /\ UNCHANGED <<reqFrame, req, slot, faults>>

\* A later status frees the slot, if one is read.
SlotSettles(r) ==
  /\ LoopFree /\ req[r] = "left" /\ r \in slot \ work /\ slot' = slot \ {r}
  /\ UNCHANGED <<reqFrame, req, work, faults>>

-----------------------------------------------------------------------------
(* Swaps, and the clients' loops. *)

swapFrame == <<mainVars, loopVars, reqVars>>
SwapGoes(step) == swap' = [swap EXCEPT !.step = step]
ClientFree(m) == stopper[m] = "none"

BeginLoad(m) ==
  /\ LoopFree /\ swap = NoSwap /\ Waiting(m) /\ cs[m] # "ready"
  /\ swap' = [kind |-> "load", model |-> m, step |-> "start"]
  /\ UNCHANGED <<swapFrame, cliVars, faults>>

\* The client's loop takes EnsureReady; doEnsure reads the status up to the gate.
EnsureReady ==
  /\ Alive /\ swap.kind = "load" /\ swap.step = "start" /\ ClientFree(swap.model)
  /\ LET m == swap.model IN
     \/ cs[m] = "ready" /\ SwapGoes("done") /\ UNCHANGED <<cs, op>>
     \/ cs[m] = "starting" /\ SwapGoes("wait") /\ UNCHANGED <<cs, op>>
     \/ /\ cs[m] \notin {"ready", "starting"} /\ SwapGoes("wait")
        /\ cs' = [cs EXCEPT ![m] = "starting"]
        /\ op' = [op EXCEPT ![m] = IF proj[m] = "free" THEN "gate" ELSE "wait"]
  /\ UNCHANGED <<swapFrame, stopper, proj, faults>>

OpEnds(m, state) ==
  /\ op' = [op EXCEPT ![m] = "none"]
  /\ cs' = [cs EXCEPT ![m] = state]
  /\ IF swap.kind = "load" /\ swap.model = m /\ swap.step = "wait" THEN SwapGoes("done")
     ELSE UNCHANGED swap

\* Mutated: the gate does not look at shutting.
WaitLoad_Open(m) ==
  /\ Alive /\ op[m] = "gate"
  /\ \/ /\ LoopFree /\ op' = [op EXCEPT ![m] = "post"]
        /\ NoFault /\ UNCHANGED <<cs, swap>>
     \/ LoopFree /\ OpEnds(m, "failed") /\ Fault
     \/ ctxDone /\ OpEnds(m, "failed") /\ NoFault
  /\ UNCHANGED <<swapFrame, stopper, proj>>

\* WaitLoad: the loop admits the load, refuses it (always when shutting), or has ended.
WaitLoad(m) ==
  /\ Alive /\ op[m] = "gate"
  /\ \/ /\ LoopFree /\ ~Shutting /\ op' = [op EXCEPT ![m] = "post"]
        /\ NoFault /\ UNCHANGED <<cs, swap>>
     \/ LoopFree /\ Shutting /\ OpEnds(m, "failed") /\ NoFault
     \/ LoopFree /\ ~Shutting /\ OpEnds(m, "failed") /\ Fault
     \/ ctxDone /\ OpEnds(m, "failed") /\ NoFault
  /\ UNCHANGED <<swapFrame, stopper, proj>>

\* The POST arrives, even when the program that sent it has gone, or it fails.
OpPost(m) ==
  /\ op[m] = "post"
  /\ \/ /\ proj' = [proj EXCEPT ![m] = "held"] /\ op' = [op EXCEPT ![m] = "wait"]
        /\ NoFault /\ UNCHANGED <<cs, swap>>
     \/ Alive /\ OpEnds(m, "failed") /\ Fault /\ UNCHANGED proj
  /\ UNCHANGED <<swapFrame, stopper>>

\* The project is ready, or the operation gives up while it may go on loading.
OpWait(m) ==
  /\ Alive /\ op[m] = "wait"
  /\ \/ OpEnds(m, "ready") /\ NoFault
     \/ OpEnds(m, "failed") /\ Fault
  /\ UNCHANGED <<swapFrame, stopper, proj>>

OnSwapDone ==
  /\ LoopFree /\ swap.step = "done" /\ swap' = NoSwap
  /\ UNCHANGED <<swapFrame, cliVars, faults>>

BeginUnload(v) ==
  /\ LoopFree /\ swap = NoSwap /\ cs[v] = "ready" /\ ~Protected(v)
  /\ \E m \in Models \ {v} : Waiting(m)
  /\ swap' = [kind |-> "unload", model |-> v, step |-> "idle"]
  /\ UNCHANGED <<swapFrame, cliVars, faults>>

\* waitIdle
UnloadIdle ==
  /\ Alive /\ swap.kind = "unload" /\ swap.step = "idle"
  /\ \/ Idle(swap.model) /\ SwapGoes("stop") /\ NoFault
     \/ SwapGoes("done") /\ Fault
     \/ ctxDone /\ SwapGoes("done") /\ NoFault
  /\ UNCHANGED <<swapFrame, cliVars>>

\* The client's loop takes a Stop; a load it cuts off has been cancelled.
StopBegins(m, who) ==
  /\ ClientFree(m)
  /\ stopper' = [stopper EXCEPT ![m] = who]
  /\ cs' = [cs EXCEPT ![m] = "stopping"]
  /\ op' = [op EXCEPT ![m] = "none"]
  /\ UNCHANGED proj

UnloadStop ==
  /\ Alive /\ swap.kind = "unload" /\ swap.step = "stop"
  /\ StopBegins(swap.model, "swap") /\ SwapGoes("stopping")
  /\ UNCHANGED <<swapFrame, faults>>

\* doStop answers; only a project seen unloaded counts as stopped.
StopDone(m) ==
  /\ Alive /\ stopper[m] # "none"
  /\ stopper' = [stopper EXCEPT ![m] = "none"]
  /\ \/ /\ proj[m] = "free" \/ ~Working(m)
        /\ proj' = [proj EXCEPT ![m] = "free"]
        /\ cs' = [cs EXCEPT ![m] = "stopped"] /\ NoFault
     \/ /\ proj[m] # "free" /\ Working(m)
        /\ cs' = [cs EXCEPT ![m] = "failed"] /\ NoFault /\ UNCHANGED proj
     \/ cs' = [cs EXCEPT ![m] = "failed"] /\ Fault /\ UNCHANGED proj
  /\ IF stopper[m] = "swap" THEN SwapGoes("done") /\ UNCHANGED rel
     ELSE /\ UNCHANGED swap
          /\ rel' = IF rel = [model |-> m, step |-> "stopping"] /\ cs'[m] = "stopped"
                    THEN [rel EXCEPT !.step = "sample"] ELSE rel
  /\ UNCHANGED <<main, expired, ctxDone, todo, failed, loopVars, reqVars, op>>

-----------------------------------------------------------------------------
(* Recovery: onRecover waits for the client's loop, and for nothing but it and a
   shutdown. *)

BeginApply(m) ==
  /\ LoopFree /\ swap = NoSwap /\ cs[m] \in {"failed", "unknown"}
  /\ \E n \in Models : Waiting(n)
  /\ loop' = "apply" /\ applyTo' = m
  /\ UNCHANGED <<mainVars, reqVars, cliVars, swap, faults>>

Apply ==
  /\ Alive /\ loop = "apply" /\ ClientFree(applyTo)
  /\ loop' = "free" /\ applyTo' = NoModel
  /\ LET m == applyTo IN
     \/ op[m] # "none" /\ UNCHANGED cs
     \/ /\ op[m] = "none" /\ proj[m] = "free" /\ cs' = [cs EXCEPT ![m] = "stopped"]
     \/ /\ op[m] = "none" /\ proj[m] = "held" /\ ~Working(m)
        /\ cs' \in {cs, [cs EXCEPT ![m] = "ready"]}
     \/ op[m] = "none" /\ proj[m] = "held" /\ Working(m) /\ UNCHANGED cs
  /\ UNCHANGED <<mainVars, reqVars, op, stopper, proj, swap, faults>>

-----------------------------------------------------------------------------
(* main after a signal, and Router.Shutdown. *)

mainFrame == <<reqVars, cliVars, swap, faults>>
MainGoes(step) == main' = step

Signal ==
  /\ main = "serving" /\ MainGoes("http")
  /\ UNCHANGED <<expired, ctxDone, todo, failed, rel, loopVars, mainFrame>>

Deadline ==
  /\ main \in {"http", "handshake", "release", "end"} /\ ~expired /\ expired' = TRUE
  /\ UNCHANGED <<main, ctxDone, todo, failed, rel, loopVars, mainFrame>>

\* Mutated: the router is shut down without waiting for the handlers.
HttpShutdown_NoWait ==
  /\ main = "http" /\ MainGoes("handshake")
  /\ UNCHANGED <<expired, ctxDone, todo, failed, rel, loopVars, mainFrame>>

\* httpSrv.Shutdown waits for the handlers or for the deadline.
HttpShutdown ==
  /\ main = "http"
  /\ (\A r \in Requests : req[r] \notin Handlers) \/ expired
  /\ MainGoes("handshake")
  /\ UNCHANGED <<expired, ctxDone, todo, failed, rel, loopVars, mainFrame>>

\* The loop takes the shutdown, also in the middle of a recovery, whose client is then
\* not asked any more (finishShutdown, OnShutdown).
Handshake ==
  /\ main = "handshake"
  /\ \/ /\ loop \in {"free", "apply"} /\ MainGoes("release")
        /\ loop' = "free" /\ applyTo' = NoModel
        /\ req' = [r \in Requests |-> IF req[r] = "queued" THEN "refused" ELSE req[r]]
     \/ expired /\ MainGoes("exit1") /\ UNCHANGED <<loopVars, req>>
  /\ UNCHANGED <<expired, ctxDone, todo, failed, rel, slot, work, cliVars, swap, faults>>

\* releaseOnShutdown, one model after the other.
Released(m) == todo' = todo \ {m} /\ rel' = NoRel /\ UNCHANGED failed
NotReleased(m) == todo' = todo \ {m} /\ rel' = NoRel /\ failed' = failed \cup {m}
RelGoes(step) == rel' = [rel EXCEPT !.step = step] /\ UNCHANGED <<todo, failed>>
relFrame == <<main, expired, ctxDone, loopVars, reqVars, swap>>

RelBegin(m) ==
  /\ main = "release" /\ rel = NoRel /\ m \in todo
  /\ IF expired THEN NotReleased(m)
     ELSE rel' = [model |-> m, step |-> "slots"] /\ UNCHANGED <<todo, failed>>
  /\ UNCHANGED <<relFrame, cliVars, faults>>

\* Mutated: only the slots end the wait.
RelSlots_Forever ==
  /\ rel.step = "slots"
  /\ LoopFree /\ ~Protected(rel.model) /\ RelGoes("state")
  /\ UNCHANGED <<relFrame, cliVars, faults>>

RelSlots ==
  /\ rel.step = "slots"
  /\ \/ LoopFree /\ ~Protected(rel.model) /\ RelGoes("state") /\ NoFault
     \/ expired /\ NotReleased(rel.model) /\ NoFault
     \/ Protected(rel.model) /\ Fault /\ NotReleased(rel.model)   \* drainTimeout
  /\ UNCHANGED <<relFrame, cliVars>>

\* Mutated: a model that is loading is treated like one that is ready.
RelState_StopsLoads ==
  /\ rel.step = "state"
  /\ \/ cs[rel.model] = "stopped" /\ Released(rel.model)
     \/ cs[rel.model] \in {"unknown", "failed", "stopping"} /\ NotReleased(rel.model)
     \/ cs[rel.model] \in {"ready", "starting"} /\ RelGoes("idle")
  /\ UNCHANGED <<relFrame, cliVars, faults>>

RelState ==
  /\ rel.step = "state"
  /\ \/ cs[rel.model] = "stopped" /\ Released(rel.model)
     \/ cs[rel.model] \in {"unknown", "failed", "starting", "stopping"} /\ NotReleased(rel.model)
     \/ cs[rel.model] = "ready" /\ RelGoes("idle")
  /\ UNCHANGED <<relFrame, cliVars, faults>>

RelIdle ==
  /\ rel.step = "idle"
  /\ \/ Idle(rel.model) /\ RelGoes("stop") /\ NoFault
     \/ expired /\ NotReleased(rel.model) /\ NoFault
     \/ Fault /\ NotReleased(rel.model)
  /\ UNCHANGED <<relFrame, cliVars>>

\* Stop(ctx): the client goes on with it when the context ends.
RelStop ==
  /\ \/ rel.step = "stop" /\ StopBegins(rel.model, "release") /\ RelGoes("stopping")
     \/ /\ rel.step \in {"stop", "stopping"} /\ expired
        /\ NotReleased(rel.model) /\ UNCHANGED cliVars
     \/ /\ rel.step = "stopping" /\ ClientFree(rel.model)      \* it has failed
        /\ NotReleased(rel.model) /\ UNCHANGED cliVars
  /\ UNCHANGED <<relFrame, faults>>

\* sampleAfter, which knows no deadline but drainTimeout, and the ledger entry.
RelSample ==
  /\ rel.step = "sample"
  /\ \/ LoopFree /\ Released(rel.model) /\ NoFault
     \/ NotReleased(rel.model) /\ Fault
  /\ UNCHANGED <<relFrame, cliVars>>

\* unconfirmed is noted and the router's context ends; its loop returns.
ReleaseEnds ==
  /\ main = "release" /\ todo = {} /\ loop = "free"
  /\ MainGoes("end") /\ ctxDone' = TRUE
  /\ UNCHANGED <<expired, todo, failed, rel, loopVars, mainFrame>>

LoopEnds ==
  /\ Alive /\ ctxDone /\ loop = "free" /\ loop' = "ended"
  /\ UNCHANGED <<mainVars, applyTo, mainFrame>>

Exit ==
  /\ main = "end"
  /\ \/ loop = "ended" /\ MainGoes(IF failed = {} THEN "exit0" ELSE "exit1")
     \/ expired /\ MainGoes("exit1")
  /\ UNCHANGED <<expired, ctxDone, todo, failed, rel, loopVars, mainFrame>>

-----------------------------------------------------------------------------
Init ==
  /\ main = "boot" /\ expired = FALSE /\ ctxDone = FALSE
  /\ todo = Models /\ failed = {} /\ rel = NoRel
  /\ loop = "free" /\ applyTo = NoModel
  /\ req = [r \in Requests |-> "idle"] /\ slot = {} /\ work = {}
  /\ cs = [m \in Models |-> "unknown"] /\ op = [m \in Models |-> "none"]
  /\ stopper = [m \in Models |-> "none"]
  /\ proj \in [Models -> {"free", "held"}]
  /\ swap = NoSwap /\ faults = 0

LoopStep(r)  == OnRequest(r) \/ Grant(r) \/ Refuse(r) \/ OnServeDone(r)
ServeStep(r) == ProxyStart(r) \/ ServeEnds(r) \/ WorkEnds(r)
ClientStep(m) == WaitLoad(m) \/ OpPost(m) \/ OpWait(m) \/ StopDone(m)
SwapStep     == EnsureReady \/ OnSwapDone \/ UnloadIdle \/ UnloadStop
ShutdownStep == \/ HttpShutdown \/ Handshake \/ RelSlots \/ RelState \/ RelIdle \/ RelStop
                \/ RelSample \/ ReleaseEnds \/ LoopEnds \/ Exit
                \/ \E m \in Models : RelBegin(m)

Next ==
  \/ Reconcile \/ PreloadEnds \/ Signal \/ Deadline \/ SwapStep \/ Apply \/ ShutdownStep
  \/ \E r \in Requests : \/ PreloadSend(r) \/ PreloadDone(r) \/ Arrive(r) \/ ReadBody(r)
                         \/ LoopStep(r) \/ ServeStep(r) \/ HangUp(r) \/ SlotSettles(r)
  \/ \E m \in Models : \/ BeginLoad(m) \/ BeginUnload(m) \/ BeginApply(m) \/ ClientStep(m)

Spec == Init /\ [][Next]_vars

\* Timers fire, goroutines run and the calls they make end; the loop's select, which picks
\* among the ready cases at random, takes the shutdown and what it runs on the loop at
\* last.  A caller may stall in the middle of its body, work may go on for ever, and a slot
\* may stay taken.
Fairness ==
  /\ WF_vars(Deadline) /\ SF_vars(ShutdownStep) /\ WF_vars(Apply) /\ WF_vars(SwapStep)
  /\ \A m \in Models : WF_vars(ClientStep(m))

FairSpec == Spec /\ Fairness

-----------------------------------------------------------------------------
\* Every variable has its type.
TypeOK ==
  /\ main \in MainSteps /\ expired \in BOOLEAN /\ ctxDone \in BOOLEAN
  /\ loop \in {"free", "apply", "ended"} /\ applyTo \in Models \cup {NoModel}
  /\ todo \subseteq Models /\ failed \subseteq Models
  /\ rel \in [model : Models \cup {NoModel}, step : RelSteps]
  /\ req \in [Requests -> ReqSteps] /\ slot \subseteq Requests /\ work \subseteq Requests
  /\ cs \in [Models -> CliStates]
  /\ op \in [Models -> {"none", "gate", "post", "wait"}]
  /\ stopper \in [Models -> {"none", "swap", "release"}]
  /\ proj \in [Models -> {"free", "held"}]
  /\ swap \in [kind : {"none", "load", "unload"}, model : Models \cup {NoModel},
              step : {"none", "start", "wait", "idle", "stop", "stopping", "done"}]
  /\ faults \in 0 .. MaxFaults

\* A model that Shutdown does not report as unconfirmed has left the GPU and does not come
\* back, whatever load, unload or recovery was under way when the signal came.  The exit
\* status 0 says this of all models.
ConfirmedStaysReleased == \A m \in Models \ (todo \cup failed) : proj[m] = "free"

\* Exit status 0 also means that every request whose handler had begun has been answered
\* and that no model process was left working.
NobodyCutOff == main = "exit0" => work = {} /\ \A r \in Requests : req[r] \notin Handlers

\* A Stop never finds a load in flight: not the unload of a swap, and not the release of a
\* shutdown, which comes while a swap may be under way.  The client's loop therefore does
\* not wait for an operation that waits at the gate for the router's loop.
StopFindsNoLoad ==
  [][\A m \in Models : stopper[m] = "none" /\ stopper'[m] # "none" => op[m] = "none"]_vars

\* After a signal the program ends, although a caller stalls in its body, a slot has
\* leaked, a model never becomes idle, or the loop waits for a client.
ShutdownEnds == (main = "http") ~> ~Alive
=============================================================================
