-------------------------------- MODULE Client --------------------------------
(***************************************************************************)
(* One runtime.Client (internal/runtime/client.go): the loop that owns a   *)
(* model's local state, the load operation it runs in a goroutine, and the *)
(* model project it controls over HTTP.                                    *)
(*                                                                         *)
(* The loop receives one event at a time.  Stop keeps it busy from the     *)
(* first status read to the answer (loop # "free"); the load operation     *)
(* runs beside it and reports through opDone.  The project is external: it *)
(* is what the control contract in the README says of it.                  *)
(***************************************************************************)
EXTENDS Naturals, FiniteSets

CONSTANTS
  Callers,     \* callers of EnsureReady, one call each
  HasPrepare,  \* prepare.argv is configured
  MaxCalls,    \* bound: calls of Stop and recovery probes
  MaxFaults    \* bound: refusals, timeouts, lost answers, crashes

ASSUME CallersAssumption == IsFiniteSet(Callers)
ASSUME FlagAssumption == HasPrepare \in BOOLEAN
ASSUME BoundAssumption == MaxCalls \in Nat /\ MaxFaults \in Nat

VARIABLES
  state,     \* local state
  gen,       \* generation: bumped by whatever changes the model's state
  handler,   \* the reverse proxy is installed
  waiters,   \* EnsureReady calls waiting for the load operation
  op,        \* the load operation behind opDone
  loop,      \* "free", or where Stop stands in the loop
  booted,    \* Reconcile has run
  prepBusy,  \* a prepare command counts as running
  children,  \* prepare commands that really run
  caller,    \* per caller: its EnsureReady call
  probe,     \* the recovery probe under way
  proj,      \* the model project
  calls, faults

clientVars == <<state, gen, handler, waiters>>
prepVars   == <<prepBusy, children>>
vars == <<clientVars, op, loop, booted, prepVars, caller, probe, proj, calls, faults>>

States     == {"unknown", "stopped", "starting", "ready", "stopping", "failed", "shutdown"}
\* down: nothing answers at the endpoint; failedFree: failed with residency not_resident;
\* failedHeld: failed with residency resident or unknown.
ProjStates == {"down", "unloaded", "loading", "ready", "unloading", "failedFree", "failedHeld"}
OpSteps    == {"none", "status", "prepare", "preparing", "recheck", "gate", "post", "posted",
               "observe", "wait", "done"}
StopSteps  == {"free", "awaitOp", "status", "post", "posted", "observe"}
CallSteps  == {"idle", "waiting", "ok", "err", "gone"}
Classes    == {"none", "readyIdle", "notResident", "other"}

Ops     == [step : OpSteps, gen : Nat, failed : BOOLEAN, cancelled : BOOLEAN]
Probes  == [begun : BOOLEAN, gen : Nat, class : Classes]
NoOp    == [step |-> "none", gen |-> 0, failed |-> FALSE, cancelled |-> FALSE]
NoProbe == [begun |-> FALSE, gen |-> 0, class |-> "none"]

Fault   == faults < MaxFaults /\ faults' = faults + 1
NoFault == faults' = faults
Call    == calls < MaxCalls /\ calls' = calls + 1

\* GET /control/status: what the project is, or a timeout or a broken answer.
FetchStatus(ans) == IF ans = "error" THEN Fault ELSE ans = proj /\ NoFault
Answers == ProjStates \cup {"error"}

InFlight == op.step # "none"
Free     == booted /\ loop = "free" /\ state # "shutdown"

-----------------------------------------------------------------------------
(* The loop: loads. *)

StartOp(g) == op' = [NoOp EXCEPT !.step = "status", !.gen = g]

\* notify: every waiter that has not left is told.
Notify(failed) ==
  /\ caller' = [c \in Callers |-> IF c \in waiters /\ caller[c] = "waiting"
                                  THEN IF failed THEN "err" ELSE "ok"
                                  ELSE caller[c]]
  /\ waiters' = {}

Reconcile ==
  /\ ~booted
  /\ booted' = TRUE
  /\ \E ans \in Answers :
       /\ FetchStatus(ans)
       /\ handler' = (ans = "ready")
       /\ state' = CASE ans = "ready"                      -> "ready"
                     [] ans = "unloaded"                   -> "stopped"
                     [] ans = "loading"                    -> "starting"
                     [] ans = "unloading"                  -> "stopping"
                     [] ans \in {"failedFree", "failedHeld"} -> "failed"
                     [] OTHER                              -> "unknown"
       /\ IF ans = "loading"
          THEN gen' = gen + 2 /\ StartOp(gen + 2)
          ELSE gen' = gen + 1 /\ UNCHANGED op
  /\ UNCHANGED <<waiters, loop, prepVars, caller, probe, proj, calls>>

EnsureReady(c) ==
  /\ booted /\ loop = "free" /\ caller[c] = "idle"
  /\ \/ /\ state = "shutdown"
        /\ caller' = [caller EXCEPT ![c] = "err"]
        /\ UNCHANGED <<clientVars, op>>
     \/ /\ state = "ready"
        /\ caller' = [caller EXCEPT ![c] = "ok"]
        /\ UNCHANGED <<clientVars, op>>
     \/ /\ state = "starting"
        /\ caller' = [caller EXCEPT ![c] = "waiting"]
        /\ waiters' = waiters \cup {c}
        /\ UNCHANGED <<state, gen, handler, op>>
     \/ /\ state \notin {"shutdown", "ready", "starting"}
        /\ caller' = [caller EXCEPT ![c] = "waiting"]
        /\ waiters' = waiters \cup {c}
        /\ state' = "starting"
        /\ gen' = gen + 1
        /\ StartOp(gen + 1)
        /\ UNCHANGED handler
  /\ UNCHANGED <<loop, booted, prepVars, probe, proj, calls, faults>>

\* The caller's context ends; the load goes on.
CallerLeaves(c) ==
  /\ caller[c] = "waiting"
  /\ caller' = [caller EXCEPT ![c] = "gone"]
  /\ Fault
  /\ UNCHANGED <<clientVars, op, loop, booted, prepVars, probe, proj, calls>>

\* Mutated: waiters are told of success whatever the operation brought.
OnOpDone_AlwaysOk ==
  /\ Free /\ op.step = "done"
  /\ op' = NoOp
  /\ IF op.gen = gen
     THEN /\ handler' = ~op.failed
          /\ state' = IF op.failed THEN "failed" ELSE "ready"
          /\ Notify(FALSE)
     ELSE UNCHANGED <<handler, state, caller, waiters>>
  /\ UNCHANGED <<gen, loop, booted, prepVars, probe, proj, calls, faults>>

\* Mutated: a failed load leaves the state as it was.
OnOpDone_StaysStarting ==
  /\ Free /\ op.step = "done"
  /\ op' = NoOp
  /\ IF op.gen = gen
     THEN /\ handler' = ~op.failed
          /\ state' = IF op.failed THEN state ELSE "ready"
          /\ Notify(op.failed)
     ELSE UNCHANGED <<handler, state, caller, waiters>>
  /\ UNCHANGED <<gen, loop, booted, prepVars, probe, proj, calls, faults>>

\* The operation reports.  A result of an older generation is dropped.
OnOpDone ==
  /\ Free /\ op.step = "done"
  /\ op' = NoOp
  /\ IF op.gen = gen
     THEN /\ handler' = ~op.failed
          /\ state' = IF op.failed THEN "failed" ELSE "ready"
          /\ Notify(op.failed)
     ELSE UNCHANGED <<handler, state, caller, waiters>>
  /\ UNCHANGED <<gen, loop, booted, prepVars, probe, proj, calls, faults>>

Shutdown ==
  /\ Free
  /\ Fault
  /\ state' = "shutdown"
  /\ handler' = FALSE
  /\ op' = [op EXCEPT !.cancelled = InFlight]
  /\ Notify(TRUE)
  /\ UNCHANGED <<gen, loop, booted, prepVars, probe, proj, calls>>

-----------------------------------------------------------------------------
(* The load operation: doEnsure. *)

OpAt(step) == op.step = step /\ ~op.cancelled
OpGoes(step) == op' = [op EXCEPT !.step = step]
OpEnds(failed) == op' = [op EXCEPT !.step = "done", !.failed = failed]

opFrame == <<clientVars, loop, booted, caller, probe, calls>>

\* ensureFromStatus up to the load gate.
EnsureFrom(ans) ==
  \/ ans = "ready" /\ OpEnds(FALSE)
  \/ ans = "loading" /\ OpGoes("wait")
  \/ ans \in {"unloaded", "failedFree"} /\ OpGoes("gate")
  \/ ans \in {"unloading", "failedHeld", "error", "down"} /\ OpEnds(TRUE)

\* isEndpointDown also takes a reset or cut connection for an endpoint that is down.
OpStatus ==
  /\ OpAt("status")
  /\ \E ans \in Answers :
       /\ FetchStatus(ans)
       /\ \/ ans \in {"down", "error"} /\ OpGoes("prepare")
          \/ ans # "down" /\ EnsureFrom(ans)
  /\ UNCHANGED <<opFrame, prepVars, proj>>

\* runPrepare: one prepare command at a time.
OpPrepare ==
  /\ OpAt("prepare")
  /\ IF HasPrepare /\ ~prepBusy
     THEN OpGoes("preparing") /\ prepBusy' = TRUE /\ children' = children + 1
     ELSE OpEnds(TRUE) /\ UNCHANGED prepVars
  /\ UNCHANGED <<opFrame, proj, faults>>

\* Mutated: a prepare that timed out no longer counts as running.
OpPrepareTimeout_Frees ==
  /\ OpAt("preparing")
  /\ OpEnds(TRUE)
  /\ prepBusy' = FALSE
  /\ Fault
  /\ UNCHANGED <<opFrame, children, proj>>

\* The command is given up, but counts as running until it ends.
OpPrepareTimeout ==
  /\ OpAt("preparing")
  /\ OpEnds(TRUE)
  /\ Fault
  /\ UNCHANGED <<opFrame, prepVars, proj>>

\* A prepare command ends, well or not; it may have started the project.
PrepareEnds ==
  /\ children > 0
  /\ children' = children - 1
  /\ prepBusy' = FALSE
  /\ IF proj = "down" THEN proj' \in {"down", "unloaded"} ELSE UNCHANGED proj
  /\ \/ OpAt("preparing") /\ OpGoes("recheck") /\ NoFault
     \/ OpAt("preparing") /\ OpEnds(TRUE) /\ Fault
     \/ ~OpAt("preparing") /\ UNCHANGED op /\ NoFault
  /\ UNCHANGED opFrame

OpRecheck ==
  /\ OpAt("recheck")
  /\ \E ans \in Answers : FetchStatus(ans) /\ EnsureFrom(ans)
  /\ UNCHANGED <<opFrame, prepVars, proj>>

\* waitLoadGate: Router.WaitLoad admits the load or refuses it.
OpGate ==
  /\ OpAt("gate")
  /\ \/ OpGoes("post") /\ NoFault
     \/ OpEnds(TRUE) /\ Fault
  /\ UNCHANGED <<opFrame, prepVars, proj>>

\* POST /control/load reaches the project, or fails or times out before it does.
OpPost ==
  /\ OpAt("post")
  /\ \/ /\ proj \in {"unloaded", "failedFree"}
        /\ proj' = "loading"
        /\ OpGoes("posted")
        /\ NoFault
     \/ /\ proj \notin {"unloaded", "failedFree"}
        /\ OpEnds(TRUE)
        /\ NoFault
        /\ UNCHANGED proj
     \/ (OpEnds(TRUE) \/ OpGoes("observe")) /\ Fault /\ UNCHANGED proj
  /\ UNCHANGED <<opFrame, prepVars>>

\* Its answer, a broken one, or a timeout after which the status is read once more.
OpPosted ==
  /\ OpAt("posted")
  /\ \/ proj = "ready" /\ OpEnds(FALSE) /\ NoFault
     \/ proj \notin {"ready", "loading"} /\ OpEnds(TRUE) /\ NoFault
     \/ (OpEnds(TRUE) \/ OpGoes("observe")) /\ Fault
  /\ UNCHANGED <<opFrame, prepVars, proj>>

\* Mutated: after a timeout a project that is loading counts as loaded.
OpObserve_Trusts ==
  /\ OpAt("observe")
  /\ \E ans \in Answers : FetchStatus(ans) /\ OpEnds(ans \notin {"ready", "loading"})
  /\ UNCHANGED <<opFrame, prepVars, proj>>

\* The status after a POST that timed out.
OpObserve ==
  /\ OpAt("observe")
  /\ \E ans \in Answers :
       /\ FetchStatus(ans)
       /\ \/ ans = "ready" /\ OpEnds(FALSE)
          \/ ans = "loading" /\ OpGoes("wait")
          \/ ans \notin {"ready", "loading"} /\ OpEnds(TRUE)
  /\ UNCHANGED <<opFrame, prepVars, proj>>

\* waitReady: polls until the project has decided or the deadline passes.
OpWait ==
  /\ OpAt("wait")
  /\ \/ proj = "ready" /\ OpEnds(FALSE)
     \/ OpEnds(TRUE)
  /\ NoFault
  /\ UNCHANGED <<opFrame, prepVars, proj>>

\* opCancel: whatever the operation waits for is given up.
OpCancelled ==
  /\ op.cancelled /\ op.step \notin {"none", "done"}
  /\ OpEnds(TRUE)
  /\ UNCHANGED <<opFrame, prepVars, proj, faults>>

OpStep == \/ OpStatus \/ OpPrepare \/ OpPrepareTimeout \/ OpRecheck \/ OpGate \/ OpPost
          \/ OpPosted \/ OpObserve \/ OpWait \/ OpCancelled

-----------------------------------------------------------------------------
(* The loop: Stop, which keeps it until it has answered. *)

stopFrame == <<gen, booted, prepVars, probe, calls>>

StopBegins == state' = "stopping" /\ loop' = "status" /\ op' = NoOp

Stop ==
  /\ Free /\ Call
  /\ gen' = gen + 1
  /\ IF InFlight
     THEN /\ op' = [op EXCEPT !.cancelled = TRUE]
          /\ loop' = "awaitOp"
          /\ UNCHANGED state
     ELSE StopBegins
  /\ UNCHANGED <<handler, waiters, booted, prepVars, caller, probe, proj, faults>>

StopAwaitsOp ==
  /\ loop = "awaitOp" /\ op.step = "done"
  /\ StopBegins
  /\ UNCHANGED <<stopFrame, handler, waiters, caller, proj, faults>>

\* Mutated: waiters of the load that was cut off are forgotten.
StopEnds_NoNotify(failed) ==
  /\ loop' = "free"
  /\ handler' = FALSE
  /\ state' = IF failed THEN "failed" ELSE "stopped"
  /\ waiters' = {}
  /\ UNCHANGED caller

StopEnds(failed) ==
  /\ loop' = "free"
  /\ handler' = FALSE
  /\ state' = IF failed THEN "failed" ELSE "stopped"
  /\ Notify(failed)

StopStays == UNCHANGED <<handler, state, caller, waiters>>

\* doStop reads the status first; a busy or a loading project is left alone.
StopStatus ==
  /\ loop = "status"
  /\ \E ans \in Answers :
       \/ FetchStatus(ans) /\ ans = "unloaded" /\ StopEnds(FALSE)
       \/ FetchStatus(ans) /\ ans \in {"error", "down", "loading"} /\ StopEnds(TRUE)
       \/ /\ FetchStatus(ans) /\ ans \in {"ready", "unloading", "failedFree", "failedHeld"}
          /\ loop' = "post" /\ StopStays
       \/ ans = proj /\ ans \notin {"unloaded", "down"} /\ Fault /\ StopEnds(TRUE)
  /\ UNCHANGED <<stopFrame, op, proj>>

\* POST /control/unload reaches the project, is refused, or times out before it does.
StopPost ==
  /\ loop = "post"
  /\ \/ /\ proj # "down"
        /\ proj' = IF proj = "unloaded" THEN proj ELSE "unloading"
        /\ loop' = "posted" /\ StopStays
        /\ NoFault
     \/ proj = "down" /\ UNCHANGED proj /\ StopEnds(TRUE) /\ NoFault
     \/ proj # "down" /\ UNCHANGED proj /\ StopEnds(TRUE) /\ Fault
     \/ Fault /\ UNCHANGED proj /\ loop' = "observe" /\ StopStays
  /\ UNCHANGED <<stopFrame, op>>

StopPosted ==
  /\ loop = "posted"
  /\ \/ proj = "unloaded" /\ NoFault /\ StopEnds(FALSE)
     \/ proj \notin {"unloaded", "unloading"} /\ NoFault /\ StopEnds(TRUE)
     \/ proj \in {"unloaded", "unloading"} /\ Fault /\ StopEnds(TRUE)
     \/ Fault /\ loop' = "observe" /\ StopStays
  /\ UNCHANGED <<stopFrame, op, proj>>

\* After a timeout only an observed unloaded project counts.
StopObserve ==
  /\ loop = "observe"
  /\ \E ans \in Answers : FetchStatus(ans) /\ StopEnds(ans # "unloaded")
  /\ UNCHANGED <<stopFrame, op, proj>>

StopStep == StopAwaitsOp \/ StopStatus \/ StopPost \/ StopPosted \/ StopObserve

-----------------------------------------------------------------------------
(* Recovery: the router reads the status of a model whose state it does not know
   and hands it to the loop (RecoveryReqs). *)

\* planRecovery never picks a model that is loading.
ProbeBegins ==
  /\ Free /\ ~InFlight /\ ~probe.begun
  /\ Call
  /\ probe' = [NoProbe EXCEPT !.begun = TRUE, !.gen = gen]
  /\ UNCHANGED <<clientVars, op, loop, booted, prepVars, caller, proj, faults>>

\* ClassifyRecovery; a status that cannot be read is not handed to the client.
ProbeReads ==
  /\ probe.begun /\ probe.class = "none"
  /\ \E ans \in Answers :
       /\ FetchStatus(ans)
       /\ \/ ans \in {"down", "error"} /\ probe' = NoProbe
          \/ ans = "ready" /\ probe' = [probe EXCEPT !.class = "readyIdle"]
          \/ /\ ans \in {"unloaded", "failedFree"}
             /\ probe' = [probe EXCEPT !.class = "notResident"]
          \/ /\ ans \in {"loading", "unloading", "failedHeld"}
             /\ probe' = [probe EXCEPT !.class = "other"]
  /\ UNCHANGED <<clientVars, op, loop, booted, prepVars, caller, proj, calls>>

\* Mutated: the remote class is stored as the local state.
AcceptApply_ClassAsState ==
  /\ gen' = gen + 1
  /\ handler' = (probe.class = "readyIdle")
  /\ state' = probe.class

\* acceptApply
AcceptApply ==
  /\ gen' = gen + 1
  /\ \/ probe.class = "readyIdle" /\ handler' = TRUE /\ state' = "ready"
     \/ probe.class = "notResident" /\ handler' = FALSE /\ state' = "stopped"
     \/ probe.class = "other" /\ UNCHANGED <<handler, state>>

\* Mutated: the generation is not compared.
Apply_AnyGen ==
  /\ Free /\ probe.class # "none"
  /\ probe' = NoProbe
  /\ IF ~InFlight THEN AcceptApply ELSE UNCHANGED <<gen, handler, state>>
  /\ UNCHANGED <<waiters, op, loop, booted, prepVars, caller, proj, calls, faults>>

\* Busy while a load is in flight, stale when the generation has moved on.
Apply ==
  /\ Free /\ probe.class # "none"
  /\ probe' = NoProbe
  /\ IF ~InFlight /\ probe.gen = gen THEN AcceptApply ELSE UNCHANGED <<gen, handler, state>>
  /\ UNCHANGED <<waiters, op, loop, booted, prepVars, caller, proj, calls, faults>>

-----------------------------------------------------------------------------
(* The model project. *)

ProjWorks ==
  /\ \/ proj = "loading" /\ proj' = "ready" /\ NoFault
     \/ proj = "loading" /\ proj' \in {"failedFree", "failedHeld"} /\ Fault
     \/ proj = "unloading" /\ proj' = "unloaded" /\ NoFault
     \/ proj = "unloading" /\ proj' = "failedHeld" /\ Fault
  /\ UNCHANGED <<clientVars, op, loop, booted, prepVars, caller, probe, calls>>

\* It dies, which frees its memory.
ProjDies ==
  /\ proj # "down" /\ proj' = "down" /\ Fault
  /\ UNCHANGED <<clientVars, op, loop, booted, prepVars, caller, probe, calls>>

-----------------------------------------------------------------------------
Init ==
  /\ state = "unknown" /\ gen = 0 /\ handler = FALSE /\ waiters = {}
  /\ op = NoOp /\ loop = "free" /\ booted = FALSE
  /\ prepBusy = FALSE /\ children = 0
  /\ caller = [c \in Callers |-> "idle"]
  /\ probe = NoProbe
  /\ proj \in ProjStates
  /\ calls = 0 /\ faults = 0

Next ==
  \/ Reconcile \/ OnOpDone \/ Shutdown \/ OpStep \/ PrepareEnds
  \/ Stop \/ StopStep
  \/ ProbeBegins \/ ProbeReads \/ Apply
  \/ ProjWorks \/ ProjDies
  \/ \E c \in Callers : EnsureReady(c) \/ CallerLeaves(c)

Spec == Init /\ [][Next]_vars

\* Goroutines run and HTTP calls end (each has a deadline); the loop's select takes a
\* ready opDone eventually.  Nobody has to call anything, and nothing has to fail.
Fairness ==
  /\ WF_vars(OpStep) /\ WF_vars(StopStep) /\ WF_vars(ProjWorks) /\ WF_vars(PrepareEnds)
  /\ SF_vars(OnOpDone)

FairSpec == Spec /\ Fairness

-----------------------------------------------------------------------------
\* Every variable has its type: the local state is one of the states of runtime.go.
TypeOK ==
  /\ state \in States /\ gen \in Nat /\ handler \in BOOLEAN /\ waiters \subseteq Callers
  /\ op \in Ops
  /\ loop \in StopSteps /\ booted \in BOOLEAN
  /\ prepBusy \in BOOLEAN /\ children \in Nat
  /\ caller \in [Callers -> CallSteps]
  /\ probe \in Probes
  /\ proj \in ProjStates /\ calls \in Nat /\ faults \in Nat

\* A model the client calls stopped occupies no memory: the router then counts only its
\* residual bound (boundFor).  A Stop, a failed load, a late probe result or a Reconcile
\* must never leave "stopped" over a project that is loaded or loading.
StoppedMeansFree ==
  state = "stopped" => proj \in {"down", "unloaded", "failedFree"}

\* "While that child is still running, another prepare is not started": not even when
\* the load that started it gave up or was cut off (runPrepare, finish).
OnePrepare == children <= 1

\* The local state "starting" means that an operation will end it, and only then: no
\* caller of EnsureReady is left waiting on a load that nobody runs.
StartingHasOp ==
  booted =>
    /\ state = "starting" <=> InFlight /\ state # "shutdown"
    /\ waiters # {} => InFlight \/ loop # "free"

\* The project is loaded, or has died since: that is a fault, and a prepare command left
\* behind by a load that gave up may then have started it again, unloaded.
Loaded == proj = "ready" \/ (faults > 0 /\ proj \in {"down", "unloaded"})

\* A model the client calls ready is loaded, and requests are forwarded to it: neither a
\* load whose POST timed out (ensureFromStatus), nor a late probe result, nor a Reconcile
\* makes ready what is still loading, is being unloaded, has failed or was unloaded.
ReadyIsLoaded == state = "ready" => handler /\ Loaded

\* EnsureReady answers nil only when the model is ready and its project loaded (OnSwapDone
\* then dispatches to it).  The one exception is a Stop that takes over a load: it hands
\* its own result to the waiters, nil for a model that is now stopped; the router never
\* stops a model that is loading (StopFindsNoLoad of module Service).
ReadyAnswerIsTrue ==
  [][\A c \in Callers : caller[c] # "ok" /\ caller'[c] = "ok" =>
        (state' = "ready" /\ Loaded') \/ loop # "free"]_vars

\* Every EnsureReady call is answered, also when Stop cuts its load off or the client
\* shuts down.
CallersAnswered ==
  \A c \in Callers : (caller[c] = "waiting") ~> (caller[c] # "waiting")
=============================================================================
