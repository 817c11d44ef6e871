----------------------------- MODULE ClientProofs -----------------------------
(***************************************************************************)
(* For any number of callers, Stops, probes and faults: a client that      *)
(* calls its model stopped has no memory in use, "starting" always has a   *)
(* load operation behind it, prepare commands never overlap, and "ready",  *)
(* like nil from EnsureReady, means that the project is loaded.            *)
(***************************************************************************)
EXTENDS Client, TLAPS

FreeStates == {"down", "unloaded", "failedFree"}

\* The inductive invariant: a prepare command that runs is the one that counts; a load operation
\* has the current generation until a Stop takes over; Stop has the loop to itself; and
\* whatever could change the project moves the generation past a probe already begun.
ClientInv ==
  /\ children = IF prepBusy THEN 1 ELSE 0
  /\ ~booted => state = "unknown" /\ ~InFlight /\ loop = "free" /\ waiters = {} /\ ~probe.begun
  /\ loop \notin {"free", "awaitOp"} => state = "stopping" /\ ~InFlight
  /\ loop = "awaitOp" => state = "starting"
  /\ loop = "free" /\ InFlight /\ state # "shutdown" => op.gen = gen
  /\ probe.begun /\ (InFlight \/ loop # "free") => probe.gen < gen
  /\ probe.begun => probe.gen <= gen
  /\ probe.class # "none" => probe.begun
  /\ probe.class = "notResident" /\ probe.gen = gen => proj \in FreeStates
  /\ StartingHasOp /\ StoppedMeansFree

IInv == TypeOK /\ ClientInv

-----------------------------------------------------------------------------
(* Types. *)

\* The load operations that the actions build.
LEMMA OpTypes ==
  /\ NoOp \in Ops
  /\ \A g \in Nat : StartOp(g) => op' \in Ops
  /\ \A step \in OpSteps : TypeOK /\ OpGoes(step) => op' \in Ops
  /\ \A f \in BOOLEAN : TypeOK /\ OpEnds(f) => op' \in Ops
<1>1. NoOp \in Ops BY DEF NoOp, Ops, OpSteps
<1>2. \A g \in Nat : StartOp(g) => op' \in Ops BY DEF StartOp, NoOp, Ops, OpSteps
<1>3. \A step \in OpSteps : TypeOK /\ OpGoes(step) => op' \in Ops BY DEF OpGoes, TypeOK, Ops
<1>4. \A f \in BOOLEAN : TypeOK /\ OpEnds(f) => op' \in Ops BY DEF OpEnds, TypeOK, Ops, OpSteps
<1> QED BY <1>1, <1>2, <1>3, <1>4

\* What OpGoes, OpEnds and StartOp leave of the operation.
LEMMA OpEffects ==
  ASSUME TypeOK
  PROVE  /\ \A step \in OpSteps : OpGoes(step) => op'.step = step /\ op'.gen = op.gen
         /\ \A f \in BOOLEAN : OpEnds(f) => op'.step = "done" /\ op'.gen = op.gen
         /\ \A g \in Nat : StartOp(g) => op'.step = "status" /\ op'.gen = g
BY DEF TypeOK, Ops, OpSteps, OpGoes, OpEnds, StartOp, NoOp

\* notify answers callers and forgets waiters.
LEMMA NotifyTypes ==
  ASSUME TypeOK, NEW f, Notify(f)
  PROVE  caller' \in [Callers -> CallSteps] /\ waiters' = {}
BY DEF TypeOK, CallSteps, Notify

\* The number of faults stays a number.
LEMMA FaultType == ASSUME TypeOK, Fault \/ NoFault PROVE faults' \in Nat
BY DEF TypeOK, Fault, NoFault

\* The number of calls stays a number.
LEMMA CallType == ASSUME TypeOK, Call PROVE calls' \in Nat
BY DEF TypeOK, Call

\* Whatever the loop answers when Stop ends.
LEMMA StopEndsTypes ==
  ASSUME TypeOK, NEW f, StopEnds(f)
  PROVE  /\ caller' \in [Callers -> CallSteps] /\ waiters' = {} /\ handler' = FALSE
         /\ loop' = "free" /\ state' \in {"stopped", "failed"}
BY NotifyTypes DEF StopEnds

\* The types of what Reconcile, callers, Shutdown and the end of an operation change.
LEMMA LoopTypes ==
  ASSUME TypeOK, Reconcile \/ OnOpDone \/ Shutdown \/ \E c \in Callers : EnsureReady(c) \/ CallerLeaves(c)
  PROVE  TypeOK'
<1> USE DEF clientVars, prepVars
<1>1. CASE Reconcile
  <2>1. PICK ans \in Answers :
          /\ FetchStatus(ans) /\ handler' = (ans = "ready") /\ state' \in States
          /\ \/ gen' = gen + 2 /\ StartOp(gen + 2)
             \/ gen' = gen + 1 /\ op' = op
    BY <1>1 DEF Reconcile, States
  <2>2. faults' \in Nat BY <2>1, FaultType DEF FetchStatus
  <2>3. op' \in Ops /\ gen' \in Nat BY <2>1, OpTypes DEF TypeOK
  <2>4. handler' \in BOOLEAN BY <2>1, Zenon
  <2> QED BY <1>1, <2>1, <2>2, <2>3, <2>4 DEF Reconcile, TypeOK
<1>2. CASE OnOpDone
  <2>1. op' \in Ops BY <1>2, OpTypes DEF OnOpDone
  <2>2. caller' \in [Callers -> CallSteps] /\ waiters' \subseteq Callers
    BY <1>2, NotifyTypes DEF OnOpDone, TypeOK
  <2>3. state' \in States BY <1>2 DEF OnOpDone, TypeOK, States
  <2>4. handler' = handler \/ handler' = ~op.failed BY <1>2 DEF OnOpDone
  <2>5. handler' \in BOOLEAN BY <2>4, Zenon DEF TypeOK
  <2> QED BY <1>2, <2>1, <2>2, <2>3, <2>5 DEF OnOpDone, TypeOK
<1>3. CASE Shutdown
  <2>1. InFlight \in BOOLEAN BY Zenon DEF InFlight
  <2>2. op' \in Ops BY <1>3, <2>1 DEF Shutdown, TypeOK, Ops
  <2>3. caller' \in [Callers -> CallSteps] /\ waiters' = {} BY <1>3, NotifyTypes DEF Shutdown
  <2>4. faults' \in Nat BY <1>3, FaultType DEF Shutdown
  <2> QED BY <1>3, <2>2, <2>3, <2>4 DEF Shutdown, TypeOK, States
<1>4. ASSUME NEW c \in Callers, EnsureReady(c) PROVE TypeOK'
  <2>1. caller' \in [Callers -> CallSteps] BY <1>4 DEF EnsureReady, TypeOK, CallSteps
  <2>2. op' = op \/ StartOp(gen + 1) BY <1>4 DEF EnsureReady
  <2>3. op' \in Ops BY <2>2, OpTypes DEF TypeOK
  <2>4. state' \in States BY <1>4 DEF EnsureReady, TypeOK, States
  <2> QED BY <1>4, <2>1, <2>3, <2>4 DEF EnsureReady, TypeOK
<1>5. ASSUME NEW c \in Callers, CallerLeaves(c) PROVE TypeOK'
  <2>1. caller' \in [Callers -> CallSteps] BY <1>5 DEF CallerLeaves, TypeOK, CallSteps
  <2>2. faults' \in Nat BY <1>5, FaultType DEF CallerLeaves
  <2> QED BY <1>5, <2>1, <2>2 DEF CallerLeaves, TypeOK
<1> QED BY <1>1, <1>2, <1>3, <1>4, <1>5

\* The load operation changes itself, the prepare counters and the project.
LEMMA OpStepTypes ==
  ASSUME TypeOK, OpStep \/ PrepareEnds
  PROVE  /\ op' \in Ops /\ prepBusy' \in BOOLEAN /\ children' \in Nat /\ proj' \in ProjStates
         /\ faults' \in Nat
         /\ UNCHANGED <<state, gen, handler, waiters, loop, booted, caller, probe, calls>>
<1> USE DEF opFrame, clientVars, prepVars
<1>1. UNCHANGED <<state, gen, handler, waiters, loop, booted, caller, probe, calls>>
  BY DEF OpStep, PrepareEnds, OpStatus, OpPrepare, OpPrepareTimeout, OpRecheck, OpGate, OpPost, OpPosted,
         OpObserve, OpWait, OpCancelled
<1>2. \/ \E step \in OpSteps : OpGoes(step)
      \/ \E f \in BOOLEAN : OpEnds(f)
      \/ op' = op
  BY DEF OpStep, PrepareEnds, OpStatus, OpPrepare, OpPrepareTimeout, OpRecheck, OpGate, OpPost, OpPosted,
         OpObserve, OpWait, OpCancelled, EnsureFrom, OpSteps
<1>3. op' \in Ops BY <1>2, OpTypes DEF TypeOK
<1>4. Fault \/ NoFault
  BY DEF OpStep, PrepareEnds, OpStatus, OpPrepare, OpPrepareTimeout, OpRecheck, OpGate, OpPost, OpPosted,
         OpObserve, OpWait, OpCancelled, FetchStatus, NoFault
<1>5. faults' \in Nat BY <1>4, FaultType
<1>6. proj' \in ProjStates
  BY DEF OpStep, PrepareEnds, OpStatus, OpPrepare, OpPrepareTimeout, OpRecheck, OpGate, OpPost, OpPosted,
         OpObserve, OpWait, OpCancelled, TypeOK, ProjStates
<1>7. prepBusy' \in BOOLEAN /\ children' \in Nat
  <2>1. \/ UNCHANGED <<prepBusy, children>>
        \/ prepBusy' = TRUE /\ children' = children + 1
        \/ prepBusy' = FALSE /\ children > 0 /\ children' = children - 1
    BY DEF OpStep, PrepareEnds, OpStatus, OpPrepare, OpPrepareTimeout, OpRecheck, OpGate, OpPost,
           OpPosted, OpObserve, OpWait, OpCancelled
  <2>2. children' \in Nat BY <2>1 DEF TypeOK
  <2>3. prepBusy' \in BOOLEAN BY <2>1 DEF TypeOK
  <2> QED BY <2>2, <2>3
<1> QED BY <1>1, <1>3, <1>5, <1>6, <1>7

\* The types of what a Stop changes.
LEMMA StopTypes ==
  ASSUME TypeOK, Stop \/ StopStep
  PROVE  TypeOK'
<1> USE DEF clientVars, prepVars, stopFrame
<1>1. CASE Stop
  <2>1. op' = [op EXCEPT !.cancelled = TRUE] \/ op' = NoOp BY <1>1 DEF Stop, StopBegins
  <2>2. op' \in Ops
    <3>1. [op EXCEPT !.cancelled = TRUE] \in Ops BY DEF TypeOK, Ops
    <3> QED BY <2>1, <3>1, OpTypes
  <2>3. calls' \in Nat BY <1>1, CallType DEF Stop
  <2>4. state' \in States /\ loop' \in StopSteps
    BY <1>1 DEF Stop, StopBegins, TypeOK, States, StopSteps
  <2> QED BY <1>1, <2>2, <2>3, <2>4 DEF Stop, TypeOK
<1>2. CASE StopAwaitsOp
  BY <1>2, OpTypes DEF StopAwaitsOp, StopBegins, TypeOK, States, StopSteps
<1>3. CASE StopStatus \/ StopPost \/ StopPosted \/ StopObserve
  <2>1. (\E f \in BOOLEAN : StopEnds(f)) \/ (StopStays /\ loop' \in StopSteps)
    <3>1. CASE StopObserve
      <4>1. PICK ans \in Answers : StopEnds(ans # "unloaded") BY <3>1 DEF StopObserve
      <4>2. (ans # "unloaded") \in BOOLEAN BY Zenon
      <4> QED BY <4>1, <4>2
    <3>2. CASE StopStatus \/ StopPost \/ StopPosted
      BY <3>2 DEF StopStatus, StopPost, StopPosted, StopSteps
    <3> QED BY <1>3, <3>1, <3>2
  <2>2. /\ caller' \in [Callers -> CallSteps] /\ waiters' \subseteq Callers /\ handler' \in BOOLEAN
        /\ loop' \in StopSteps /\ state' \in States
    BY <2>1, StopEndsTypes DEF StopStays, TypeOK, StopSteps, States
  <2>3. Fault \/ NoFault BY <1>3 DEF StopStatus, StopPost, StopPosted, StopObserve, FetchStatus
  <2>4. proj' \in ProjStates
    BY <1>3 DEF StopStatus, StopPost, StopPosted, StopObserve, TypeOK, ProjStates
  <2>5. UNCHANGED <<gen, booted, prepBusy, children, probe, calls, op>>
    BY <1>3 DEF StopStatus, StopPost, StopPosted, StopObserve
  <2> QED BY <2>2, <2>3, <2>4, <2>5, FaultType DEF TypeOK
<1> QED BY <1>1, <1>2, <1>3 DEF StopStep

\* The types of what probes and the project change.
LEMMA ProbeTypes ==
  ASSUME TypeOK, ProbeBegins \/ ProbeReads \/ Apply \/ ProjWorks \/ ProjDies
  PROVE  TypeOK'
<1> USE DEF clientVars, prepVars
<1>1. NoProbe \in Probes BY DEF NoProbe, Probes, Classes
<1>2. CASE ProbeBegins
  <2>1. probe' \in Probes BY <1>2 DEF ProbeBegins, NoProbe, Probes, Classes, TypeOK
  <2> QED BY <1>2, <2>1, CallType DEF ProbeBegins, TypeOK
<1>3. CASE ProbeReads
  <2>1. probe' = NoProbe \/ \E class \in Classes : probe' = [probe EXCEPT !.class = class]
    BY <1>3 DEF ProbeReads, Classes
  <2>2. \A class \in Classes : [probe EXCEPT !.class = class] \in Probes BY DEF TypeOK, Probes
  <2>3. Fault \/ NoFault BY <1>3 DEF ProbeReads, FetchStatus
  <2> QED BY <1>1, <1>3, <2>1, <2>2, <2>3, FaultType DEF ProbeReads, TypeOK
<1>4. CASE Apply
  <2>1. gen' \in Nat /\ state' \in States BY <1>4 DEF Apply, AcceptApply, TypeOK, States
  <2>2. handler' = handler \/ handler' = TRUE \/ handler' = FALSE BY <1>4 DEF Apply, AcceptApply
  <2>3. handler' \in BOOLEAN BY <2>2, Zenon DEF TypeOK
  <2> QED BY <1>1, <1>4, <2>1, <2>3 DEF Apply, TypeOK
<1>5. CASE ProjWorks \/ ProjDies
  <2>1. Fault \/ NoFault BY <1>5 DEF ProjWorks, ProjDies
  <2>2. proj' \in ProjStates BY <1>5 DEF ProjWorks, ProjDies, ProjStates
  <2> QED BY <1>5, <2>1, <2>2, FaultType DEF ProjWorks, ProjDies, TypeOK
<1> QED BY <1>2, <1>3, <1>4, <1>5

\* Every step keeps the types.
LEMMA TypeNext == TypeOK /\ [Next]_vars => TypeOK'
<1> SUFFICES ASSUME TypeOK, [Next]_vars PROVE TypeOK' OBVIOUS
<1>1. CASE UNCHANGED vars BY <1>1 DEF vars, clientVars, prepVars, TypeOK
<1>2. CASE OpStep \/ PrepareEnds BY <1>2, OpStepTypes DEF TypeOK
<1> QED BY <1>1, <1>2, LoopTypes, StopTypes, ProbeTypes DEF Next

\* The first state is well typed.
LEMMA TypeInit == Init => TypeOK
<1> SUFFICES ASSUME Init PROVE TypeOK OBVIOUS
<1>1. op \in Ops BY OpTypes DEF Init
<1>2. probe \in Probes BY DEF Init, NoProbe, Probes, Classes
<1>3. caller \in [Callers -> CallSteps] BY DEF Init, CallSteps
<1> QED BY <1>1, <1>2, <1>3 DEF Init, TypeOK, States, StopSteps

-----------------------------------------------------------------------------
(* The invariant. *)

\* The loop begins, joins or ends a load, or shuts down.
LEMMA LoopKeeps ==
  ASSUME IInv, TypeOK', Reconcile \/ OnOpDone \/ Shutdown \/ \E c \in Callers : EnsureReady(c) \/ CallerLeaves(c)
  PROVE  ClientInv'
<1> USE DEF clientVars, prepVars, IInv, ClientInv, StartingHasOp, StoppedMeansFree, InFlight, Free
<1>1. CASE Reconcile
  <2>1. PICK ans \in Answers :
          /\ FetchStatus(ans)
          /\ state' = "stopped" => ans = "unloaded"
          /\ \/ ans = "loading" /\ state' = "starting" /\ gen' = gen + 2 /\ StartOp(gen + 2)
             \/ ans # "loading" /\ state' \notin {"starting", "shutdown"} /\ gen' = gen + 1 /\ op' = op
    BY <1>1 DEF Reconcile
  <2>2. state' = "stopped" => proj = "unloaded" BY <2>1 DEF FetchStatus
  <2>3. \/ state' = "starting" /\ op'.step = "status" /\ op'.gen = gen'
        \/ state' \notin {"starting", "shutdown"} /\ op'.step = "none"
    BY <1>1, <2>1, OpEffects DEF Reconcile, TypeOK
  <2> QED BY <1>1, <2>2, <2>3 DEF Reconcile, FreeStates
<1>2. CASE OnOpDone
  <2>1. op.gen = gen /\ state = "starting" /\ op'.step = "none" /\ loop = "free" /\ booted
    BY <1>2 DEF OnOpDone, NoOp
  <2>2. waiters' = {} /\ state' \in {"ready", "failed"} BY <1>2, <2>1 DEF OnOpDone, Notify
  <2> QED BY <1>2, <2>1, <2>2 DEF OnOpDone
<1>3. CASE Shutdown
  <2>1. op'.step = op.step /\ waiters' = {} BY <1>3 DEF Shutdown, Notify, TypeOK, Ops
  <2> QED BY <1>3, <2>1 DEF Shutdown
<1>4. ASSUME NEW c \in Callers, EnsureReady(c) PROVE ClientInv'
  <2>1. CASE UNCHANGED <<state, gen, op, waiters>> BY <1>4, <2>1 DEF EnsureReady
  <2>2. CASE state = "starting" BY <1>4, <2>2 DEF EnsureReady
  <2>3. CASE state \notin {"shutdown", "ready", "starting"}
    <3>1. state' = "starting" /\ gen' = gen + 1 /\ op'.step = "status" /\ op'.gen = gen'
      BY <1>4, <2>3, OpEffects DEF EnsureReady, TypeOK
    <3>2. probe.begun => probe.gen < gen' BY <3>1 DEF TypeOK, Probes
    <3> QED BY <1>4, <2>3, <3>1, <3>2 DEF EnsureReady, TypeOK, Probes
  <2> QED BY <1>4, <2>1, <2>2, <2>3 DEF EnsureReady
<1>5. ASSUME NEW c \in Callers, CallerLeaves(c) PROVE ClientInv' BY <1>5 DEF CallerLeaves
<1> QED BY <1>1, <1>2, <1>3, <1>4, <1>5

\* A load operation under way stays under way until the loop has taken its result.
LEMMA OpKeeps ==
  ASSUME IInv, TypeOK', OpStep
  PROVE  ClientInv'
<1> USE DEF OpStep, OpStatus, OpPrepare, OpPrepareTimeout, OpRecheck, OpGate, OpPost, OpPosted,
            OpObserve, OpWait, OpCancelled
<1>1. UNCHANGED <<state, gen, waiters, loop, booted, probe>> BY OpStepTypes DEF IInv
<1>2. op.step # "none" BY DEF OpAt
<1>3. (\E step \in OpSteps \ {"none"} : OpGoes(step)) \/ (\E f \in BOOLEAN : OpEnds(f))
  BY DEF EnsureFrom, OpSteps
<1>4. op'.step # "none" /\ op'.gen = op.gen BY <1>3, OpEffects DEF IInv
<1>5. children' = IF prepBusy' THEN 1 ELSE 0
  <2>1. \/ UNCHANGED <<prepBusy, children>>
        \/ ~prepBusy /\ prepBusy' = TRUE /\ children' = children + 1
    BY DEF prepVars
  <2> QED BY <2>1 DEF IInv, ClientInv
<1> QED BY <1>1, <1>2, <1>4, <1>5
        DEF IInv, ClientInv, StartingHasOp, StoppedMeansFree, InFlight, TypeOK, Ops, Probes

\* A prepare command that ends may have started the project.
LEMMA PrepareKeeps ==
  ASSUME IInv, TypeOK', PrepareEnds
  PROVE  ClientInv'
<1>1. UNCHANGED <<state, gen, waiters, loop, booted, probe>> BY OpStepTypes DEF IInv
<1>2. \/ op' = op
      \/ op.step = "preparing" /\ (OpGoes("recheck") \/ OpEnds(TRUE))
  BY DEF PrepareEnds, OpAt
<1>3. op'.gen = op.gen /\ (op'.step = "none" <=> op.step = "none")
  BY <1>2, OpEffects DEF IInv, OpSteps
<1>4. children' = IF prepBusy' THEN 1 ELSE 0 BY DEF PrepareEnds, IInv, ClientInv, TypeOK
<1>5. proj' = proj \/ (proj = "down" /\ proj' \in {"down", "unloaded"}) BY DEF PrepareEnds
<1> QED BY <1>1, <1>3, <1>4, <1>5
        DEF IInv, ClientInv, StartingHasOp, StoppedMeansFree, InFlight, FreeStates

\* Stop moves the generation on and then has the loop to itself.
LEMMA StopKeeps ==
  ASSUME IInv, TypeOK', Stop \/ StopStep
  PROVE  ClientInv'
<1> USE DEF clientVars, prepVars, stopFrame, IInv, ClientInv, StartingHasOp, StoppedMeansFree, InFlight
<1>1. CASE Stop
  <2>1. /\ loop = "free" /\ booted /\ state # "shutdown" /\ gen' = gen + 1
        /\ UNCHANGED <<booted, prepBusy, children, probe, proj, waiters>>
    BY <1>1 DEF Stop, Free
  <2>2. \/ op.step # "none" /\ op'.step = op.step /\ loop' = "awaitOp" /\ state' = state
        \/ op.step = "none" /\ op'.step = "none" /\ loop' = "status" /\ state' = "stopping"
    BY <1>1 DEF Stop, StopBegins, NoOp, TypeOK, Ops
  <2>3. probe.begun => probe.gen < gen' BY <2>1 DEF TypeOK, Probes
  <2>4. probe.gen # gen' \/ ~probe.begun BY <2>3 DEF TypeOK, Probes
  <2> QED BY <2>1, <2>2, <2>3, <2>4 DEF TypeOK, Probes
<1>2. CASE StopAwaitsOp
  BY <1>2 DEF StopAwaitsOp, StopBegins, NoOp
<1>3. CASE StopStatus \/ StopPost \/ StopPosted \/ StopObserve
  <2>1. /\ loop \notin {"free", "awaitOp"} /\ state = "stopping" /\ op.step = "none" /\ booted
        /\ UNCHANGED <<gen, booted, prepBusy, children, probe, op>>
    BY <1>3 DEF StopStatus, StopPost, StopPosted, StopObserve
  <2>2. \/ /\ loop' = "free" /\ waiters' = {}
           /\ state' = "failed" \/ (state' = "stopped" /\ proj' = "unloaded")
        \/ loop' \in {"post", "posted", "observe"} /\ state' = state
    BY <1>3 DEF StopStatus, StopPost, StopPosted, StopObserve, StopEnds, StopStays, Notify, FetchStatus
  <2>3. probe.begun => probe.gen < gen BY <2>1
  <2>4. probe.class = "notResident" => probe.gen # gen BY <2>3 DEF TypeOK, Probes
  <2> QED BY <2>1, <2>2, <2>3, <2>4 DEF FreeStates, TypeOK, Probes
<1> QED BY <1>1, <1>2, <1>3 DEF StopStep

\* A probe is begun when nothing is under way, and applied only if nothing was since.
LEMMA ProbeKeeps ==
  ASSUME IInv, TypeOK', ProbeBegins \/ ProbeReads \/ Apply
  PROVE  ClientInv'
<1> USE DEF clientVars, prepVars, IInv, ClientInv, StartingHasOp, StoppedMeansFree, InFlight
<1>1. CASE ProbeBegins
  <2>1. probe'.begun /\ probe'.gen = gen /\ probe'.class = "none" BY <1>1 DEF ProbeBegins, NoProbe
  <2> QED BY <1>1, <2>1 DEF ProbeBegins, Free, TypeOK
<1>2. CASE ProbeReads
  <2>1. \/ probe' = NoProbe
        \/ \E class \in Classes : /\ probe' = [probe EXCEPT !.class = class]
                                  /\ class = "notResident" => proj \in FreeStates
    BY <1>2 DEF ProbeReads, Classes, FetchStatus, FreeStates
  <2>2. \/ ~probe'.begun /\ probe'.class = "none"
        \/ /\ probe'.begun = probe.begun /\ probe'.gen = gen /\ probe.gen = gen
           /\ probe'.class = "notResident" => proj \in FreeStates
        \/ /\ probe'.begun = probe.begun /\ probe'.gen = probe.gen /\ probe.gen # gen
    BY <2>1 DEF NoProbe, TypeOK, Probes
  <2>3. probe.begun BY <1>2 DEF ProbeReads
  <2> QED BY <1>2, <2>2, <2>3 DEF ProbeReads
<1>3. CASE Apply
  <2>1. /\ ~probe'.begun /\ probe'.class = "none" /\ loop = "free" /\ booted /\ state # "shutdown"
        /\ UNCHANGED <<op, loop, booted, prepBusy, children, proj, waiters>>
    BY <1>3 DEF Apply, NoProbe, Free
  <2>2. \/ gen' = gen /\ state' = state
        \/ /\ op.step = "none" /\ gen' = gen + 1 /\ state' \in {state, "ready", "stopped"}
           /\ state' = "stopped" => state = "stopped" \/ (probe.class = "notResident" /\ probe.gen = gen)
    BY <1>3 DEF Apply, AcceptApply
  <2> QED BY <2>1, <2>2 DEF FreeStates, TypeOK
<1> QED BY <1>1, <1>2, <1>3

\* The project works by itself, or dies.
LEMMA ProjKeeps ==
  ASSUME IInv, TypeOK', ProjWorks \/ ProjDies
  PROVE  ClientInv'
<1>1. UNCHANGED <<state, gen, waiters, op, loop, booted, prepBusy, children, probe>>
  BY DEF ProjWorks, ProjDies, clientVars, prepVars
<1>2. proj \in FreeStates => proj' \in FreeStates BY DEF ProjWorks, ProjDies, FreeStates
<1> QED BY <1>1, <1>2 DEF IInv, ClientInv, StartingHasOp, StoppedMeansFree, InFlight, FreeStates

\* The first state satisfies the invariant.
LEMMA InvInit == Init => IInv
BY TypeInit DEF Init, IInv, ClientInv, StartingHasOp, StoppedMeansFree, InFlight, NoOp, NoProbe

\* Every step keeps the invariant.
LEMMA InvNext == IInv /\ [Next]_vars => IInv'
<1> SUFFICES ASSUME IInv, [Next]_vars PROVE ClientInv' BY TypeNext DEF IInv
<1>1. TypeOK' BY TypeNext DEF IInv
<1>2. CASE UNCHANGED vars
  BY <1>2 DEF vars, clientVars, prepVars, IInv, ClientInv, StartingHasOp, StoppedMeansFree, InFlight
<1> QED BY <1>1, <1>2, LoopKeeps, OpKeeps, PrepareKeeps, StopKeeps, ProbeKeeps, ProjKeeps DEF Next

\* Every variable keeps its type.
THEOREM ClientTypes == Spec => []TypeOK
BY InvInit, InvNext, PTL DEF Spec, IInv

\* A model that its client calls stopped occupies no memory, whatever order loads, Stops,
\* late probe results, timeouts and deaths of the project happen in.
THEOREM StoppedIsFree == Spec => []StoppedMeansFree
<1>1. IInv => StoppedMeansFree BY DEF IInv, ClientInv
<1> QED BY <1>1, InvInit, InvNext, PTL DEF Spec

\* "starting" always has a load operation behind it that will end it.
THEOREM StartingIsServed == Spec => []StartingHasOp
<1>1. IInv => StartingHasOp BY DEF IInv, ClientInv
<1> QED BY <1>1, InvInit, InvNext, PTL DEF Spec

\* Prepare commands never overlap, also when the load that started one has given up.
THEOREM PreparesDoNotOverlap == Spec => []OnePrepare
<1>1. IInv => OnePrepare BY DEF IInv, ClientInv, OnePrepare
<1> QED BY <1>1, InvInit, InvNext, PTL DEF Spec

-----------------------------------------------------------------------------
(* Ready means loaded. *)

\* Why it holds: a load operation that succeeded and a probe that found the model ready
\* stay true until the loop has taken them, because only a load or a Stop could undo them
\* and either keeps the loop or the generation.
ReadyInv ==
  /\ ReadyIsLoaded
  /\ op.step = "done" /\ op.failed = FALSE => Loaded
  /\ probe.class = "readyIdle" /\ probe.gen = gen => Loaded

\* Faults are never taken back.
LEMMA FaultsStay == ASSUME TypeOK, [Next]_vars PROVE faults' \in Nat /\ (faults > 0 => faults' > 0)
<1>1. Fault \/ NoFault
  BY DEF Next, vars, clientVars, prepVars, Reconcile, OnOpDone, Shutdown, OpStep, PrepareEnds, OpStatus,
         OpPrepare, OpPrepareTimeout, OpRecheck, OpGate, OpPost, OpPosted, OpObserve, OpWait,
         OpCancelled, Stop, StopStep, StopAwaitsOp, StopStatus, StopPost, StopPosted, StopObserve,
         ProbeBegins, ProbeReads, Apply, ProjWorks, ProjDies, EnsureReady, CallerLeaves, FetchStatus,
         NoFault
<1> QED BY <1>1 DEF Fault, NoFault, TypeOK

\* A loaded project stays loaded, or dies, unless a load or an unload is posted to it.
LEMMA LoadedStays ==
  ASSUME TypeOK, [Next]_vars, Loaded, op.step # "post", loop # "post"
  PROVE  Loaded'
<1>1. \/ proj' = proj
      \/ proj = "down" /\ proj' = "unloaded"
      \/ proj' = "down" /\ Fault
  <2>1. CASE OpStep
    <3>1. ~OpPost BY DEF OpPost, OpAt
    <3> QED BY <2>1, <3>1 DEF OpStep, OpStatus, OpPrepare, OpPrepareTimeout, OpRecheck, OpGate,
                              OpPosted, OpObserve, OpWait, OpCancelled
  <2>2. CASE StopStep
    BY <2>2 DEF StopStep, StopAwaitsOp, StopStatus, StopPost, StopPosted, StopObserve
  <2>3. CASE PrepareEnds BY <2>3 DEF PrepareEnds
  <2>4. CASE ProjWorks BY <2>4 DEF ProjWorks, Loaded
  <2>5. CASE ProjDies BY <2>5 DEF ProjDies
  <2>6. CASE Reconcile \/ OnOpDone \/ Shutdown \/ Stop \/ ProbeBegins \/ ProbeReads \/ Apply \/ UNCHANGED vars
    BY <2>6 DEF Reconcile, OnOpDone, Shutdown, Stop, ProbeBegins, ProbeReads, Apply, vars
  <2>7. CASE \E c \in Callers : EnsureReady(c) \/ CallerLeaves(c) BY <2>7 DEF EnsureReady, CallerLeaves
  <2> QED BY <2>1, <2>2, <2>3, <2>4, <2>5, <2>6, <2>7 DEF Next
<1>2. Fault => faults' > 0 BY DEF Fault, TypeOK
<1> QED BY <1>1, <1>2, FaultsStay DEF Loaded

\* Nothing is posted to a project while its client is ready, while a finished operation
\* waits for the loop, or while a probe result is current.
LEMMA NothingPosted ==
  ASSUME IInv, state = "ready" \/ op.step = "done" \/ (probe.class = "readyIdle" /\ probe.gen = gen)
  PROVE  op.step # "post" /\ loop # "post"
<1> USE DEF IInv, ClientInv, StartingHasOp, InFlight
<1>1. CASE state = "ready" BY <1>1
<1>2. CASE op.step = "done" BY <1>2
<1>3. CASE probe.class = "readyIdle" /\ probe.gen = gen BY <1>3 DEF TypeOK, Probes
<1> QED BY <1>1, <1>2, <1>3

\* A client becomes ready by a status that says so, and then forwards requests.
LEMMA ReadyStep ==
  ASSUME IInv, ReadyInv, [Next]_vars, state' = "ready"
  PROVE  handler' /\ Loaded'
<1> USE DEF clientVars, prepVars
<1>1. CASE state = "ready" /\ handler' = handler
  BY <1>1, LoadedStays, NothingPosted DEF ReadyInv, ReadyIsLoaded, IInv
<1>2. CASE Reconcile
  <2>1. PICK ans \in Answers : FetchStatus(ans) /\ handler' = (ans = "ready") /\ ans = "ready"
    BY <1>2 DEF Reconcile
  <2>2. proj = "ready" /\ proj' = proj BY <1>2, <2>1 DEF FetchStatus, Reconcile
  <2> QED BY <2>1, <2>2 DEF Loaded
<1>3. CASE OnOpDone
  <2>1. op.step = "done" /\ op.gen = gen /\ proj' = proj /\ faults' = faults
    BY <1>3 DEF OnOpDone, Free, IInv, ClientInv, InFlight
  <2>2. op.failed = FALSE BY <1>3, <2>1 DEF OnOpDone, IInv, TypeOK, Ops
  <2>3. handler' BY <1>3, <2>1, <2>2 DEF OnOpDone
  <2> QED BY <2>1, <2>2, <2>3 DEF ReadyInv, Loaded
<1>4. CASE Apply
  <2>1. proj' = proj /\ faults' = faults BY <1>4 DEF Apply
  <2>2. \/ state = "ready" /\ handler' = handler
        \/ handler' = TRUE /\ probe.class = "readyIdle" /\ probe.gen = gen
    BY <1>4 DEF Apply, AcceptApply
  <2> QED BY <1>1, <2>1, <2>2 DEF ReadyInv, Loaded
<1>5. CASE Shutdown BY <1>5 DEF Shutdown
<1>6. CASE OpStep \/ PrepareEnds BY <1>1, <1>6, OpStepTypes DEF IInv
<1>7. CASE Stop
  BY <1>1, <1>7 DEF Stop, StopBegins
<1>8. CASE StopStep
  <2>1. state # "ready" BY <1>8 DEF StopStep, StopAwaitsOp, StopStatus, StopPost, StopPosted,
                                    StopObserve, IInv, ClientInv
  <2>2. state' = state \/ state' \in {"stopping", "stopped", "failed"}
    BY <1>8 DEF StopStep, StopAwaitsOp, StopBegins, StopStatus, StopPost, StopPosted, StopObserve,
                StopEnds, StopStays
  <2> QED BY <2>1, <2>2
<1>9. CASE ProbeBegins \/ ProbeReads \/ ProjWorks \/ ProjDies \/ UNCHANGED vars
  BY <1>1, <1>9 DEF ProbeBegins, ProbeReads, ProjWorks, ProjDies, vars
<1>10. ASSUME NEW c \in Callers, EnsureReady(c) \/ CallerLeaves(c) PROVE handler' /\ Loaded'
  BY <1>1, <1>10 DEF EnsureReady, CallerLeaves
<1> QED BY <1>2, <1>3, <1>4, <1>5, <1>6, <1>7, <1>8, <1>9, <1>10 DEF Next

\* A load operation succeeds only on a project that says it is ready.
LEMMA SuccessStep ==
  ASSUME IInv, ReadyInv, [Next]_vars, op'.step = "done", op'.failed = FALSE
  PROVE  Loaded'
<1> USE DEF clientVars, prepVars
<1>1. CASE op.step = "done" /\ op.failed = FALSE
  BY <1>1, LoadedStays, NothingPosted DEF ReadyInv, IInv
<1>2. CASE OpStep \/ PrepareEnds
  <2>1. \/ op' = op
        \/ \E step \in OpSteps \ {"done"} : OpGoes(step)
        \/ OpEnds(TRUE)
        \/ OpEnds(FALSE) /\ proj = "ready" /\ proj' = proj
    BY <1>2 DEF OpStep, PrepareEnds, OpStatus, OpPrepare, OpPrepareTimeout, OpRecheck, OpGate, OpPost,
                OpPosted, OpObserve, OpWait, OpCancelled, EnsureFrom, FetchStatus, OpSteps
  <2>2. ~OpEnds(TRUE) BY DEF OpEnds, IInv, TypeOK, Ops
  <2>3. \A step \in OpSteps \ {"done"} : ~OpGoes(step) BY OpEffects DEF IInv
  <2> QED BY <1>1, <2>1, <2>2, <2>3 DEF Loaded
<1>3. CASE ~(OpStep \/ PrepareEnds)
  <2>1. \/ op' = op
        \/ op' = NoOp
        \/ \E g \in Nat : StartOp(g)
        \/ \E b \in BOOLEAN : op' = [op EXCEPT !.cancelled = b]
    <3>1. CASE Reconcile BY <3>1 DEF Reconcile, IInv, TypeOK
    <3>2. CASE Shutdown
      <4>1. InFlight \in BOOLEAN BY Zenon DEF InFlight
      <4> QED BY <3>2, <4>1 DEF Shutdown
    <3>3. CASE Stop \/ StopStep \/ OnOpDone
      BY <3>3 DEF Stop, StopBegins, StopStep, StopAwaitsOp, StopStatus, StopPost, StopPosted,
                  StopObserve, OnOpDone
    <3>4. CASE ProbeBegins \/ ProbeReads \/ Apply \/ ProjWorks \/ ProjDies \/ UNCHANGED vars
      BY <3>4 DEF ProbeBegins, ProbeReads, Apply, ProjWorks, ProjDies, vars
    <3>5. ASSUME NEW c \in Callers, EnsureReady(c) \/ CallerLeaves(c)
          PROVE  op' = op \/ \E g \in Nat : StartOp(g)
      BY <3>5 DEF EnsureReady, CallerLeaves, IInv, TypeOK
    <3> QED BY <1>3, <3>1, <3>2, <3>3, <3>4, <3>5 DEF Next
  <2>2. NoOp.step # "done" BY DEF NoOp
  <2>3. \A g \in Nat : ~StartOp(g) BY OpEffects DEF IInv
  <2>4. \A b \in BOOLEAN : op' = [op EXCEPT !.cancelled = b] => op'.step = op.step /\ op'.failed = op.failed
    BY DEF IInv, TypeOK, Ops
  <2> QED BY <1>1, <2>1, <2>2, <2>3, <2>4
<1> QED BY <1>2, <1>3

\* A probe result that still counts is still true.
LEMMA ProbeStep ==
  ASSUME IInv, ReadyInv, [Next]_vars, probe'.class = "readyIdle", probe'.gen = gen'
  PROVE  Loaded'
<1> USE DEF clientVars, prepVars
<1>1. CASE probe' = probe /\ gen' = gen
  BY <1>1, LoadedStays, NothingPosted DEF ReadyInv, IInv
<1>2. CASE probe' = probe /\ gen' # gen
  <2>1. probe.begun /\ probe.gen <= gen BY <1>2 DEF IInv, ClientInv
  <2>2. gen' = gen + 1 \/ gen' = gen + 2
    <3>1. CASE OpStep \/ PrepareEnds BY <1>2, <3>1, OpStepTypes DEF IInv
    <3>2. CASE ~(OpStep \/ PrepareEnds)
      BY <1>2, <3>2 DEF Next, vars, Reconcile, OnOpDone, Shutdown, Stop, StopStep, StopAwaitsOp,
                        StopStatus, StopPost, StopPosted, StopObserve, stopFrame, ProbeBegins,
                        ProbeReads, Apply, AcceptApply, ProjWorks, ProjDies, EnsureReady, CallerLeaves
    <3> QED BY <3>1, <3>2
  <2> QED BY <1>2, <2>1, <2>2 DEF IInv, TypeOK, Probes
<1>3. CASE ProbeReads
  <2>1. \/ probe' = NoProbe
        \/ \E class \in Classes : /\ probe' = [probe EXCEPT !.class = class]
                                  /\ class = "readyIdle" => proj = "ready"
    BY <1>3 DEF ProbeReads, Classes, FetchStatus
  <2>2. NoProbe.class # "readyIdle" BY DEF NoProbe
  <2>3. proj = "ready" BY <2>1, <2>2 DEF IInv, TypeOK, Probes
  <2> QED BY <1>3, <2>3 DEF ProbeReads, Loaded
<1>4. CASE ProbeBegins \/ Apply
  <2>1. NoProbe.class = "none" /\ [NoProbe EXCEPT !.begun = TRUE, !.gen = gen].class = "none"
    BY DEF NoProbe
  <2> QED BY <1>4, <2>1 DEF ProbeBegins, Apply
<1>5. CASE OpStep \/ PrepareEnds BY <1>1, <1>5, OpStepTypes DEF IInv
<1>6. CASE ~(ProbeReads \/ ProbeBegins \/ Apply \/ OpStep \/ PrepareEnds)
  <2>1. probe' = probe
    BY <1>6 DEF Next, vars, Reconcile, OnOpDone, Shutdown, Stop, StopStep, StopAwaitsOp, StopStatus,
                StopPost, StopPosted, StopObserve, stopFrame, ProjWorks, ProjDies, EnsureReady,
                CallerLeaves
  <2> QED BY <1>1, <1>2, <2>1
<1> QED BY <1>3, <1>4, <1>5, <1>6

\* It holds at first, and every step keeps it.
LEMMA ReadyNext == (Init => ReadyInv) /\ (IInv /\ ReadyInv /\ [Next]_vars => ReadyInv')
<1>1. Init => ReadyInv BY DEF Init, ReadyInv, ReadyIsLoaded, NoOp, NoProbe
<1>2. ASSUME IInv, ReadyInv, [Next]_vars PROVE ReadyInv'
  BY <1>2, ReadyStep, SuccessStep, ProbeStep DEF ReadyInv, ReadyIsLoaded
<1> QED BY <1>1, <1>2

\* A model that its client calls ready is loaded, or has died since, and has its proxy.
THEOREM ReadyMeansLoaded == Spec => []ReadyIsLoaded
<1>1. ReadyInv => ReadyIsLoaded BY DEF ReadyInv
<1> QED BY <1>1, InvInit, InvNext, ReadyNext, PTL DEF Spec

\* No step answers an EnsureReady call with nil unless the model is ready then, or a Stop
\* has the loop.
LEMMA AnswerStep ==
  ASSUME TypeOK, [Next]_vars, NEW c \in Callers, caller[c] # "ok", caller'[c] = "ok"
  PROVE  state' = "ready" \/ loop # "free"
<1> USE DEF clientVars, prepVars, TypeOK
<1>1. CASE Reconcile \/ Stop \/ ProbeBegins \/ ProbeReads \/ Apply \/ ProjWorks \/ ProjDies \/ UNCHANGED vars
  BY <1>1 DEF Reconcile, Stop, ProbeBegins, ProbeReads, Apply, ProjWorks, ProjDies, vars
<1>2. CASE OpStep \/ PrepareEnds BY <1>2, OpStepTypes
<1>3. CASE OnOpDone BY <1>3 DEF OnOpDone, Notify
<1>4. CASE Shutdown BY <1>4 DEF Shutdown, Notify
<1>5. CASE StopStep
  BY <1>5 DEF StopStep, StopAwaitsOp, StopStatus, StopPost, StopPosted, StopObserve
<1>6. ASSUME NEW d \in Callers, EnsureReady(d) \/ CallerLeaves(d)
      PROVE  state' = "ready" \/ loop # "free"
  BY <1>6 DEF EnsureReady, CallerLeaves
<1> QED BY <1>1, <1>2, <1>3, <1>4, <1>5, <1>6 DEF Next

\* EnsureReady answers nil only for a model that is ready and loaded, or when a Stop took
\* over its load.
THEOREM ReadyAnswers == Spec => ReadyAnswerIsTrue
<1>1. TypeOK /\ ReadyIsLoaded' /\ [Next]_vars =>
        [\A c \in Callers : caller[c] # "ok" /\ caller'[c] = "ok" =>
            (state' = "ready" /\ Loaded') \/ loop # "free"]_vars
  BY AnswerStep DEF ReadyIsLoaded
<1> QED BY <1>1, ClientTypes, ReadyMeansLoaded, PTL DEF Spec, ReadyAnswerIsTrue

=============================================================================
